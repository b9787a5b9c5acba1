--------------------------- MODULE NoteTimerProofs ---------------------------
(***************************************************************************)
(* What holds of the timer of a note for every length of its phases, every *)
(* choice of minutes and every number of sessions: time is paid for once,  *)
(* an alarm is in time, and a record reopens as the run it was.            *)
(***************************************************************************)
EXTENDS NoteTimer, SequenceTheorems, TLAPS

-----------------------------------------------------------------------------
(* The inductive invariant                                                 *)

\* A run and what has been paid for it.
PaidFor(t) ==
  /\ t.state = "running" => t.due = t.paid + Duration(t)
  /\ t.state = "paused" => t.due = Longest(0, Duration(t) - t.paid)

\* A record as the engine leaves one at an instant: in its cycle, paid for, and
\* not ahead of the clock.
Sound(t, instant) ==
  /\ t \in Snapshot
  /\ InCycle(t)
  /\ t.paid <= instant
  /\ PaidFor(t)

\* A message that is no alarm carries a sound record.
Posted(message, instant) ==
  \/ message = Rung
  \/ message.type = "timer_changed" /\ Sound(message.timer, instant)

\* Wherever a record is kept, or is on its way, it is sound.
RecordsAreSound ==
  /\ Sound(page.timer, now) /\ Sound(host.window, now)
  /\ Sound(host.entry, now) /\ Sound(file, now)
  /\ \A i \in 1..Len(wire) : Posted(wire[i], now)

\* A window needs its application, and a message its window.
WindowsAreHosted ==
  /\ page.open => host.up
  /\ ~page.open => page = NoPage /\ wire = <<>>

\* While nothing is lost, the copies of the record are one.
CopiesAgree ==
  host.up /\ ~host.lost =>
    /\ file = host.entry
    /\ page.open => host.window = host.entry

\* The record the host has once it has taken i of the messages.
Heard(i) == IF i = 0 THEN host.window ELSE wire[i].timer

\* What a page may have made of s without a word to the host.
Unsaid(t, s, instant) ==
  \/ t = s
  \/ s.state = "idle" /\ t = [s EXCEPT !.minutes = t.minutes]
  \/ s.state = "running" /\ instant >= s.due /\ t = Stopped(s, "finished")

\* The last record posted, or taken if none is on its way, is the page's.
PageHasSpoken ==
  page.open =>
    \E i \in 0..Len(wire) :
      /\ i > 0 => wire[i].type = "timer_changed"
      /\ Unsaid(Timer, Heard(i), now)
      /\ \A j \in (i + 1)..Len(wire) : wire[j] = Rung

IInv ==
  /\ TypeOK
  /\ RecordsAreSound
  /\ WindowsAreHosted
  /\ CopiesAgree
  /\ PageHasSpoken

-----------------------------------------------------------------------------
(* The engine's operators keep a record sound.                             *)

\* Every phase takes some time.
LEMMA DurationType ==
    ASSUME NEW t \in Snapshot
    PROVE  Duration(t) \in Nat \ {0}
  <1>1. t.mode = "timer" => t.minutes \in Nat \ {0}
    BY LengthsAssumption DEF Snapshot
  <1>2. t.phase \in {"focus", "shortBreak", "longBreak"}
    BY DEF Snapshot, Phases
  <1>3. [focus |-> FocusTime, shortBreak |-> ShortBreakTime,
         longBreak |-> LongBreakTime][t.phase] \in Nat \ {0}
    BY <1>2, LengthsAssumption
  <1>4. QED BY <1>1, <1>3 DEF Duration

\* What is left of a run is a length of time.
LEMMA RemainingType ==
    ASSUME NEW t \in Snapshot, now \in Nat
    PROVE  Remaining(t) \in Nat
  BY DurationType DEF Remaining, Snapshot, States, Longest

LEMMA NoTimerIsSound ==
    ASSUME NEW instant \in Nat
    PROVE  Sound(NoTimer, instant)
  BY LengthsAssumption DEF NoTimer, Sound, Snapshot, InCycle, PaidFor, States, Phases

\* A sound record stays sound as time passes.
LEMMA SoundLater ==
    ASSUME NEW instant \in Nat, NEW later \in Nat, instant <= later,
           NEW t, Sound(t, instant)
    PROVE  Sound(t, later)
  BY DEF Sound, Snapshot

LEMMA StoppedIsSound ==
    ASSUME NEW instant \in Nat, NEW t, Sound(t, instant),
           NEW state \in {"idle", "finished"}
    PROVE  Sound(Stopped(t, state), instant)
  <1> DEFINE stopped == Stopped(t, state)
  <1>1. /\ stopped \in Snapshot
        /\ stopped.state = state /\ stopped.paid = 0
        /\ stopped.phase = t.phase /\ stopped.completed = t.completed
    BY DEF Stopped, Sound, Snapshot, States
  <1> HIDE DEF stopped
  <1>2. InCycle(stopped)
    BY <1>1 DEF Sound, InCycle
  <1>3. stopped.paid <= instant
    BY <1>1
  <1>4. PaidFor(stopped)
    BY <1>1 DEF PaidFor
  <1>5. Sound(stopped, instant)
    BY <1>1, <1>2, <1>3, <1>4 DEF Sound
  <1>6. QED BY <1>5 DEF stopped

LEMMA BegunIsSound ==
    ASSUME now \in Nat, NEW t, Sound(t, now)
    PROVE  Sound(Begun(t), now)
  <1>1. t \in Snapshot /\ Duration(t) \in Nat /\ now + Duration(t) \in Nat
    BY DurationType DEF Sound
  <1>2. Begun(t) \in Snapshot /\ Duration(Begun(t)) = Duration(t)
    BY <1>1 DEF Begun, Snapshot, States, Duration
  <1>3. QED BY <1>1, <1>2 DEF Begun, Sound, Snapshot, InCycle, PaidFor

\* However a phase is left, the next one is at its place in the cycle.
LEMMA AdvancedIsSound ==
    ASSUME NEW instant \in Nat, NEW t, Sound(t, instant)
    PROVE  Sound(Advanced(t), instant)
  <1>1. FocusSessions \in Nat /\ FocusSessions > 1
    BY LengthsAssumption
  <1>2. t \in Snapshot /\ InCycle(t)
    BY DEF Sound
  <1>3. t.phase \in Phases /\ t.completed \in 0..FocusSessions
    BY <1>2 DEF Snapshot
  <1> DEFINE completed == t.completed + 1
             next == IF t.phase = "focus"
                     THEN IF completed >= FocusSessions THEN <<"longBreak", FocusSessions>>
                          ELSE <<"shortBreak", completed>>
                     ELSE <<"focus", IF t.phase = "longBreak" THEN 0 ELSE t.completed>>
  <1>4. /\ next[1] \in Phases /\ next[2] \in 0..FocusSessions
        /\ next[1] = "longBreak" <=> next[2] = FocusSessions
        /\ next[1] = "shortBreak" => next[2] > 0
    BY <1>1, <1>2, <1>3 DEF InCycle, Phases
  <1>5. Advanced(t) = [Stopped(t, "idle") EXCEPT !.phase = next[1], !.completed = next[2]]
    BY DEF Advanced
  <1>6. Sound(Stopped(t, "idle"), instant)
    BY StoppedIsSound
  <1> HIDE DEF next
  <1>7. Stopped(t, "idle").state = "idle"
    BY <1>2 DEF Stopped, Snapshot
  <1>8. QED BY <1>4, <1>5, <1>6, <1>7 DEF Sound, Snapshot, InCycle, PaidFor

LEMMA RestoredIsSound ==
    ASSUME now \in Nat, NEW t, Sound(t, now)
    PROVE  Sound(Restored(t), now)
  BY StoppedIsSound DEF Restored

-----------------------------------------------------------------------------
(* The page speaks                                                         *)

LEMMA Offers ==
    ASSUME TypeOK, Offered
    PROVE  PageActs /\ operations' \in 0..MaxOperations
  BY BoundsAssumption DEF Offered, TypeOK

LEMMA NowIsNat == TypeOK => now \in Nat
  BY BoundsAssumption DEF TypeOK, Time

\* A record posted is a message, and an alarm is no record.
LEMMA MessageTypes ==
    ASSUME NEW t \in Snapshot
    PROVE  /\ Changed(t) \in Message /\ Rung \in Message
           /\ Changed(t).type = "timer_changed" /\ Changed(t).timer = t
           /\ Changed(t) # Rung /\ Rung.type = "timer_finished"
  <1>1. NoTimer \in Snapshot
    BY NoTimerIsSound, 0 \in Nat DEF Sound
  <1>2. QED BY <1>1 DEF Changed, Rung, Message

\* What the page posts for a record: the record, and perhaps the alarm.
LEMMA PostedMessages ==
    ASSUME TypeOK, NEW t \in Snapshot,
           wire' = Append(wire, Changed(t)) \/ wire' = wire \o <<Changed(t), Rung>>
    PROVE  /\ wire' \in Seq(Message)
           /\ Len(wire) \in Nat /\ Len(wire') \in Nat /\ Len(wire') > Len(wire)
           /\ \A i \in 1..Len(wire) : wire'[i] = wire[i]
           /\ wire'[Len(wire) + 1] = Changed(t)
           /\ \A j \in (Len(wire) + 2)..Len(wire') : wire'[j] = Rung
  <1>1. wire \in Seq(Message) /\ Len(wire) \in Nat
    BY LenProperties DEF TypeOK
  <1>2. Changed(t) \in Message /\ Rung \in Message
    BY MessageTypes
  <1>3. CASE wire' = Append(wire, Changed(t))
    BY <1>1, <1>2, <1>3
  <1>4. CASE wire' = wire \o <<Changed(t), Rung>>
    <2>1. <<Changed(t), Rung>> \in Seq(Message) /\ Len(<<Changed(t), Rung>>) = 2
      BY <1>2
    <2>2. /\ wire' \in Seq(Message) /\ Len(wire') = Len(wire) + 2
          /\ \A i \in 1..(Len(wire) + 2) : wire'[i] =
               IF i <= Len(wire) THEN wire[i] ELSE <<Changed(t), Rung>>[i - Len(wire)]
      BY <1>1, <1>4, <2>1, ConcatProperties
    <2>3. QED BY <1>1, <2>2
  <1>5. QED BY <1>3, <1>4

\* A page that has another record and posts it keeps the invariant.
LEMMA SpeakingKeepsIInv ==
    ASSUME IInv, PageActs, operations' \in 0..MaxOperations,
           NEW t, Sound(t, now), page' = [page EXCEPT !.timer = t],
           wire' = Append(wire, Changed(t)) \/ wire' = wire \o <<Changed(t), Rung>>
    PROVE  IInv'
  <1>1. t \in Snapshot /\ InCycle(t)
    BY DEF Sound
  <1>2. /\ page.open /\ page'.open /\ page'.timer = t
        /\ now' = now /\ host' = host /\ file' = file /\ lifecycleVars' = lifecycleVars
        /\ page' \in Page
    BY <1>1 DEF PageActs, IInv, TypeOK, Page
  <1>3. /\ wire' \in Seq(Message)
        /\ Len(wire) \in Nat /\ Len(wire') \in Nat /\ Len(wire') > Len(wire)
        /\ \A i \in 1..Len(wire) : wire'[i] = wire[i]
        /\ wire'[Len(wire) + 1] = Changed(t)
        /\ \A j \in (Len(wire) + 2)..Len(wire') : wire'[j] = Rung
    BY <1>1, PostedMessages DEF IInv
  <1>4. Changed(t).type = "timer_changed" /\ Changed(t).timer = t
    BY <1>1, MessageTypes
  <1>5. TypeOK'
    BY <1>1, <1>2, <1>3 DEF IInv, TypeOK, LifecycleTypeOK, lifecycleVars
  <1>6. RecordsAreSound'
    <2>1. \A i \in 1..Len(wire') : Posted(wire'[i], now)
      <3>1. ASSUME NEW i \in 1..Len(wire') PROVE Posted(wire'[i], now)
        <4>1. CASE i \in 1..Len(wire)
          BY <1>3, <4>1 DEF IInv, RecordsAreSound
        <4>2. CASE i = Len(wire) + 1
          BY <1>3, <1>4, <4>2 DEF Posted
        <4>3. CASE i \in (Len(wire) + 2)..Len(wire')
          BY <1>3, <4>3 DEF Posted
        <4>4. QED BY <1>3, <3>1, <4>1, <4>2, <4>3
      <3>2. QED BY <3>1
    <2>2. QED BY <1>2, <2>1 DEF IInv, RecordsAreSound
  <1>7. WindowsAreHosted' /\ CopiesAgree'
    BY <1>2 DEF IInv, WindowsAreHosted, CopiesAgree
  <1>8. PageHasSpoken'
    <2> DEFINE i == Len(wire) + 1
    <2>1. i \in 0..Len(wire') /\ i > 0 /\ i # 0
      BY <1>3
    <2>2. wire'[i].type = "timer_changed" /\ wire'[i].timer = Timer'
      BY <1>2, <1>3, <1>4 DEF Timer
    <2>3. Unsaid(Timer', wire'[i].timer, now')
      BY <2>2 DEF Unsaid
    <2>4. \A j \in (i + 1)..Len(wire') : wire'[j] = Rung
      BY <1>3
    <2>5. \E k \in 0..Len(wire') :
            /\ k > 0 => wire'[k].type = "timer_changed"
            /\ Unsaid(Timer', IF k = 0 THEN host'.window ELSE wire'[k].timer, now')
            /\ \A j \in (k + 1)..Len(wire') : wire'[j] = Rung
      <3> HIDE DEF i
      <3>1. QED BY <2>1, <2>2, <2>3, <2>4
    <2>6. QED BY <2>5 DEF PageHasSpoken, Heard
  <1>9. QED BY <1>5, <1>6, <1>7, <1>8 DEF IInv

\* A change of the record that is posted.
LEMMA BecomesKeepsIInv ==
    ASSUME IInv, PageActs, operations' \in 0..MaxOperations, NEW t, Sound(t, now), Becomes(t)
    PROVE  IInv'
  BY SpeakingKeepsIInv DEF Becomes, Posts

\* The end of a run, which is posted and rings.
LEMMA FinishingKeepsIInv ==
    ASSUME IInv, PageActs, operations' \in 0..MaxOperations, Finishes(Timer)
    PROVE  IInv'
  <1>1. now \in Nat /\ Sound(Timer, now)
    BY NowIsNat DEF IInv, RecordsAreSound, Timer
  <1>2. Sound(Stopped(Timer, "finished"), now)
    BY <1>1, StoppedIsSound
  <1>3. QED BY <1>2, SpeakingKeepsIInv DEF Finishes

-----------------------------------------------------------------------------
(* The reader's operations, and the redraw                                 *)

\* What an operation makes of the record is sound.
LEMMA ChosenIsSound ==
    ASSUME NEW instant \in Nat, NEW t, Sound(t, instant), t.state = "idle",
           NEW mode \in {"timer", "pomodoro"}, NEW minutes \in Minutes
    PROVE  /\ Sound([t EXCEPT !.mode = mode], instant)
           /\ Sound([t EXCEPT !.minutes = minutes], instant)
  BY DEF Sound, Snapshot, InCycle, PaidFor

\* A pause keeps what is left.
LEMMA PausedIsSound ==
    ASSUME now \in Nat, NEW t, Sound(t, now), t.state = "running"
    PROVE  Sound([t EXCEPT !.state = "paused", !.due = Remaining(t), !.paid = now - t.paid],
                 now)
  <1> DEFINE paused == [t EXCEPT !.state = "paused", !.due = Remaining(t),
                                 !.paid = now - t.paid]
  <1>1. t \in Snapshot /\ Duration(t) \in Nat /\ Remaining(t) \in Nat
        /\ t.paid \in Nat /\ t.paid <= now /\ t.due = t.paid + Duration(t)
    BY DurationType, RemainingType DEF Sound, PaidFor, Snapshot
  <1>2. now - t.paid \in Nat
    BY <1>1
  <1>3. /\ paused \in Snapshot /\ paused.state = "paused"
        /\ paused.due = Remaining(t) /\ paused.paid = now - t.paid
        /\ paused.phase = t.phase /\ paused.completed = t.completed
        /\ paused.mode = t.mode /\ paused.minutes = t.minutes
    BY <1>1, <1>2 DEF Snapshot, States
  <1> HIDE DEF paused
  <1>4. Duration(paused) = Duration(t)
    BY <1>3 DEF Duration
  <1>5. Remaining(t) = Longest(0, Duration(t) - (now - t.paid))
    BY <1>1 DEF Remaining, Longest
  <1>6. Sound(paused, now)
    BY <1>1, <1>3, <1>4, <1>5 DEF Sound, InCycle, PaidFor
  <1>7. QED BY <1>6 DEF paused

\* A run goes on with what was left of it.
LEMMA ResumedIsSound ==
    ASSUME now \in Nat, NEW t, Sound(t, now), t.state = "paused", t.due # 0
    PROVE  Sound([t EXCEPT !.state = "running", !.due = now + t.due, !.paid = now - t.paid],
                 now)
  <1> DEFINE resumed == [t EXCEPT !.state = "running", !.due = now + t.due,
                                  !.paid = now - t.paid]
  <1>1. t \in Snapshot /\ Duration(t) \in Nat /\ t.due \in Nat
        /\ t.paid \in Nat /\ t.paid <= now /\ t.due = Duration(t) - t.paid
    BY DurationType DEF Sound, PaidFor, Snapshot, Longest
  <1>2. now - t.paid \in Nat /\ now + t.due \in Nat
    BY <1>1
  <1>3. /\ resumed \in Snapshot /\ resumed.state = "running"
        /\ resumed.due = now + t.due /\ resumed.paid = now - t.paid
        /\ resumed.phase = t.phase /\ resumed.completed = t.completed
        /\ resumed.mode = t.mode /\ resumed.minutes = t.minutes
    BY <1>1, <1>2 DEF Snapshot, States
  <1> HIDE DEF resumed
  <1>4. Duration(resumed) = Duration(t)
    BY <1>3 DEF Duration
  <1>5. Sound(resumed, now)
    BY <1>1, <1>3, <1>4 DEF Sound, InCycle, PaidFor
  <1>6. QED BY <1>5 DEF resumed

LEMMA ResetIsSound ==
    ASSUME NEW instant \in Nat, NEW t, Sound(t, instant)
    PROVE  Sound([NoTimer EXCEPT !.mode = t.mode, !.minutes = t.minutes], instant)
  <1>1. NoTimer.state = "idle"
    BY DEF NoTimer
  <1>2. QED BY <1>1, NoTimerIsSound DEF Sound, Snapshot, InCycle, PaidFor

\* Minutes chosen for a run that has not begun go with the next change.
LEMMA SetMinutesKeepsIInv ==
    ASSUME IInv, NEW minutes \in Minutes, SetMinutes(minutes)
    PROVE  IInv'
  <1>1. PageActs /\ operations' \in 0..MaxOperations
    BY Offers DEF SetMinutes, IInv
  <1>2. /\ page.open /\ Timer.state = "idle"
        /\ Timer \in Snapshot /\ Timer = page.timer
        /\ Timer' = [Timer EXCEPT !.minutes = minutes]
        /\ page' \in Page /\ page'.open
        /\ now' = now /\ host' = host /\ file' = file /\ wire' = wire
        /\ lifecycleVars' = lifecycleVars
    BY <1>1 DEF SetMinutes, PageActs, IInv, TypeOK, Page, Timer, Snapshot
  <1>3. Sound(Timer', now)
    BY <1>2, ChosenIsSound, NowIsNat DEF IInv, RecordsAreSound, Snapshot
  <1>4. TypeOK'
    BY <1>1, <1>2, <1>3 DEF IInv, TypeOK, LifecycleTypeOK, lifecycleVars, Sound, Timer
  <1>5. RecordsAreSound' /\ WindowsAreHosted' /\ CopiesAgree'
    BY <1>2, <1>3 DEF IInv, RecordsAreSound, WindowsAreHosted, CopiesAgree, Timer
  <1>6. ASSUME NEW s, Unsaid(Timer, s, now)
        PROVE  Unsaid(Timer', s, now)
    <2>1. CASE Timer = s
      BY <1>2, <2>1 DEF Unsaid, Snapshot
    <2>2. CASE s.state = "idle" /\ Timer = [s EXCEPT !.minutes = Timer.minutes]
      BY <1>2, <2>2 DEF Unsaid, Snapshot
    <2>3. CASE s.state = "running" /\ Timer = Stopped(s, "finished")
      BY <1>2, <2>3 DEF Stopped, Snapshot
    <2>4. QED BY <1>6, <2>1, <2>2, <2>3 DEF Unsaid
  <1>7. PageHasSpoken'
    BY <1>2, <1>6 DEF IInv, PageHasSpoken, Heard
  <1>8. QED BY <1>4, <1>5, <1>7 DEF IInv

\* Every operation of the panel, and the redraw, keeps the invariant.
LEMMA PageKeepsIInv ==
    ASSUME IInv,
           \/ \E mode \in {"timer", "pomodoro"} : SetMode(mode)
           \/ \E minutes \in Minutes : SetMinutes(minutes)
           \/ Start \/ Pause \/ Resume \/ Cancel \/ Reset \/ Skip \/ Advance \/ Tick
    PROVE  IInv'
  <1>1. now \in Nat /\ TypeOK /\ Sound(Timer, now)
    BY NowIsNat DEF IInv, RecordsAreSound, Timer
  <1>2. Sound(Stopped(Timer, "idle"), now) /\ Stopped(Timer, "idle").state = "idle"
    BY <1>1, StoppedIsSound DEF Stopped, Sound, Snapshot
  <1>3. ASSUME NEW mode \in {"timer", "pomodoro"}, SetMode(mode)
        PROVE  IInv'
    <2>1. Sound([Stopped(Timer, "idle") EXCEPT !.mode = mode], now)
      BY <1>1, <1>2, ChosenIsSound, LengthsAssumption
    <2>2. QED BY <1>1, <1>3, <2>1, Offers, BecomesKeepsIInv DEF SetMode
  <1>4. ASSUME NEW minutes \in Minutes, SetMinutes(minutes)
        PROVE  IInv'
    BY <1>4, SetMinutesKeepsIInv
  <1>5. CASE Start
    BY <1>1, <1>5, BegunIsSound, Offers, BecomesKeepsIInv DEF Start
  <1>6. CASE Pause
    <2>1. Sound([Timer EXCEPT !.state = "paused", !.due = Remaining(Timer),
                              !.paid = now - Timer.paid], now)
      BY <1>1, <1>6, PausedIsSound DEF Pause
    <2>2. QED BY <1>1, <1>6, <2>1, Offers, BecomesKeepsIInv DEF Pause
  <1>7. CASE Resume
    <2>1. CASE Timer.due = 0
      BY <1>1, <1>7, <2>1, Offers, FinishingKeepsIInv DEF Resume
    <2>2. CASE Timer.due # 0
      <3>1. Sound([Timer EXCEPT !.state = "running", !.due = now + Timer.due,
                                !.paid = now - Timer.paid], now)
        BY <1>1, <1>7, <2>2, ResumedIsSound DEF Resume
      <3>2. QED BY <1>1, <1>7, <2>2, <3>1, Offers, BecomesKeepsIInv DEF Resume
    <2>3. QED BY <2>1, <2>2
  <1>8. CASE Cancel
    BY <1>1, <1>2, <1>8, Offers, BecomesKeepsIInv DEF Cancel
  <1>9. CASE Reset
    BY <1>1, <1>9, ResetIsSound, Offers, BecomesKeepsIInv DEF Reset
  <1>10. CASE Skip
    BY <1>1, <1>10, AdvancedIsSound, Offers, BecomesKeepsIInv DEF Skip
  <1>11. CASE Advance
    BY <1>1, <1>11, AdvancedIsSound, BegunIsSound, Offers, BecomesKeepsIInv DEF Advance
  <1>12. CASE Tick
    BY <1>1, <1>12, FinishingKeepsIInv DEF Tick, TypeOK
  <1>13. QED BY <1>3, <1>4, <1>5, <1>6, <1>7, <1>8, <1>9, <1>10, <1>11, <1>12

-----------------------------------------------------------------------------
(* The host                                                                *)

\* A window that hands a sound record over, and the clock and the lifecycle
\* wherever they are.
LEMMA HandingOverIsSound ==
    ASSUME IInv, NEW window, Sound(window, now), HandsOver(window), now' = now
    PROVE  /\ host' \in Host /\ file' \in Snapshot
           /\ Sound(host'.window, now) /\ Sound(host'.entry, now) /\ Sound(file', now)
           /\ host'.up = host.up /\ host'.window = window
           /\ ~host'.lost => file' = host'.entry /\ host'.window = host'.entry
  <1>1. window \in Snapshot
    BY DEF Sound
  <1>2. /\ host \in Host /\ Sound(host.window, now) /\ Sound(host.entry, now)
        /\ Sound(file, now) /\ file \in Snapshot
    BY DEF IInv, TypeOK, RecordsAreSound
  <1>3. CASE StructuralActionAllowed
    <2>1. Persists(window, window)
      BY <1>3 DEF HandsOver
    <2>2. CASE /\ host' = [host EXCEPT !.window = window, !.entry = window, !.lost = FALSE]
               /\ file' = window
      BY <1>1, <1>2, <2>2 DEF Host
    <2>3. CASE /\ host.faults < MaxFaults
               /\ host' = [host EXCEPT !.window = window, !.entry = window, !.lost = TRUE,
                                       !.faults = @ + 1]
               /\ UNCHANGED file
      <3>1. host.faults + 1 \in 0..MaxFaults
        BY <1>2, <2>3, BoundsAssumption DEF Host
      <3>2. host' \in Host /\ host'.window = window /\ host'.entry = window
            /\ host'.lost /\ host'.up = host.up
        BY <1>1, <1>2, <2>3, <3>1 DEF Host
      <3>3. QED BY <1>2, <2>3, <3>2
    <2>4. QED BY <2>1, <2>2, <2>3 DEF Persists
  <1>4. CASE ~StructuralActionAllowed
    BY <1>1, <1>2, <1>4 DEF HandsOver, Host
  <1>5. QED BY <1>3, <1>4

LEMMA TakesKeepsIInv ==
    ASSUME IInv, Takes
    PROVE  IInv'
  <1>1. /\ wire \in Seq(Message) /\ wire # <<>> /\ wire' = Tail(wire)
        /\ page' = page /\ now' = now /\ operations' = operations
        /\ lifecycleVars' = lifecycleVars
        /\ page.open
    BY DEF Takes, IInv, TypeOK, WindowsAreHosted
  <1>2. /\ wire' \in Seq(Message) /\ Len(wire) \in Nat \ {0} /\ Len(wire') = Len(wire) - 1
        /\ \A i \in 1..Len(wire') : wire'[i] = wire[i + 1]
        /\ Head(wire) = wire[1]
    BY <1>1, HeadTailProperties, EmptySeq
  <1>3. Posted(wire[1], now)
    BY <1>2 DEF IInv, RecordsAreSound
  <1>4. /\ host' \in Host /\ file' \in Snapshot
        /\ Sound(host'.window, now) /\ Sound(host'.entry, now) /\ Sound(file', now)
        /\ host'.up = host.up
        /\ CopiesAgree'
        /\ host'.window = IF wire[1] = Rung THEN host.window ELSE wire[1].timer
    <2>1. CASE wire[1] = Rung \/ wire[1].timer = host.window
      <3>1. host' = host /\ file' = file
        BY <1>2, <2>1 DEF Takes
      <3>2. QED BY <1>1, <2>1, <3>1 DEF IInv, TypeOK, RecordsAreSound, CopiesAgree
    <2>2. CASE ~(wire[1] = Rung \/ wire[1].timer = host.window)
      <3>1. HandsOver(wire[1].timer) /\ Sound(wire[1].timer, now)
        BY <1>2, <1>3, <2>2 DEF Takes, Posted
      <3>2. /\ host' \in Host /\ file' \in Snapshot
            /\ Sound(host'.window, now) /\ Sound(host'.entry, now) /\ Sound(file', now)
            /\ host'.up = host.up /\ host'.window = wire[1].timer
            /\ ~host'.lost => file' = host'.entry /\ host'.window = host'.entry
        BY <1>1, <3>1, HandingOverIsSound
      <3>3. QED BY <2>2, <3>2 DEF CopiesAgree
    <2>3. QED BY <2>1, <2>2
  <1>5. TypeOK'
    BY <1>1, <1>2, <1>4 DEF IInv, TypeOK, LifecycleTypeOK, lifecycleVars
  <1>6. RecordsAreSound'
    BY <1>1, <1>2, <1>4 DEF IInv, RecordsAreSound
  <1>7. WindowsAreHosted'
    BY <1>1, <1>4 DEF IInv, WindowsAreHosted
  <1>8. PageHasSpoken'
    <2>1. PICK i \in 0..Len(wire) :
             /\ i > 0 => wire[i].type = "timer_changed"
             /\ Unsaid(Timer, Heard(i), now)
             /\ \A j \in (i + 1)..Len(wire) : wire[j] = Rung
      BY <1>1 DEF IInv, PageHasSpoken
    <2>2. Timer' = Timer /\ now' = now
      BY <1>1 DEF Timer
    <2>3. CASE i = 0 \/ i = 1
      <3>1. host'.window = Heard(i)
        <4>1. i = 1 => wire[1] # Rung
          BY <2>1 DEF Rung
        <4>2. i = 0 => wire[1] = Rung
          BY <1>2, <2>1
        <4>3. QED BY <1>4, <2>3, <4>1, <4>2 DEF Heard
      <3>2. \A j \in 1..Len(wire') : wire'[j] = Rung
        BY <1>2, <2>1, <2>3
      <3>3. /\ 0 \in 0..Len(wire')
            /\ 0 > 0 => wire'[0].type = "timer_changed"
            /\ Unsaid(Timer', IF 0 = 0 THEN host'.window ELSE wire'[0].timer, now')
            /\ \A j \in (0 + 1)..Len(wire') : wire'[j] = Rung
        BY <1>2, <2>1, <2>2, <3>1, <3>2
      <3>4. QED BY <3>3 DEF PageHasSpoken, Heard
    <2>4. CASE i > 1
      <3> DEFINE k == i - 1
      <3>1. /\ k \in 0..Len(wire') /\ k > 0
            /\ wire'[k] = wire[i]
            /\ \A j \in (k + 1)..Len(wire') : wire'[j] = Rung
        BY <1>2, <2>1, <2>4
      <3>2. /\ k > 0 => wire'[k].type = "timer_changed"
            /\ Unsaid(Timer', IF k = 0 THEN host'.window ELSE wire'[k].timer, now')
        BY <2>1, <2>2, <2>4, <3>1 DEF Heard
      <3> HIDE DEF k
      <3>3. QED BY <3>1, <3>2 DEF PageHasSpoken, Heard
    <2>5. QED BY <2>3, <2>4
  <1>9. QED BY <1>4, <1>5, <1>6, <1>7, <1>8 DEF IInv

LEMMA GeometryKeepsIInv ==
    ASSUME IInv, Geometry
    PROVE  IInv'
  <1>1. /\ page.open /\ HandsOver(host.window) /\ Sound(host.window, now)
        /\ now' = now /\ page' = page /\ wire' = wire /\ operations' = operations
        /\ lifecycleVars' = lifecycleVars
    BY DEF Geometry, IInv, RecordsAreSound
  <1>2. /\ host' \in Host /\ file' \in Snapshot
        /\ Sound(host'.window, now) /\ Sound(host'.entry, now) /\ Sound(file', now)
        /\ host'.up = host.up /\ host'.window = host.window
        /\ ~host'.lost => file' = host'.entry /\ host'.window = host'.entry
    BY <1>1, HandingOverIsSound
  <1>3. TypeOK' /\ RecordsAreSound' /\ WindowsAreHosted' /\ CopiesAgree'
    BY <1>1, <1>2 DEF IInv, TypeOK, LifecycleTypeOK, lifecycleVars, RecordsAreSound,
      WindowsAreHosted, CopiesAgree
  <1>4. PageHasSpoken'
    BY <1>1, <1>2 DEF IInv, PageHasSpoken, Heard, Timer
  <1>5. QED BY <1>3, <1>4 DEF IInv

\* A window opens on what the application has.
LEMMA OpenKeepsIInv ==
    ASSUME IInv, Open
    PROVE  IInv'
  <1>1. /\ host.up /\ ~page.open /\ wire = <<>> /\ wire' = <<>>
        /\ page' = [open |-> TRUE, timer |-> Restored(host.entry)]
        /\ host' = [host EXCEPT !.window = host.entry]
        /\ now' = now /\ file' = file /\ operations' = operations
        /\ lifecycleVars' = lifecycleVars
        /\ host \in Host /\ now \in Nat
        /\ Sound(host.entry, now) /\ Sound(file, now)
    BY NowIsNat DEF Open, IInv, TypeOK, RecordsAreSound, WindowsAreHosted
  <1>2. Sound(Restored(host.entry), now)
    BY <1>1, RestoredIsSound
  <1>3. /\ host' \in Host /\ host'.window = host.entry /\ host'.entry = host.entry
        /\ host'.up /\ host'.lost = host.lost
    BY <1>1 DEF Host
  <1>4. TypeOK'
    BY <1>1, <1>2, <1>3 DEF IInv, TypeOK, Page, Sound, LifecycleTypeOK, lifecycleVars
  <1>5. RecordsAreSound' /\ WindowsAreHosted' /\ CopiesAgree'
    BY <1>1, <1>2, <1>3 DEF IInv, RecordsAreSound, WindowsAreHosted, CopiesAgree
  <1>6. PageHasSpoken'
    <2>1. Unsaid(Restored(host.entry), host.entry, now)
      BY DEF Restored, Unsaid
    <2>2. Len(wire') = 0
      BY <1>1
    <2>3. /\ 0 \in 0..Len(wire')
          /\ 0 > 0 => wire'[0].type = "timer_changed"
          /\ Unsaid(Timer', IF 0 = 0 THEN host'.window ELSE wire'[0].timer, now')
          /\ \A j \in (0 + 1)..Len(wire') : wire'[j] = Rung
      BY <1>1, <1>3, <2>1, <2>2 DEF Timer
    <2>4. QED BY <2>3 DEF PageHasSpoken, Heard
  <1>7. QED BY <1>4, <1>5, <1>6 DEF IInv

\* Where there is no window there is nothing to keep but the host's records.
LEMMA GoneKeepsIInv ==
    ASSUME IInv, WindowGone, now' = now, operations' = operations, LifecycleTypeOK',
           host' \in Host, Sound(host'.window, now), Sound(host'.entry, now),
           Sound(file', now),
           host'.up => file' = host'.entry
    PROVE  IInv'
  <1>1. page' = NoPage /\ wire' = <<>> /\ Len(wire') = 0
    BY DEF WindowGone
  <1>2. NoPage \in Page /\ ~NoPage.open /\ Sound(NoPage.timer, now)
    <2>1. Sound(NoTimer, now)
      BY NoTimerIsSound, NowIsNat DEF IInv
    <2>2. QED BY <2>1 DEF NoPage, Page, Sound
  <1>3. TypeOK'
    BY <1>1, <1>2 DEF IInv, TypeOK, Sound
  <1>4. RecordsAreSound' /\ WindowsAreHosted' /\ CopiesAgree' /\ PageHasSpoken'
    BY <1>1, <1>2 DEF RecordsAreSound, WindowsAreHosted, CopiesAgree, PageHasSpoken
  <1>5. QED BY <1>3, <1>4 DEF IInv

\* The host's part of every step.
LEMMA HostKeepsIInv ==
    ASSUME IInv,
           \/ Takes \/ Geometry \/ Open \/ Close
           \/ StartHide \/ HideFlushed \/ BeginWrite \/ FinishWrite
           \/ Crash \/ StartApplication
    PROVE  IInv'
  <1>1. /\ host \in Host /\ now \in Nat /\ LifecycleTypeOK
        /\ Sound(host.window, now) /\ Sound(host.entry, now) /\ Sound(file, now)
    BY NowIsNat DEF IInv, TypeOK, RecordsAreSound
  <1>2. LifecycleTypeOK'
    BY <1>1 DEF Takes, Geometry, Open, Close, StartHide, HideFlushed, BeginWrite, FinishWrite,
      Crash, StartApplication, BeginLifecycle, FinishLifecycle, BeginExternalWrite,
      FinishExternalWrite, LifecycleTypeOK, LifecycleOperation, lifecycleVars
  <1>3. CASE Takes
    BY <1>3, TakesKeepsIInv
  <1>4. CASE Geometry
    BY <1>4, GeometryKeepsIInv
  <1>5. CASE Open
    BY <1>5, OpenKeepsIInv
  <1>6. ASSUME host' = [host EXCEPT !.lost = FALSE], file' = host.entry, WindowGone,
               now' = now, operations' = operations
        PROVE  IInv'
    <2>1. host' \in Host /\ host'.window = host.window /\ host'.entry = host.entry
      BY <1>1, <1>6 DEF Host
    <2>2. QED BY <1>1, <1>2, <1>6, <2>1, GoneKeepsIInv
  <1>7. CASE Close
    BY <1>6, <1>7 DEF Close
  <1>8. ASSUME UNCHANGED <<now, page, wire, host, file, operations>>
        PROVE  IInv'
    <2>1. TypeOK' /\ RecordsAreSound' /\ WindowsAreHosted' /\ CopiesAgree'
      BY <1>2, <1>8 DEF IInv, TypeOK, RecordsAreSound, WindowsAreHosted, CopiesAgree
    <2>2. PageHasSpoken'
      BY <1>8 DEF IInv, PageHasSpoken, Heard, Timer
    <2>3. QED BY <2>1, <2>2 DEF IInv
  <1>9. CASE StartHide
    BY <1>8, <1>9 DEF StartHide
  <1>10. CASE HideFlushed
    BY <1>6, <1>8, <1>10 DEF HideFlushed
  <1>11. CASE BeginWrite
    BY <1>8, <1>11 DEF BeginWrite
  <1>12. CASE FinishWrite
    BY <1>8, <1>12 DEF FinishWrite
  <1>13. CASE Crash
    <2>1. Sound(NoTimer, now) /\ NoTimer \in Snapshot
      BY <1>1, NoTimerIsSound DEF Sound
    <2>2. /\ host' \in Host /\ ~host'.up
          /\ host'.window = NoTimer /\ host'.entry = NoTimer
      BY <1>1, <1>13, <2>1 DEF Crash, Host
    <2>3. QED BY <1>1, <1>2, <1>13, <2>1, <2>2, GoneKeepsIInv DEF Crash
  <1>14. CASE StartApplication
    <2>1. WindowGone
      <3>1. page = NoPage /\ wire = <<>>
        BY <1>14 DEF StartApplication, IInv, WindowsAreHosted
      <3>2. QED BY <1>14, <3>1 DEF StartApplication, WindowGone
    <2>2. host' \in Host /\ host'.window = host.window /\ host'.entry = file
      BY <1>1, <1>14 DEF StartApplication, Host, Sound
    <2>3. QED BY <1>1, <1>2, <1>14, <2>1, <2>2, GoneKeepsIInv DEF StartApplication
  <1>15. QED BY <1>3, <1>4, <1>5, <1>7, <1>9, <1>10, <1>11, <1>12, <1>13, <1>14

\* Time passes: what was sound still is, and a run may be over unsaid.
LEMMA PassingKeepsIInv ==
    ASSUME IInv, Passes
    PROVE  IInv'
  <1>1. /\ now \in Nat /\ now' = now + 1 /\ now' \in Time
        /\ UNCHANGED <<page, wire, host, file, operations, lifecycleVars>>
    BY NowIsNat, BoundsAssumption DEF Passes, IInv, TypeOK, Time
  <1>2. TypeOK' /\ WindowsAreHosted' /\ CopiesAgree'
    BY <1>1 DEF IInv, TypeOK, WindowsAreHosted, CopiesAgree, LifecycleTypeOK, lifecycleVars
  <1>3. \A t : Sound(t, now) => Sound(t, now')
    BY <1>1, SoundLater
  <1>4. RecordsAreSound'
    BY <1>1, <1>3 DEF IInv, RecordsAreSound, Posted
  <1>5. PageHasSpoken'
    <2>1. CASE page.open
      <3>1. PICK i \in 0..Len(wire) :
               /\ i > 0 => wire[i].type = "timer_changed"
               /\ Unsaid(Timer, Heard(i), now)
               /\ \A j \in (i + 1)..Len(wire) : wire[j] = Rung
        BY <2>1 DEF IInv, PageHasSpoken
      <3>2. Sound(Heard(i), now)
        <4>1. CASE i = 0
          BY <4>1 DEF Heard, IInv, RecordsAreSound
        <4>2. CASE i # 0
          <5>1. Posted(wire[i], now) /\ wire[i].type = "timer_changed"
            BY <3>1, <4>2 DEF IInv, RecordsAreSound
          <5>2. wire[i] # Rung
            BY <5>1 DEF Rung
          <5>3. QED BY <4>2, <5>1, <5>2 DEF Posted, Heard
        <4>3. QED BY <4>1, <4>2
      <3>3. Unsaid(Timer, Heard(i), now')
        <4>1. Heard(i).due \in Nat
          BY <3>2 DEF Sound, Snapshot
        <4>2. QED BY <1>1, <3>1, <4>1 DEF Unsaid
      <3>4. QED BY <1>1, <3>1, <3>3 DEF PageHasSpoken, Heard, Timer
    <2>2. QED BY <1>1, <2>1 DEF PageHasSpoken
  <1>6. QED BY <1>2, <1>4, <1>5 DEF IInv

-----------------------------------------------------------------------------
(* The invariant, and what follows from it                                 *)

LEMMA InitIInv == Init => IInv
  <1> SUFFICES ASSUME Init PROVE IInv
    OBVIOUS
  <1>1. /\ 0 \in Nat /\ 0 \in Time /\ 0 \in 0..MaxOperations /\ 0 \in 0..MaxFaults
        /\ <<>> \in Seq(Message) /\ Len(<<>>) = 0
    BY BoundsAssumption DEF Time
  <1>2. Sound(NoTimer, 0) /\ NoTimer \in Snapshot
    BY NoTimerIsSound, <1>1 DEF Sound
  <1>3. NoPage \in Page /\ ~NoPage.open /\ NoPage.timer = NoTimer
    BY <1>2 DEF NoPage, Page
  <1>4. host \in Host /\ host.window = NoTimer /\ host.entry = NoTimer
    BY <1>1, <1>2 DEF Init, Host
  <1>5. TypeOK
    BY <1>1, <1>2, <1>3, <1>4 DEF Init, TypeOK, LifecycleInit, LifecycleTypeOK, Sound
  <1>6. RecordsAreSound /\ WindowsAreHosted /\ CopiesAgree /\ PageHasSpoken
    BY <1>1, <1>2, <1>3, <1>4 DEF Init, RecordsAreSound, WindowsAreHosted, CopiesAgree,
      PageHasSpoken
  <1>7. QED BY <1>5, <1>6 DEF IInv

LEMMA NextKeepsIInv == IInv /\ [Next]_vars => IInv'
  <1> SUFFICES ASSUME IInv, [Next]_vars PROVE IInv'
    OBVIOUS
  <1>1. CASE UNCHANGED vars
    BY <1>1 DEF vars, IInv, TypeOK, RecordsAreSound, WindowsAreHosted, CopiesAgree,
      PageHasSpoken, Heard, Timer, LifecycleTypeOK, lifecycleVars
  <1>2. CASE Passes
    BY <1>2, PassingKeepsIInv
  <1>3. QED BY <1>1, <1>2, PageKeepsIInv, HostKeepsIInv DEF Next

\* The records of a note, in its page, on their way and at its host, are those of a
\* run that is paid for, and the host hears of every one (engine.ts, note_window.rs).
THEOREM TimerInvariant == Spec => []IInv
  BY InitIInv, NextKeepsIInv, PTL DEF Spec

\* Every variable keeps its type, and a Pomodoro its place in the cycle, for every
\* length of the phases and every number of sessions (engine.ts, advancePomodoro).
THEOREM TimerTypes == Spec => []TypeOK
  <1>1. IInv => TypeOK
    BY DEF IInv
  <1>2. QED BY <1>1, TimerInvariant, PTL

\* No time is spent while a run is paused, and none is gained (engine.ts, pause
\* and resume).
THEOREM TimeIsNeverLost == Spec => []TimeIsPaid
  <1>1. IInv => TimeIsPaid
    BY DEF IInv, RecordsAreSound, Sound, PaidFor, TimeIsPaid, Timer
  <1>2. QED BY <1>1, TimerInvariant, PTL

\* What a page leaves unsaid makes no difference to what is shown.
LEMMA UnsaidIsShown ==
    ASSUME NEW t \in Snapshot, NEW s \in Snapshot, Unsaid(t, s, now)
    PROVE  Shown(s) = Shown(t)
  <1>1. CASE t = s
    BY <1>1
  <1>2. CASE s.state = "idle" /\ t = [s EXCEPT !.minutes = t.minutes]
    <2>1. t.state = "idle"
      BY <1>2 DEF Snapshot
    <2>2. Restored(s) = s /\ Restored(t) = t
      BY <1>2, <2>1 DEF Restored
    <2>3. [s EXCEPT !.minutes = DefaultMinutes] = [t EXCEPT !.minutes = DefaultMinutes]
      BY <1>2 DEF Snapshot
    <2>4. QED BY <1>2, <2>1, <2>2, <2>3 DEF Shown
  <1>3. CASE s.state = "running" /\ now >= s.due /\ t = Stopped(s, "finished")
    <2>1. t.state = "finished"
      BY <1>3 DEF Stopped, Snapshot
    <2>2. Restored(s) = t /\ Restored(t) = t
      BY <1>3, <2>1 DEF Restored
    <2>3. QED BY <2>2 DEF Shown
  <1>4. QED BY <1>1, <1>2, <1>3 DEF Unsaid

\* A note reopens with the run its page showed, unless a change was refused or
\* could not be saved (engine.ts, restore; app.rs, update_geometry).
THEOREM NothingIsForgotten == Spec => []ReopensAsItWas
  <1>1. IInv => ReopensAsItWas
    <2> SUFFICES ASSUME IInv, page.open, wire = <<>>, ~host.lost
                 PROVE  Shown(file) = Shown(Timer)
      BY DEF ReopensAsItWas
    <2>1. Len(wire) = 0
      OBVIOUS
    <2>2. Unsaid(Timer, host.window, now)
      BY <2>1 DEF IInv, PageHasSpoken, Heard
    <2>3. file = host.window
      BY DEF IInv, WindowsAreHosted, CopiesAgree
    <2>4. Timer \in Snapshot /\ host.window \in Snapshot
      BY DEF IInv, RecordsAreSound, Sound, Timer
    <2>5. QED BY <2>2, <2>3, <2>4, UnsaidIsShown
  <1>2. QED BY <1>1, TimerInvariant, PTL

-----------------------------------------------------------------------------
(* The alarm                                                               *)

\* A record that is posted is the last of the messages, and no alarm.
LEMMA BecomingIsSilent ==
    ASSUME TypeOK, NEW t \in Snapshot, Becomes(t)
    PROVE  ~Rings /\ page'.open = page.open
  <1>1. wire \in Seq(Message) /\ Len(wire) \in Nat
    BY LenProperties DEF TypeOK
  <1>2. Changed(t) \in Message /\ Changed(t) # Rung
    BY MessageTypes
  <1>3. wire'[Len(wire')] = Changed(t)
    BY <1>1, <1>2 DEF Becomes, Posts
  <1>4. QED BY <1>2, <1>3 DEF Rings, Becomes, TypeOK, Page

\* A message that is taken, or goes with its window, leaves fewer.
LEMMA FewerIsSilent ==
    ASSUME TypeOK, wire' = wire \/ wire' = <<>> \/ (wire # <<>> /\ wire' = Tail(wire))
    PROVE  ~Rings
  <1>1. wire \in Seq(Message) /\ Len(wire) \in Nat
    BY LenProperties DEF TypeOK
  <1>2. Len(wire') <= Len(wire)
    BY <1>1, HeadTailProperties
  <1>3. Len(wire') \in Nat
    BY <1>1, HeadTailProperties
  <1>4. QED BY <1>1, <1>2, <1>3 DEF Rings

\* What RingsInTime says of one step.
RingsInTimeStep ==
  /\ Rings => Ran(Timer) >= Duration(Timer)
  /\ Opens /\ Timer'.state = "running" => Timer'.due > now

\* No operation of the panel but one that finishes a run rings.
LEMMA PageRingsInTime ==
    ASSUME IInv,
           \/ \E mode \in {"timer", "pomodoro"} : SetMode(mode)
           \/ \E minutes \in Minutes : SetMinutes(minutes)
           \/ Start \/ Pause \/ Resume \/ Cancel \/ Reset \/ Skip \/ Advance \/ Tick
    PROVE  RingsInTimeStep
  <1>1. now \in Nat /\ TypeOK /\ Sound(Timer, now) /\ Timer \in Snapshot
    BY NowIsNat DEF IInv, RecordsAreSound, Timer, Sound
  <1>2. page.open
    BY DEF SetMode, SetMinutes, Start, Pause, Resume, Cancel, Reset, Skip, Advance, Tick,
      Offered, PageActs
  <1>3. ~Opens
    BY <1>2 DEF Opens
  <1>4. Sound(Stopped(Timer, "idle"), now) /\ Stopped(Timer, "idle").state = "idle"
    BY <1>1, StoppedIsSound DEF Stopped, Sound, Snapshot
  <1>5. \A t : Sound(t, now) /\ Becomes(t) => ~Rings
    BY <1>1, BecomingIsSilent DEF Sound
  <1>6. ASSUME NEW mode \in {"timer", "pomodoro"}, SetMode(mode)
        PROVE  ~Rings
    <2>1. Sound([Stopped(Timer, "idle") EXCEPT !.mode = mode], now)
      BY <1>1, <1>4, ChosenIsSound, LengthsAssumption
    <2>2. QED BY <1>5, <1>6, <2>1 DEF SetMode
  <1>7. ASSUME NEW minutes \in Minutes, SetMinutes(minutes)
        PROVE  ~Rings
    BY <1>1, <1>7, FewerIsSilent DEF SetMinutes
  <1>8. CASE Start \/ Cancel \/ Reset \/ Skip \/ Advance
    <2>1. ~Rings
      BY <1>1, <1>4, <1>5, <1>8, BegunIsSound, ResetIsSound, AdvancedIsSound
        DEF Start, Cancel, Reset, Skip, Advance
    <2>2. QED BY <1>3, <2>1 DEF RingsInTimeStep
  <1>9. CASE Pause
    <2>1. ~Rings
      BY <1>1, <1>5, <1>9, PausedIsSound DEF Pause
    <2>2. QED BY <1>3, <2>1 DEF RingsInTimeStep
  <1>10. CASE Resume
    <2>1. CASE Timer.due # 0
      <3>1. ~Rings
        BY <1>1, <1>5, <1>10, <2>1, ResumedIsSound DEF Resume
      <3>2. QED BY <1>3, <3>1 DEF RingsInTimeStep
    <2>2. CASE Timer.due = 0
      <3>1. Timer.state = "paused" /\ Timer.due = Longest(0, Duration(Timer) - Timer.paid)
        BY <1>1, <1>10 DEF Resume, Sound, PaidFor
      <3>2. Duration(Timer) \in Nat /\ Timer.paid \in Nat
        BY <1>1, DurationType DEF Snapshot
      <3>3. QED BY <1>3, <2>2, <3>1, <3>2 DEF Longest, Ran, RingsInTimeStep
    <2>3. QED BY <2>1, <2>2
  <1>11. CASE Tick
    <2>1. /\ Timer.state = "running" /\ Longest(0, Timer.due - now) = 0
          /\ Timer.due = Timer.paid + Duration(Timer)
      BY <1>1, <1>11 DEF Tick, Remaining, Sound, PaidFor
    <2>2. Duration(Timer) \in Nat /\ Timer.paid \in Nat /\ Timer.due \in Nat
      BY <1>1, DurationType DEF Snapshot
    <2>3. QED BY <1>1, <1>3, <2>1, <2>2 DEF Longest, Ran, RingsInTimeStep
  <1>12. QED BY <1>3, <1>6, <1>7, <1>8, <1>9, <1>10, <1>11 DEF RingsInTimeStep

\* The host never rings, and a window that opens has a run with time left.
LEMMA HostRingsInTime ==
    ASSUME IInv,
           \/ Takes \/ Geometry \/ Open \/ Close
           \/ StartHide \/ HideFlushed \/ BeginWrite \/ FinishWrite
           \/ Crash \/ StartApplication \/ Passes
    PROVE  RingsInTimeStep
  <1>1. ~Rings
    BY FewerIsSilent DEF IInv, Takes, Geometry, Open, Close, StartHide, HideFlushed,
      BeginWrite, FinishWrite, Crash, StartApplication, Passes, WindowGone
  <1>2. CASE Open
    <2>1. host.entry.due \in Nat /\ now \in Nat
      BY NowIsNat DEF IInv, RecordsAreSound, Sound, Snapshot
    <2>2. Timer' = Restored(host.entry)
      BY <1>2 DEF Open, Timer
    <2>3. CASE host.entry.state = "running" /\ now >= host.entry.due
      <3>1. Timer'.state = "finished"
        BY <2>2, <2>3 DEF Restored, Stopped, IInv, RecordsAreSound, Sound, Snapshot
      <3>2. QED BY <1>1, <3>1 DEF RingsInTimeStep
    <2>4. CASE ~(host.entry.state = "running" /\ now >= host.entry.due)
      <3>1. Timer' = host.entry
        BY <2>2, <2>4 DEF Restored
      <3>2. QED BY <1>1, <2>1, <2>4, <3>1 DEF RingsInTimeStep
    <2>5. QED BY <2>3, <2>4
  <1>3. CASE ~Open
    <2>1. page' = page \/ page' = NoPage
      BY <1>3 DEF Takes, Geometry, Close, StartHide, HideFlushed, BeginWrite, FinishWrite,
        Crash, StartApplication, Passes, WindowGone
    <2>2. QED BY <1>1, <2>1 DEF RingsInTimeStep, Opens, NoPage
  <1>4. QED BY <1>2, <1>3

\* An alarm is for a run whose time is over, and for an end that is not in the
\* past when the note opens (engine.ts, finish and restore).
THEOREM AlarmsAreInTime == Spec => RingsInTime
  <1>1. IInv /\ [Next]_vars => [RingsInTimeStep]_vars
    BY PageRingsInTime, HostRingsInTime DEF Next
  <1>2. QED BY <1>1, TimerInvariant, PTL DEF Spec, RingsInTime, RingsInTimeStep

=============================================================================
