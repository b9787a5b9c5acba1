---------------------------- MODULE DesktopProofs -----------------------------
(***************************************************************************)
(* What is proved of Desktop for every set of notes and every bound: its   *)
(* types, that nothing a window shows is forgotten by the state file, and  *)
(* that all windows stay on one layer.                                     *)
(*                                                                         *)
(* A handler is a set of situations, so every lemma but the last ones is   *)
(* about one operator on situations: what it makes of a situation, and     *)
(* which of the parts of the invariant it keeps.                           *)
(***************************************************************************)
EXTENDS Desktop, TLAPS

Situations == [ctx : Context, disk : Disk]

-----------------------------------------------------------------------------
(* The inductive invariant, in the parts a situation has.                  *)

\* No window that its own copy says is open is marked as not coming back.
CopiesAgree(s) == \A n \in Notes : s.ctx.windows[n].open => n \notin s.ctx.state.closed

\* The file may be compared with the state: it may be written, and the last
\* write succeeded.
Comparable(s) == s.ctx.canPersist /\ ~s.disk.behind

\* The file knows the notes as the application does, a pending write or not.
NotesFiled(s) ==
  Comparable(s) =>
    /\ Remembered(s.disk).closed = s.ctx.state.closed
    /\ Remembered(s.disk).collapsed = s.ctx.state.collapsed

\* It knows the layer, unless that write is pending or the start was hidden.
LayerFiled(s) ==
  Comparable(s) =>
    \/ Remembered(s.disk).mode = s.ctx.state.mode
    \/ s.ctx.due
    \/ s.ctx.state.mode = "hidden"

\* A hidden application shows no window, and is not elevated.
HiddenIsEmpty(s) ==
  s.ctx.state.mode = "hidden" => Showing(s.ctx) = {} /\ s.ctx.restore = Nowhere

\* Until the first command nothing is shown, and nothing is elevated.
IdleIsEmpty(s) == ~s.ctx.activated => Showing(s.ctx) = {} /\ s.ctx.restore = Nowhere

\* What an operator that restores notes keeps, in whatever state the layer's
\* write is.
Coherent(s) == CopiesAgree(s) /\ NotesFiled(s) /\ HiddenIsEmpty(s)

DesktopInv ==
  /\ Running => Coherent(Now) /\ LayerFiled(Now) /\ IdleIsEmpty(Now)
  /\ ~Running => ctx = Stopped

-----------------------------------------------------------------------------
(* What a call makes of a situation.                                       *)

(* The parts of a situation are typed, and typed parts make one.           *)
LEMMA SituationParts ==
    ASSUME NEW s \in Situations
    PROVE  /\ s.ctx \in Context /\ s.disk \in Disk
           /\ s.ctx.state \in AppState /\ s.disk.state \in AppState
           /\ s.ctx.windows \in [Notes -> Window]
           /\ s.ctx.state.mode \in Modes
           /\ s.ctx.state.closed \subseteq Notes /\ s.ctx.state.collapsed \subseteq Notes
           /\ s.disk.faults \in 0..MaxFaults
  BY DEF Situations, Context, Disk, AppState

(* A window that is gone is a window, and nothing is a layer in the way.   *)
LEMMA GoneType ==
    Gone \in Window /\ DefaultState \in AppState /\ ~Gone.open /\ ~Gone.collapsed
  BY DEF Gone, Window, DefaultState, AppState, Modes, Nowhere

(* A fault is counted, and changes nothing else.                           *)
LEMMA FailingMakes ==
    ASSUME NEW s \in Situations, NEW r \in Failing(s)
    PROVE  /\ r \in Situations /\ r.ctx = s.ctx
           /\ r.disk = [s.disk EXCEPT !.faults = s.disk.faults + 1]
  <1>1. s.disk.faults < MaxFaults /\ r = [s EXCEPT !.disk.faults = @ + 1]
    BY DEF Failing
  <1>2. s.disk.faults + 1 \in 0..MaxFaults
    BY <1>1, SituationParts, BoundsAssumption
  <1>3. r = [s EXCEPT !.disk = [s.disk EXCEPT !.faults = s.disk.faults + 1]]
    BY <1>1, SituationParts DEF Situations
  <1>4. [s.disk EXCEPT !.faults = s.disk.faults + 1] \in Disk
    BY <1>2, SituationParts DEF Disk
  <1> QED
    BY <1>3, <1>4, SituationParts DEF Situations

(* A save leaves a situation whose file is the state, or one whose file    *)
(* is not to be compared; nothing else in the application changes.         *)
LEMMA SavedMakes ==
    ASSUME NEW s \in Situations
    PROVE  /\ Saved(s) \in Situations /\ Saved(s).ctx = s.ctx
           /\ Saved(s).disk = [s.disk EXCEPT !.kind = "state", !.state = s.ctx.state,
                                             !.behind = FALSE]
  <1>1. [s.disk EXCEPT !.kind = "state", !.state = s.ctx.state, !.behind = FALSE] \in Disk
    BY SituationParts DEF Disk
  <1>2. Saved(s) = [s EXCEPT !.disk = [s.disk EXCEPT !.kind = "state", !.state = s.ctx.state,
                                                    !.behind = FALSE]]
    BY SituationParts DEF Saved, Situations, Disk
  <1> QED
    BY <1>1, <1>2, SituationParts DEF Situations

(* A save that fails leaves the file behind.                               *)
LEMMA NotSavedMakes ==
    ASSUME NEW s \in Situations, NEW r \in NotSaved(s)
    PROVE  /\ r \in Situations /\ r.ctx = s.ctx
           /\ r.disk.behind
           /\ r.disk.live = s.disk.live /\ r.disk.trash = s.disk.trash
  <1>1. PICK f \in Failing(s) : r = [f EXCEPT !.disk.behind = TRUE]
    BY DEF NotSaved
  <1>2. f \in Situations /\ f.ctx = s.ctx /\ f.disk = [s.disk EXCEPT !.faults = s.disk.faults + 1]
    BY FailingMakes
  <1>3. [f.disk EXCEPT !.behind = TRUE] \in Disk
    BY <1>2, SituationParts DEF Disk
  <1>4. r = [f EXCEPT !.disk = [f.disk EXCEPT !.behind = TRUE]]
    BY <1>1, <1>2 DEF Situations
  <1> QED
    BY <1>2, <1>3, <1>4, SituationParts DEF Situations, Disk

(* A write that is made is no longer due.                                  *)
LEMMA SettledMakes ==
    ASSUME NEW s \in Situations
    PROVE  /\ Settled(s) \in Situations
           /\ Settled(s).ctx = [s.ctx EXCEPT !.due = FALSE] /\ Settled(s).disk = s.disk
  <1>1. [s.ctx EXCEPT !.due = FALSE] \in Context
    BY SituationParts DEF Context
  <1>2. Settled(s) = [s EXCEPT !.ctx = [s.ctx EXCEPT !.due = FALSE]]
    BY DEF Settled, Situations
  <1> QED
    BY <1>1, <1>2 DEF Situations

(* What persist_state_now leaves, whichever way it answers.                *)
LEMMA PersistedMakes ==
    ASSUME NEW s \in Situations, NEW r \in Persisted(s)
    PROVE  /\ r \in Situations /\ r.ctx = [s.ctx EXCEPT !.due = FALSE]
           /\ Comparable(r) => r.disk.kind = "state" /\ r.disk.state = s.ctx.state
           /\ r \notin PersistedOk(s) => ~Comparable(r)
  <1>1. CASE r \in PersistedOk(s)
    <2>1. r = IF s.ctx.canPersist THEN Saved(Settled(s)) ELSE Settled(s)
      BY <1>1 DEF PersistedOk
    <2>2. Settled(s).ctx.state = s.ctx.state /\ Settled(s).ctx.canPersist = s.ctx.canPersist
      BY SettledMakes, SituationParts DEF Context
    <2>3. CASE s.ctx.canPersist
      <3>1. Saved(Settled(s)) = r
        BY <2>1, <2>3
      <3>2. r \in Situations /\ r.ctx = Settled(s).ctx
            /\ r.disk = [s.disk EXCEPT !.kind = "state", !.state = Settled(s).ctx.state,
                                       !.behind = FALSE]
        BY <3>1, SettledMakes, SavedMakes
      <3> QED
        BY <1>1, <2>2, <3>2, SettledMakes, SituationParts DEF Disk
    <2>4. CASE ~s.ctx.canPersist
      BY <1>1, <2>1, <2>2, <2>4, SettledMakes DEF Comparable
    <2> QED
      BY <2>3, <2>4
  <1>2. CASE r \notin PersistedOk(s)
    <2>1. r \in NotSaved(Settled(s))
      BY <1>2 DEF Persisted, PersistFailed
    <2> QED
      BY <2>1, SettledMakes, NotSavedMakes DEF Comparable
  <1> QED
    BY <1>1, <1>2

(* After it the file is what the state is, or is not to be compared.       *)
LEMMA PersistedFiles ==
    ASSUME NEW s \in Situations, NEW r \in Persisted(s)
    PROVE  NotesFiled(r) /\ LayerFiled(r)
  <1>1. r.ctx = [s.ctx EXCEPT !.due = FALSE] /\ s.ctx \in Context
    BY PersistedMakes, SituationParts
  <1>2. r.ctx.state = s.ctx.state
    BY <1>1 DEF Context
  <1>3. Comparable(r) => r.disk.kind = "state" /\ r.disk.state = s.ctx.state
    BY PersistedMakes
  <1> QED
    BY <1>2, <1>3 DEF NotesFiled, LayerFiled, Remembered

(* What is shown stays as it is.                                           *)
LEMMA PersistedShows ==
    ASSUME NEW s \in Situations, NEW r \in Persisted(s)
    PROVE  /\ r.ctx.windows = s.ctx.windows /\ r.ctx.state = s.ctx.state
           /\ r.ctx.restore = s.ctx.restore /\ r.ctx.up = s.ctx.up
           /\ r.ctx.activated = s.ctx.activated
           /\ Showing(r.ctx) = Showing(s.ctx)
           /\ Effective(r.ctx) = Effective(s.ctx)
           /\ CopiesAgree(s) => CopiesAgree(r)
           /\ HiddenIsEmpty(s) => HiddenIsEmpty(r)
           /\ IdleIsEmpty(s) => IdleIsEmpty(r)
  <1>0. r.ctx = [s.ctx EXCEPT !.due = FALSE] /\ s.ctx \in Context
    BY PersistedMakes, SituationParts
  <1>1. /\ r.ctx.windows = s.ctx.windows /\ r.ctx.state = s.ctx.state
        /\ r.ctx.restore = s.ctx.restore /\ r.ctx.up = s.ctx.up
        /\ r.ctx.activated = s.ctx.activated
    BY <1>0 DEF Context
  <1>2. Showing(r.ctx) = Showing(s.ctx) /\ Effective(r.ctx) = Effective(s.ctx)
    BY <1>1 DEF Showing, Effective
  <1> QED
    BY <1>1, <1>2 DEF CopiesAgree, HiddenIsEmpty, IdleIsEmpty

-----------------------------------------------------------------------------
(* What the operators that make windows leave.                             *)

(* A situation with another context.                                       *)
LEMMA WithContext ==
    ASSUME NEW s \in Situations, NEW c \in Context
    PROVE  /\ [s EXCEPT !.ctx = c] \in Situations
           /\ [s EXCEPT !.ctx = c].ctx = c /\ [s EXCEPT !.ctx = c].disk = s.disk
  BY DEF Situations

(* A window is built open unless the state says that its note is not to    *)
(* come back.                                                              *)
LEMMA BuiltFacts ==
    ASSUME NEW s, NEW n, NEW mode \in Modes
    PROVE  /\ Built(s, n, mode) \in Window
           /\ Built(s, n, mode).layer = mode
           /\ Built(s, n, mode).open => n \notin s.ctx.state.closed
  <1>1. /\ (n \notin s.ctx.state.closed) \in BOOLEAN
        /\ (n \in s.ctx.state.collapsed) \in BOOLEAN
    OBVIOUS
  <1>2. Built(s, n, mode) \in Window
    BY <1>1 DEF Built, Window
  <1>3. Built(s, n, mode).layer = mode
    BY DEF Built
  <1>4. Built(s, n, mode).open = (n \notin s.ctx.state.closed)
    BY DEF Built
  <1> QED
    BY <1>2, <1>3, <1>4

\* The windows of r are those of s, and some built for notes that had none.
BuiltOrKept(r, s, wanted, mode) ==
  \A n \in Notes :
    \/ r.ctx.windows[n] = s.ctx.windows[n]
    \/ /\ n \notin Showing(s.ctx) /\ n \in wanted
       /\ r.ctx.windows[n] = Built(s, n, mode)

(* instantiate_note_by_id builds windows for notes that have none, on one  *)
(* layer, each with what the state knows of its note.                      *)
LEMMA InstantiatedMakes ==
    ASSUME NEW s \in Situations, NEW wanted, NEW mode \in Modes,
           NEW r \in Instantiated(s, wanted, mode)
    PROVE  /\ r \in Situations
           /\ r.ctx = [s.ctx EXCEPT !.windows = r.ctx.windows]
           /\ r.disk.kind = s.disk.kind /\ r.disk.state = s.disk.state
           /\ r.disk.behind = s.disk.behind
           /\ BuiltOrKept(r, s, wanted, mode)
  <1> DEFINE missing == wanted \ Showing(s.ctx)
             built(read) ==
               [n \in Notes |-> IF n \in read THEN Built(s, n, mode) ELSE s.ctx.windows[n]]
  <1>1. \E t \in {s} \cup Failing(s), read \in SUBSET missing :
           r = [t EXCEPT !.ctx.windows = built(read)]
    <2>1. \/ r = [s EXCEPT !.ctx.windows = built(missing)]
          \/ \E f \in Failing(s), read \in (SUBSET missing) \ {missing} :
               r = [f EXCEPT !.ctx.windows = built(read)]
      BY DEF Instantiated
    <2> QED
      BY <2>1
  <1>2. PICK t \in {s} \cup Failing(s), read \in SUBSET missing :
           r = [t EXCEPT !.ctx.windows = built(read)]
    BY <1>1
  <1>3. /\ t \in Situations /\ t.ctx = s.ctx
        /\ t.disk.kind = s.disk.kind /\ t.disk.state = s.disk.state
        /\ t.disk.behind = s.disk.behind
    <2>1. CASE t = s
      BY <2>1
    <2>2. CASE t \in Failing(s)
      <3>1. t \in Situations /\ t.ctx = s.ctx
            /\ t.disk = [s.disk EXCEPT !.faults = s.disk.faults + 1]
        BY <2>2, FailingMakes
      <3> QED
        BY <3>1, SituationParts DEF Disk
    <2> QED
      BY <1>2, <2>1, <2>2
  <1>4. built(read) \in [Notes -> Window]
    BY SituationParts, BuiltFacts
  <1>5. [s.ctx EXCEPT !.windows = built(read)] \in Context
    BY <1>4, SituationParts DEF Context
  <1>6. r = [t EXCEPT !.ctx = [s.ctx EXCEPT !.windows = built(read)]]
    BY <1>2, <1>3 DEF Situations
  <1>7. r \in Situations /\ r.ctx = [s.ctx EXCEPT !.windows = built(read)] /\ r.disk = t.disk
    BY <1>3, <1>5, <1>6, WithContext
  <1>8. r.ctx.windows = built(read)
    BY <1>7, SituationParts DEF Context
  <1>9. \A n \in Notes : n \in read => n \notin Showing(s.ctx) /\ n \in wanted
    OBVIOUS
  <1> QED
    BY <1>3, <1>7, <1>8, <1>9 DEF BuiltOrKept

(* It agrees with the state, and leaves the file alone.                    *)
LEMMA InstantiatedKeeps ==
    ASSUME NEW s \in Situations, NEW wanted, NEW mode \in Modes,
           NEW r \in Instantiated(s, wanted, mode)
    PROVE  /\ r.ctx.state = s.ctx.state /\ r.ctx.restore = s.ctx.restore
           /\ r.ctx.up = s.ctx.up /\ r.ctx.activated = s.ctx.activated
           /\ r.ctx.due = s.ctx.due /\ Effective(r.ctx) = Effective(s.ctx)
           /\ CopiesAgree(s) => CopiesAgree(r)
           /\ NotesFiled(s) => NotesFiled(r)
           /\ LayerFiled(s) => LayerFiled(r)
  <1>b. BuiltOrKept(r, s, wanted, mode)
    BY InstantiatedMakes
  <1>w. \A n \in Notes :
          \/ r.ctx.windows[n] = s.ctx.windows[n]
          \/ r.ctx.windows[n] = Built(s, n, mode)
    BY <1>b DEF BuiltOrKept
  <1>1. /\ r.ctx = [s.ctx EXCEPT !.windows = r.ctx.windows] /\ s.ctx \in Context
        /\ r.disk.kind = s.disk.kind /\ r.disk.state = s.disk.state
        /\ r.disk.behind = s.disk.behind
    BY InstantiatedMakes, SituationParts
  <1>2. /\ r.ctx.state = s.ctx.state /\ r.ctx.restore = s.ctx.restore
        /\ r.ctx.up = s.ctx.up /\ r.ctx.activated = s.ctx.activated
        /\ r.ctx.due = s.ctx.due /\ r.ctx.canPersist = s.ctx.canPersist
    BY <1>1 DEF Context
  <1>3. ASSUME CopiesAgree(s) PROVE CopiesAgree(r)
    <2> SUFFICES ASSUME NEW n \in Notes, r.ctx.windows[n].open
                 PROVE  n \notin s.ctx.state.closed
      BY <1>2 DEF CopiesAgree
    <2>1. CASE r.ctx.windows[n] = s.ctx.windows[n]
      BY <1>3, <2>1 DEF CopiesAgree
    <2>2. CASE r.ctx.windows[n] = Built(s, n, mode)
      BY <2>2, BuiltFacts
    <2> QED
      BY <2>1, <2>2, <1>w
  <1>4. Effective(r.ctx) = Effective(s.ctx)
    BY <1>2 DEF Effective
  <1>5. Comparable(r) = Comparable(s) /\ Remembered(r.disk) = Remembered(s.disk)
    BY <1>1, <1>2 DEF Comparable, Remembered
  <1>6. (NotesFiled(s) => NotesFiled(r)) /\ (LayerFiled(s) => LayerFiled(r))
    BY <1>2, <1>5 DEF NotesFiled, LayerFiled
  <1> QED
    BY <1>2, <1>3, <1>4, <1>6

(* Notes marked as open are open, on a layer that can be seen, and filed.  *)
LEMMA MarkedOpenMakes ==
    ASSUME NEW s \in Situations, NEW wanted, NEW mode \in {"overlay", "desktop"},
           NEW r \in MarkedOpen(s, wanted, mode)
    PROVE  /\ r \in Situations /\ NotesFiled(r) /\ LayerFiled(r) /\ HiddenIsEmpty(r)
           /\ r.ctx.windows = s.ctx.windows /\ Showing(r.ctx) = Showing(s.ctx)
           /\ r.ctx.restore = s.ctx.restore /\ r.ctx.up = s.ctx.up
           /\ r.ctx.activated = s.ctx.activated
           /\ r.ctx.state.mode = mode
           /\ CopiesAgree(s) => CopiesAgree(r)
  <1> DEFINE state == [s.ctx.state EXCEPT !.mode = mode, !.closed = s.ctx.state.closed \ wanted]
             c == [s.ctx EXCEPT !.state = state]
             t == [s EXCEPT !.ctx = c]
  <1>1. state \in AppState /\ state.mode = mode /\ state.closed = s.ctx.state.closed \ wanted
    BY SituationParts DEF AppState, Modes
  <1>2. c \in Context /\ c.state = state /\ c.windows = s.ctx.windows
        /\ c.restore = s.ctx.restore /\ c.up = s.ctx.up /\ c.activated = s.ctx.activated
    BY <1>1, SituationParts DEF Context
  <1>3. t \in Situations /\ t.ctx = c
    BY <1>2, WithContext
  <1>4. t = [s EXCEPT !.ctx.state.mode = mode, !.ctx.state.closed = @ \ wanted]
    BY SituationParts DEF Situations, Context, AppState
  <1>5. r \in Persisted(t)
    BY <1>4 DEF MarkedOpen
  <1> HIDE DEF state, c, t
  <1>6. /\ r \in Situations /\ NotesFiled(r) /\ LayerFiled(r)
        /\ r.ctx.windows = t.ctx.windows /\ r.ctx.state = t.ctx.state
        /\ r.ctx.restore = t.ctx.restore /\ r.ctx.up = t.ctx.up
        /\ r.ctx.activated = t.ctx.activated
    BY <1>3, <1>5, PersistedMakes, PersistedFiles, PersistedShows
  <1>7. r.ctx.state.mode = mode /\ r.ctx.state.closed = s.ctx.state.closed \ wanted
    BY <1>1, <1>2, <1>3, <1>6
  <1>8. HiddenIsEmpty(r)
    BY <1>7 DEF HiddenIsEmpty
  <1>9. CopiesAgree(s) => CopiesAgree(r)
    BY <1>2, <1>3, <1>6, <1>7 DEF CopiesAgree
  <1>10. r.ctx.windows = s.ctx.windows
    BY <1>2, <1>3, <1>6
  <1>11. Showing(r.ctx) = Showing(s.ctx)
    BY <1>10 DEF Showing
  <1> QED
    BY <1>2, <1>3, <1>6, <1>7, <1>8, <1>9, <1>10, <1>11

(* The layers that can be seen.                                            *)
LEMMA VisibleModes ==
    ASSUME NEW mode \in Modes
    PROVE  /\ Visible(mode) \in {"overlay", "desktop"} /\ Visible(mode) \in Modes
           /\ (mode # "hidden" => Visible(mode) = mode)
  BY DEF Visible, Modes

(* The layer the windows are on is a layer.                                *)
LEMMA EffectiveMode ==
    ASSUME NEW s \in Situations
    PROVE  Effective(s.ctx) \in Modes
  BY SituationParts DEF Effective, Modes

(* What making a note changes, before it is saved.                         *)
LEMMA WithNoteMakes ==
    ASSUME NEW s \in Situations, NEW n \in Notes
    PROVE  /\ WithNote(s, n) \in Situations
           /\ WithNote(s, n).ctx.restore = s.ctx.restore
           /\ WithNote(s, n).ctx.up = s.ctx.up
           /\ WithNote(s, n).ctx.activated = s.ctx.activated
           /\ WithNote(s, n).ctx.state.closed = s.ctx.state.closed \ {n}
           /\ WithNote(s, n).ctx.state.mode = IF s.ctx.restore # Nowhere THEN s.ctx.state.mode
                                              ELSE Visible(Effective(s.ctx))
           /\ WithNote(s, n).ctx.windows[n].layer = Visible(Effective(s.ctx))
           /\ \A m \in Notes \ {n} : WithNote(s, n).ctx.windows[m] = s.ctx.windows[m]
  <1> DEFINE mode == Visible(Effective(s.ctx))
             kept == IF s.ctx.restore # Nowhere THEN s.ctx.state.mode ELSE mode
             w == [layer |-> mode, open |-> TRUE, collapsed |-> FALSE]
             state == [s.ctx.state EXCEPT !.closed = s.ctx.state.closed \ {n},
                                          !.collapsed = s.ctx.state.collapsed \ {n},
                                          !.mode = kept]
             windows == [s.ctx.windows EXCEPT ![n] = w]
             c == [s.ctx EXCEPT !.windows = windows, !.state = state]
             d == [s.disk EXCEPT !.live = s.disk.live \cup {n}]
  <1>1. mode \in Modes /\ kept \in Modes
    BY EffectiveMode, VisibleModes, SituationParts
  <1>2. w \in Window /\ w.layer = mode
    BY <1>1 DEF Window
  <1>3. state \in AppState /\ state.closed = s.ctx.state.closed \ {n} /\ state.mode = kept
    BY <1>1, SituationParts DEF AppState
  <1>4. windows \in [Notes -> Window] /\ windows[n] = w
        /\ \A m \in Notes \ {n} : windows[m] = s.ctx.windows[m]
    BY <1>2, SituationParts
  <1>5. WithNote(s, n) = [s EXCEPT !.ctx = c, !.disk = d]
    BY SituationParts DEF WithNote, Situations
  <1> HIDE DEF mode, kept, w, state, windows
  <1>6. c \in Context /\ c.windows = windows /\ c.state = state /\ c.restore = s.ctx.restore
        /\ c.up = s.ctx.up /\ c.activated = s.ctx.activated
    BY <1>3, <1>4, SituationParts DEF Context
  <1>7. d \in Disk
    BY SituationParts DEF Disk
  <1> HIDE DEF c, d
  <1>8. WithNote(s, n) \in Situations /\ WithNote(s, n).ctx = c
    BY <1>5, <1>6, <1>7 DEF Situations
  <1> QED
    BY <1>2, <1>3, <1>4, <1>6, <1>8 DEF mode, kept

\* All windows sit on the layer toggling starts from; or on a given one.
OnOneLayer(s) == \A n \in Showing(s.ctx) : s.ctx.windows[n].layer = Effective(s.ctx)
AllOn(s, mode) == \A n \in Showing(s.ctx) : s.ctx.windows[n].layer = mode

(* create_new_note keeps the parts of the invariant, and shows the note on *)
(* the layer of the others.                                                *)
LEMMA CreatedMakes ==
    ASSUME NEW s \in Situations, Coherent(s), NEW r \in Created(s)
    PROVE  /\ r \in Situations /\ Coherent(r)
           /\ LayerFiled(s) => LayerFiled(r)
           /\ r.ctx.restore = s.ctx.restore /\ r.ctx.up = s.ctx.up
           /\ r.ctx.activated = s.ctx.activated
           /\ \/ r.ctx.state.mode = s.ctx.state.mode /\ Showing(r.ctx) = Showing(s.ctx)
              \/ s.ctx.restore # Nowhere
              \/ r.ctx.state.mode = Visible(s.ctx.state.mode)
           /\ Showing(s.ctx) = {} => AllOn(r, Visible(Effective(s.ctx)))
           /\ OnOneLayer(s) => OnOneLayer(r)
  <1>1. CASE r.ctx = s.ctx /\ r \in Situations /\ r.disk.behind = s.disk.behind
             /\ Remembered(r.disk) = Remembered(s.disk)
    BY <1>1 DEF Coherent, CopiesAgree, NotesFiled, LayerFiled, Comparable, HiddenIsEmpty,
                AllOn, OnOneLayer
  <1>2. CASE \E n \in Fresh(s.disk) : r \in Persisted(WithNote(s, n))
    <2>1. PICK n \in Notes : r \in Persisted(WithNote(s, n))
      BY <1>2 DEF Fresh
    <2> DEFINE t == WithNote(s, n)
    <2>2. /\ t \in Situations
          /\ t.ctx.restore = s.ctx.restore /\ t.ctx.up = s.ctx.up
          /\ t.ctx.activated = s.ctx.activated
          /\ t.ctx.state.closed = s.ctx.state.closed \ {n}
          /\ t.ctx.state.mode = IF s.ctx.restore # Nowhere THEN s.ctx.state.mode
                                ELSE Visible(Effective(s.ctx))
          /\ t.ctx.windows[n].layer = Visible(Effective(s.ctx))
          /\ \A m \in Notes \ {n} : t.ctx.windows[m] = s.ctx.windows[m]
      BY WithNoteMakes
    <2> HIDE DEF t
    <2>3. r \in Persisted(t)
      BY <2>1 DEF t
    <2>4. /\ r \in Situations /\ NotesFiled(r) /\ LayerFiled(r)
          /\ r.ctx.windows = t.ctx.windows /\ r.ctx.state = t.ctx.state
          /\ r.ctx.restore = t.ctx.restore /\ r.ctx.up = t.ctx.up
          /\ r.ctx.activated = t.ctx.activated
          /\ Showing(r.ctx) = Showing(t.ctx) /\ Effective(r.ctx) = Effective(t.ctx)
          /\ CopiesAgree(t) => CopiesAgree(r)
          /\ HiddenIsEmpty(t) => HiddenIsEmpty(r)
      BY <2>2, <2>3, PersistedMakes, PersistedFiles, PersistedShows
    <2>5. CopiesAgree(t)
      BY <2>2 DEF Coherent, CopiesAgree
    <2>6. Visible(Effective(s.ctx)) # "hidden"
      BY EffectiveMode, VisibleModes
    <2>7. t.ctx.state.mode # "hidden"
      <3>1. CASE s.ctx.restore # Nowhere
        BY <2>2, <3>1 DEF Coherent, HiddenIsEmpty
      <3>2. CASE s.ctx.restore = Nowhere
        BY <2>2, <2>6, <3>2
      <3> QED
        BY <3>1, <3>2
    <2>8. Showing(t.ctx) \subseteq Showing(s.ctx) \cup {n}
      BY <2>2 DEF Showing
    <2>9. Showing(s.ctx) = {} => AllOn(r, Visible(Effective(s.ctx)))
      BY <2>2, <2>4, <2>8 DEF AllOn
    <2>10. ASSUME OnOneLayer(s) PROVE OnOneLayer(r)
      <3>1. s.ctx.restore = Nowhere => Effective(t.ctx) = Visible(Effective(s.ctx))
        BY <2>2 DEF Effective
      <3>2. s.ctx.restore # Nowhere => /\ Effective(t.ctx) = Effective(s.ctx)
                                       /\ Effective(s.ctx) = "overlay"
        BY <2>2 DEF Effective
      <3>3. Effective(t.ctx) = Visible(Effective(s.ctx))
        BY <3>1, <3>2 DEF Visible
      <3>4. Showing(s.ctx) # {} => Visible(Effective(s.ctx)) = Effective(s.ctx)
        BY EffectiveMode, VisibleModes DEF Coherent, HiddenIsEmpty, Effective
      <3>5. ASSUME NEW m \in Showing(t.ctx) PROVE t.ctx.windows[m].layer = Effective(t.ctx)
        <4>1. CASE m = n
          BY <2>2, <3>3, <4>1
        <4>2. CASE m # n
          <5>1. m \in Showing(s.ctx) /\ t.ctx.windows[m] = s.ctx.windows[m]
            BY <2>2, <2>8, <4>2 DEF Showing
          <5> QED
            BY <1>2, <2>10, <3>3, <3>4, <5>1 DEF OnOneLayer
        <4> QED
          BY <4>1, <4>2
      <3> QED
        BY <2>4, <3>5 DEF OnOneLayer
    <2>11. s.ctx.restore # Nowhere \/ r.ctx.state.mode = Visible(s.ctx.state.mode)
      BY <2>2, <2>4 DEF Effective
    <2>12. CopiesAgree(r) /\ HiddenIsEmpty(r)
      BY <2>4, <2>5, <2>7 DEF HiddenIsEmpty
    <2> QED
      BY <2>2, <2>4, <2>9, <2>10, <2>11, <2>12 DEF Coherent
  <1>3. CASE r \in Failing(s)
    <2>1. r \in Situations /\ r.ctx = s.ctx /\ r.disk = [s.disk EXCEPT !.faults = s.disk.faults + 1]
      BY <1>3, FailingMakes
    <2>2. r.disk.behind = s.disk.behind /\ Remembered(r.disk) = Remembered(s.disk)
      BY <2>1, SituationParts DEF Disk, Remembered
    <2> QED
      BY <1>1, <2>1, <2>2
  <1>4. CASE r = s
    BY <1>1, <1>4
  <1>5. r = s \/ r \in Failing(s) \/ \E n \in Fresh(s.disk) : r \in Persisted(WithNote(s, n))
    BY DEF Created
  <1> QED
    BY <1>2, <1>3, <1>4, <1>5

(* A fault keeps every part of the invariant.                              *)
LEMMA FailingKeeps ==
    ASSUME NEW s \in Situations, NEW r \in Failing(s)
    PROVE  /\ r \in Situations /\ r.ctx = s.ctx
           /\ Coherent(s) => Coherent(r)
           /\ LayerFiled(s) => LayerFiled(r)
  <1>1. r \in Situations /\ r.ctx = s.ctx /\ r.disk = [s.disk EXCEPT !.faults = s.disk.faults + 1]
    BY FailingMakes
  <1>2. r.disk.behind = s.disk.behind /\ Remembered(r.disk) = Remembered(s.disk)
    BY <1>1, SituationParts DEF Disk, Remembered
  <1> QED
    BY <1>1, <1>2 DEF Coherent, CopiesAgree, NotesFiled, LayerFiled, Comparable, HiddenIsEmpty

\* What a pass that restores notes makes of s, when it is asked for mode.
RestoredOn(s, r, mode) ==
  /\ r \in Situations /\ Coherent(r)
  /\ LayerFiled(s) => LayerFiled(r)
  /\ r.ctx.restore = s.ctx.restore /\ r.ctx.up = s.ctx.up
  /\ r.ctx.activated = s.ctx.activated
  /\ \/ s.ctx.restore # Nowhere \/ mode # Visible(s.ctx.state.mode)
     \/ r.ctx.state.mode = mode \/ Showing(r.ctx) = {}
  /\ Showing(s.ctx) = {} /\ Effective(s.ctx) = mode => AllOn(r, mode)

(* plan_startup restores what is open, what was used last, or makes a      *)
(* note.                                                                   *)
LEMMA RestoredMakes ==
    ASSUME NEW s \in Situations, Coherent(s), NEW listed, NEW mode \in {"overlay", "desktop"},
           NEW r \in Restored(s, listed, mode)
    PROVE  RestoredOn(s, r, mode)
  <1> mode \in Modes
    BY DEF Modes
  <1>1. CASE r \in Created(s)
    <2>1. /\ r \in Situations /\ Coherent(r)
          /\ LayerFiled(s) => LayerFiled(r)
          /\ r.ctx.restore = s.ctx.restore /\ r.ctx.up = s.ctx.up
          /\ r.ctx.activated = s.ctx.activated
      BY <1>1, CreatedMakes
    <2>2. /\ \/ r.ctx.state.mode = s.ctx.state.mode /\ Showing(r.ctx) = Showing(s.ctx)
             \/ s.ctx.restore # Nowhere
             \/ r.ctx.state.mode = Visible(s.ctx.state.mode)
          /\ Showing(s.ctx) = {} => AllOn(r, Visible(Effective(s.ctx)))
      BY <1>1, CreatedMakes
    <2>3. s.ctx.state.mode # "hidden" => Visible(s.ctx.state.mode) = s.ctx.state.mode
      BY VisibleModes, SituationParts
    <2>4. Effective(s.ctx) = mode => Visible(Effective(s.ctx)) = mode
      BY VisibleModes
    <2>5. \/ s.ctx.restore # Nowhere \/ mode # Visible(s.ctx.state.mode)
          \/ r.ctx.state.mode = mode \/ Showing(r.ctx) = {}
      BY <2>2, <2>3 DEF Coherent, HiddenIsEmpty
    <2> QED
      BY <2>1, <2>2, <2>4, <2>5 DEF RestoredOn
  <1>2. ASSUME NEW w, NEW t \in Instantiated(s, w, mode), r \in MarkedOpen(t, w, mode)
        PROVE  RestoredOn(s, r, mode)
    <2>1. t \in Situations /\ BuiltOrKept(t, s, w, mode)
      BY InstantiatedMakes
    <2>2. /\ t.ctx.restore = s.ctx.restore /\ t.ctx.up = s.ctx.up
          /\ t.ctx.activated = s.ctx.activated /\ CopiesAgree(t)
      BY InstantiatedKeeps DEF Coherent
    <2>3. /\ r \in Situations /\ NotesFiled(r) /\ LayerFiled(r) /\ HiddenIsEmpty(r)
          /\ r.ctx.windows = t.ctx.windows /\ Showing(r.ctx) = Showing(t.ctx)
          /\ r.ctx.restore = t.ctx.restore /\ r.ctx.up = t.ctx.up
          /\ r.ctx.activated = t.ctx.activated
          /\ r.ctx.state.mode = mode /\ CopiesAgree(r)
      BY <1>2, <2>1, <2>2, MarkedOpenMakes
    <2>4. ASSUME Showing(s.ctx) = {} PROVE AllOn(r, mode)
      <3> SUFFICES ASSUME NEW n \in Notes, r.ctx.windows[n] # Gone
                   PROVE  r.ctx.windows[n].layer = mode
        BY DEF AllOn, Showing
      <3>1. s.ctx.windows[n] = Gone
        BY <2>4 DEF Showing
      <3>2. r.ctx.windows[n] = Built(s, n, mode)
        BY <2>1, <2>3, <3>1 DEF BuiltOrKept
      <3> QED
        BY <3>2, BuiltFacts
    <2> QED
      BY <2>2, <2>3, <2>4 DEF RestoredOn, Coherent
  <1>3. \/ r \in Created(s)
        \/ \E w : \E t \in Instantiated(s, w, mode) : r \in MarkedOpen(t, w, mode)
    BY DEF Restored
  <1> QED
    BY <1>1, <1>2, <1>3

(* The same of what the store lists, which may be nothing.                 *)
LEMMA RestoredSavedMakes ==
    ASSUME NEW s \in Situations, Coherent(s), NEW mode \in {"overlay", "desktop"},
           NEW r \in RestoredSaved(s, mode)
    PROVE  RestoredOn(s, r, mode)
  <1>1. CASE r \in Restored(s, s.disk.live, mode)
    BY <1>1, RestoredMakes
  <1>2. ASSUME NEW f \in Failing(s), r \in Restored(f, {}, mode)
        PROVE  RestoredOn(s, r, mode)
    <2>1. f \in Situations /\ f.ctx = s.ctx /\ Coherent(f) /\ (LayerFiled(s) => LayerFiled(f))
      BY FailingKeeps
    <2>2. RestoredOn(f, r, mode)
      BY <1>2, <2>1, RestoredMakes
    <2> QED
      BY <2>1, <2>2 DEF RestoredOn
  <1> QED
    BY <1>1, <1>2 DEF RestoredSaved

(* The pass over the windows puts all of them on one layer.                *)
RaisedIn(s, mode) == [s EXCEPT !.ctx = Raised(s.ctx, mode)]

(* They keep their copies, and none is made.                               *)
LEMMA RaisedMakes ==
    ASSUME NEW s \in Situations, NEW mode \in Modes
    PROVE  LET r == RaisedIn(s, mode)
           IN /\ r \in Situations /\ r.disk = s.disk
              /\ r.ctx.state = s.ctx.state /\ r.ctx.restore = s.ctx.restore
              /\ r.ctx.up = s.ctx.up /\ r.ctx.activated = s.ctx.activated
              /\ Showing(r.ctx) \subseteq Showing(s.ctx)
              /\ AllOn(r, mode)
              /\ Coherent(s) => Coherent(r)
              /\ LayerFiled(s) => LayerFiled(r)
  <1> DEFINE r == RaisedIn(s, mode)
             windows == [n \in Notes |-> IF s.ctx.windows[n] = Gone THEN Gone
                                         ELSE [s.ctx.windows[n] EXCEPT !.layer = mode]]
  <1>1. windows \in [Notes -> Window]
    BY GoneType, SituationParts DEF Window
  <1>2. Raised(s.ctx, mode) = [s.ctx EXCEPT !.windows = windows]
    BY DEF Raised
  <1>3. \A n \in Notes : /\ windows[n] # Gone => s.ctx.windows[n] # Gone /\ windows[n].layer = mode
                         /\ windows[n].open => s.ctx.windows[n].open
    BY GoneType, SituationParts DEF Window
  <1> HIDE DEF windows
  <1>4. Raised(s.ctx, mode) \in Context
    BY <1>1, <1>2, SituationParts DEF Context
  <1>5. r \in Situations /\ r.ctx = Raised(s.ctx, mode) /\ r.disk = s.disk
    BY <1>4, WithContext DEF RaisedIn
  <1> HIDE DEF r
  <1>6. /\ r.ctx.windows = windows
        /\ r.ctx.state = s.ctx.state /\ r.ctx.restore = s.ctx.restore
        /\ r.ctx.up = s.ctx.up /\ r.ctx.activated = s.ctx.activated
        /\ r.ctx.due = s.ctx.due /\ r.ctx.canPersist = s.ctx.canPersist
    BY <1>2, <1>5, SituationParts DEF Context
  <1>7. Showing(r.ctx) \subseteq Showing(s.ctx) /\ AllOn(r, mode)
    BY <1>3, <1>6 DEF Showing, AllOn
  <1>8. CopiesAgree(s) => CopiesAgree(r)
    BY <1>3, <1>6 DEF CopiesAgree
  <1>9. HiddenIsEmpty(s) => HiddenIsEmpty(r)
    BY <1>6, <1>7 DEF HiddenIsEmpty
  <1>10. (NotesFiled(s) => NotesFiled(r)) /\ (LayerFiled(s) => LayerFiled(r))
    BY <1>5, <1>6 DEF NotesFiled, LayerFiled, Comparable
  <1> QED
    BY <1>5, <1>6, <1>7, <1>8, <1>9, <1>10 DEF Coherent, r

(* And of the windows that are then all put on one layer.                  *)
LEMMA RestoredInMakes ==
    ASSUME NEW s \in Situations, Coherent(s), NEW mode \in {"overlay", "desktop"},
           NEW r \in RestoredIn(s, mode)
    PROVE  /\ r \in Situations /\ Coherent(r)
           /\ LayerFiled(s) => LayerFiled(r)
           /\ r.ctx.restore = s.ctx.restore /\ r.ctx.up = s.ctx.up
           /\ r.ctx.activated = s.ctx.activated
           /\ AllOn(r, mode)
           /\ \/ s.ctx.restore # Nowhere \/ r.ctx.state.mode = Visible(s.ctx.state.mode)
              \/ Showing(r.ctx) = {}
  <1> DEFINE visible == Visible(s.ctx.state.mode)
  <1>1. visible \in {"overlay", "desktop"} /\ mode \in Modes
    BY VisibleModes, SituationParts DEF Modes
  <1>2. PICK q \in RestoredSaved(s, visible) : r = RaisedIn(q, mode)
    BY DEF RestoredIn, RaisedIn
  <1> HIDE DEF visible
  <1>3. RestoredOn(s, q, visible)
    BY <1>1, <1>2, RestoredSavedMakes
  <1>4. q \in Situations
    BY <1>3 DEF RestoredOn
  <1>5. /\ r \in Situations
        /\ r.ctx.state = q.ctx.state /\ r.ctx.restore = q.ctx.restore
        /\ r.ctx.up = q.ctx.up /\ r.ctx.activated = q.ctx.activated
        /\ Showing(r.ctx) \subseteq Showing(q.ctx)
        /\ AllOn(r, mode)
        /\ Coherent(q) => Coherent(r)
        /\ LayerFiled(q) => LayerFiled(r)
    BY <1>1, <1>2, <1>4, RaisedMakes
  <1> QED
    BY <1>3, <1>5 DEF RestoredOn, visible

-----------------------------------------------------------------------------
(* The changes the handlers are made of, and where a step lands.           *)

\* A situation a handler may leave while the application runs.
Fit(s) == s \in Situations /\ s.ctx.up /\ Coherent(s) /\ LayerFiled(s)

\* A step to a situation the invariant allows; apart says that the step may
\* part the windows from the layer.
LandsIn(s, apart) ==
  /\ ctx' = s.ctx /\ disk' = s.disk /\ s \in Situations
  /\ \/ Fit(s) /\ IdleIsEmpty(s)
     \/ s.ctx = Stopped
  /\ OnOneLayer(Now) /\ ~apart => OnOneLayer(s)
Lands(apart) == \E s : LandsIn(s, apart)

(* The situation the application is in is one the operators accept.        *)
LEMMA NowFacts ==
    ASSUME TypeOK, DesktopInv
    PROVE  /\ Now \in Situations /\ Now.ctx = ctx /\ Now.disk = disk
           /\ Running => Fit(Now) /\ IdleIsEmpty(Now)
  <1>1. Now \in Situations /\ Now.ctx = ctx /\ Now.disk = disk
    BY DEF TypeOK, Situations, Now
  <1> QED
    BY <1>1 DEF DesktopInv, Fit, Running

\* What changes a situation without making, opening or forgetting anything.
OnlyLess(s, r) ==
  /\ r \in Situations
  /\ r.ctx.state = s.ctx.state /\ r.ctx.restore = s.ctx.restore
  /\ r.ctx.up = s.ctx.up /\ r.ctx.activated = s.ctx.activated
  /\ r.ctx.due = s.ctx.due /\ r.ctx.canPersist = s.ctx.canPersist
  /\ r.disk.kind = s.disk.kind /\ r.disk.state = s.disk.state
  /\ r.disk.behind = s.disk.behind
  /\ \A n \in Notes :
       /\ r.ctx.windows[n].open => s.ctx.windows[n].open
       /\ r.ctx.windows[n] # Gone =>
            s.ctx.windows[n] # Gone /\ r.ctx.windows[n].layer = s.ctx.windows[n].layer

(* It keeps all parts of the invariant.                                    *)
LEMMA OnlyLessKeeps ==
    ASSUME NEW s \in Situations, NEW r, OnlyLess(s, r)
    PROVE  /\ Coherent(s) => Coherent(r)
           /\ LayerFiled(s) => LayerFiled(r)
           /\ Fit(s) => Fit(r)
           /\ IdleIsEmpty(s) => IdleIsEmpty(r)
           /\ OnOneLayer(s) => OnOneLayer(r)
           /\ Showing(r.ctx) \subseteq Showing(s.ctx)
  <1>1. Showing(r.ctx) \subseteq Showing(s.ctx)
    BY DEF OnlyLess, Showing
  <1>2. Comparable(r) = Comparable(s) /\ Remembered(r.disk) = Remembered(s.disk)
    BY DEF OnlyLess, Comparable, Remembered
  <1>3. (NotesFiled(s) => NotesFiled(r)) /\ (LayerFiled(s) => LayerFiled(r))
    BY <1>2 DEF OnlyLess, NotesFiled, LayerFiled
  <1>4. CopiesAgree(s) => CopiesAgree(r)
    BY DEF OnlyLess, CopiesAgree
  <1>5. (HiddenIsEmpty(s) => HiddenIsEmpty(r)) /\ (IdleIsEmpty(s) => IdleIsEmpty(r))
    BY <1>1 DEF OnlyLess, HiddenIsEmpty, IdleIsEmpty
  <1>6. Effective(r.ctx) = Effective(s.ctx)
    BY DEF OnlyLess, Effective
  <1>7. OnOneLayer(s) => OnOneLayer(r)
    BY <1>1, <1>6 DEF OnlyLess, OnOneLayer, Showing
  <1> QED
    BY <1>1, <1>3, <1>4, <1>5, <1>7 DEF Coherent, Fit, OnlyLess

(* A change of what the application keeps besides windows and layer.       *)
LEMMA AsideIsLess ==
    ASSUME NEW s \in Situations, NEW r \in Situations,
           r.ctx.state = s.ctx.state, r.ctx.restore = s.ctx.restore,
           r.ctx.up = s.ctx.up, r.ctx.activated = s.ctx.activated,
           r.ctx.due = s.ctx.due, r.ctx.canPersist = s.ctx.canPersist,
           r.ctx.windows = s.ctx.windows,
           r.disk.kind = s.disk.kind, r.disk.state = s.disk.state,
           r.disk.behind = s.disk.behind
    PROVE  OnlyLess(s, r)
  BY DEF OnlyLess

(* A window that goes.                                                     *)
WithoutWindow(s, n) == [s EXCEPT !.ctx.windows[n] = Gone]

(* It takes nothing else along.                                            *)
LEMMA WithoutWindowMakes ==
    ASSUME NEW s \in Situations, NEW n \in Notes
    PROVE  /\ OnlyLess(s, WithoutWindow(s, n))
           /\ WithoutWindow(s, n).ctx.windows[n] = Gone
  <1> DEFINE windows == [s.ctx.windows EXCEPT ![n] = Gone]
             c == [s.ctx EXCEPT !.windows = windows]
  <1>1. windows \in [Notes -> Window] /\ windows[n] = Gone
        /\ \A m \in Notes \ {n} : windows[m] = s.ctx.windows[m]
    BY GoneType, SituationParts
  <1>2. WithoutWindow(s, n) = [s EXCEPT !.ctx = c]
    BY SituationParts DEF WithoutWindow, Situations, Context
  <1> HIDE DEF windows
  <1>3. c \in Context /\ c.windows = windows /\ c.state = s.ctx.state
        /\ c.restore = s.ctx.restore /\ c.up = s.ctx.up /\ c.activated = s.ctx.activated
        /\ c.due = s.ctx.due /\ c.canPersist = s.ctx.canPersist
    BY <1>1, SituationParts DEF Context
  <1> HIDE DEF c
  <1>4. /\ WithoutWindow(s, n) \in Situations /\ WithoutWindow(s, n).ctx = c
        /\ WithoutWindow(s, n).disk = s.disk
    BY <1>2, <1>3, WithContext
  <1>5. \A m \in Notes :
          /\ windows[m].open => s.ctx.windows[m].open
          /\ windows[m] # Gone =>
               s.ctx.windows[m] # Gone /\ windows[m].layer = s.ctx.windows[m].layer
    BY <1>1, GoneType
  <1> QED
    BY <1>1, <1>3, <1>4, <1>5 DEF OnlyLess

(* A window that becomes a bar, or stops being one.                        *)
Shaped(s, n, shape) == [s EXCEPT !.ctx.windows[n].collapsed = shape]

(* It stays on its layer, and open if it was.                              *)
LEMMA ShapedMakes ==
    ASSUME NEW s \in Situations, NEW n \in Showing(s.ctx), NEW shape \in BOOLEAN
    PROVE  OnlyLess(s, Shaped(s, n, shape))
  <1> DEFINE w == [s.ctx.windows[n] EXCEPT !.collapsed = shape]
             windows == [s.ctx.windows EXCEPT ![n] = w]
             c == [s.ctx EXCEPT !.windows = windows]
  <1>n. n \in Notes /\ s.ctx.windows[n] # Gone /\ s.ctx.windows[n] \in Window
    BY SituationParts DEF Showing
  <1>1. w \in Window /\ w.open = s.ctx.windows[n].open /\ w.layer = s.ctx.windows[n].layer
    BY <1>n DEF Window
  <1>2. Shaped(s, n, shape) = [s EXCEPT !.ctx = c]
    BY SituationParts DEF Shaped, Situations, Context
  <1> HIDE DEF w
  <1>3. windows \in [Notes -> Window] /\ windows[n] = w
        /\ \A m \in Notes \ {n} : windows[m] = s.ctx.windows[m]
    BY <1>n, <1>1, SituationParts
  <1> HIDE DEF windows
  <1>4. c \in Context /\ c.windows = windows /\ c.state = s.ctx.state
        /\ c.restore = s.ctx.restore /\ c.up = s.ctx.up /\ c.activated = s.ctx.activated
        /\ c.due = s.ctx.due /\ c.canPersist = s.ctx.canPersist
    BY <1>3, SituationParts DEF Context
  <1> HIDE DEF c
  <1>5. /\ Shaped(s, n, shape) \in Situations /\ Shaped(s, n, shape).ctx = c
        /\ Shaped(s, n, shape).disk = s.disk
    BY <1>2, <1>4, WithContext
  <1>6. \A m \in Notes :
          /\ windows[m].open => s.ctx.windows[m].open
          /\ windows[m] # Gone =>
               s.ctx.windows[m] # Gone /\ windows[m].layer = s.ctx.windows[m].layer
    BY <1>n, <1>1, <1>3
  <1> QED
    BY <1>4, <1>5, <1>6 DEF OnlyLess

(* A change of the state, and nothing else.                                *)
WithState(s, state) == [s EXCEPT !.ctx.state = state]

(* The windows stay as they are.                                           *)
LEMMA WithStateMakes ==
    ASSUME NEW s \in Situations, NEW state \in AppState
    PROVE  LET r == WithState(s, state)
           IN /\ r \in Situations /\ r.disk = s.disk
              /\ r.ctx.state = state /\ r.ctx.windows = s.ctx.windows
              /\ r.ctx.restore = s.ctx.restore /\ r.ctx.up = s.ctx.up
              /\ r.ctx.activated = s.ctx.activated
              /\ r.ctx.due = s.ctx.due /\ r.ctx.canPersist = s.ctx.canPersist
              /\ Showing(r.ctx) = Showing(s.ctx)
  <1> DEFINE r == WithState(s, state)
  <1>1. r = [s EXCEPT !.ctx = [s.ctx EXCEPT !.state = state]]
    BY DEF WithState, Situations
  <1>2. [s.ctx EXCEPT !.state = state] \in Context
    BY SituationParts DEF Context
  <1>3. r \in Situations /\ r.ctx = [s.ctx EXCEPT !.state = state] /\ r.disk = s.disk
    BY <1>1, <1>2, WithContext
  <1> HIDE DEF r
  <1>4. /\ r.ctx.state = state /\ r.ctx.windows = s.ctx.windows
        /\ r.ctx.restore = s.ctx.restore /\ r.ctx.up = s.ctx.up
        /\ r.ctx.activated = s.ctx.activated
        /\ r.ctx.due = s.ctx.due /\ r.ctx.canPersist = s.ctx.canPersist
    BY <1>3, SituationParts DEF Context
  <1>5. Showing(r.ctx) = Showing(s.ctx)
    BY <1>4 DEF Showing
  <1> QED
    BY <1>3, <1>4, <1>5 DEF r

(* Windows hand their own copies to the state, which is then saved.        *)
LEMMA InsertedMakes ==
    ASSUME NEW s \in Situations, NEW changed \in SUBSET Notes,
           CopiesAgree(s), HiddenIsEmpty(s), s.ctx.up,
           NEW r \in Persisted([s EXCEPT !.ctx = Inserted(s.ctx, changed)])
    PROVE  /\ Fit(r)
           /\ r.ctx.restore = s.ctx.restore /\ r.ctx.activated = s.ctx.activated
           /\ Showing(r.ctx) = Showing(s.ctx)
           /\ OnOneLayer(s) => OnOneLayer(r)
           /\ IdleIsEmpty(s) => IdleIsEmpty(r)
  <1> DEFINE closed == (s.ctx.state.closed \ changed) \cup {n \in changed : ~s.ctx.windows[n].open}
             collapsed == (s.ctx.state.collapsed \ changed)
                            \cup {n \in changed : s.ctx.windows[n].collapsed}
             state == [s.ctx.state EXCEPT !.closed = closed, !.collapsed = collapsed]
             t == WithState(s, state)
  <1>1. state \in AppState /\ state.closed = closed /\ state.mode = s.ctx.state.mode
    BY SituationParts DEF AppState
  <1>2. [s EXCEPT !.ctx = Inserted(s.ctx, changed)] = t
    BY SituationParts DEF Inserted, WithState, Situations, Context, AppState
  <1>3. \A n \in Notes : s.ctx.windows[n].open => n \notin closed
    BY DEF CopiesAgree
  <1> HIDE DEF closed, collapsed, state
  <1>4. /\ t \in Situations /\ t.ctx.state = state /\ t.ctx.windows = s.ctx.windows
        /\ t.ctx.restore = s.ctx.restore /\ t.ctx.up = s.ctx.up
        /\ t.ctx.activated = s.ctx.activated
        /\ Showing(t.ctx) = Showing(s.ctx)
    BY <1>1, WithStateMakes
  <1>5. r \in Persisted(t)
    BY <1>2
  <1> HIDE DEF t
  <1>6. CopiesAgree(t) /\ HiddenIsEmpty(t)
    BY <1>1, <1>3, <1>4 DEF CopiesAgree, HiddenIsEmpty
  <1>7. /\ r \in Situations /\ NotesFiled(r) /\ LayerFiled(r)
        /\ r.ctx.windows = t.ctx.windows
        /\ r.ctx.restore = t.ctx.restore /\ r.ctx.up = t.ctx.up
        /\ r.ctx.activated = t.ctx.activated
        /\ Showing(r.ctx) = Showing(t.ctx) /\ Effective(r.ctx) = Effective(t.ctx)
        /\ CopiesAgree(r) /\ HiddenIsEmpty(r)
        /\ IdleIsEmpty(t) => IdleIsEmpty(r)
    BY <1>4, <1>5, <1>6, PersistedMakes, PersistedFiles, PersistedShows
  <1>8. Effective(t.ctx) = Effective(s.ctx)
    BY <1>1, <1>4 DEF Effective
  <1>9. OnOneLayer(s) => OnOneLayer(r)
    BY <1>4, <1>7, <1>8 DEF OnOneLayer
  <1>10. IdleIsEmpty(s) => IdleIsEmpty(t)
    BY <1>4 DEF IdleIsEmpty
  <1> QED
    BY <1>4, <1>7, <1>9, <1>10 DEF Fit, Coherent

(* A note marked as not coming back whose window goes once the state was   *)
(* given to be saved.                                                      *)
LEMMA ClosedMakes ==
    ASSUME NEW s \in Situations, Fit(s), NEW n \in Notes, NEW t \in Situations,
           t.ctx.state = [s.ctx.state EXCEPT !.closed = s.ctx.state.closed \cup {n}],
           t.ctx.windows = s.ctx.windows, t.ctx.restore = s.ctx.restore,
           t.ctx.up = s.ctx.up, t.ctx.activated = s.ctx.activated,
           NEW p \in Persisted(t)
    PROVE  /\ Fit(WithoutWindow(p, n))
           /\ OnOneLayer(s) => OnOneLayer(WithoutWindow(p, n))
           /\ IdleIsEmpty(s) => IdleIsEmpty(WithoutWindow(p, n))
  <1> DEFINE r == WithoutWindow(p, n)
  <1>1. t.ctx.state.mode = s.ctx.state.mode /\ t.ctx.state.closed = s.ctx.state.closed \cup {n}
    BY SituationParts DEF AppState
  <1>2. /\ p \in Situations /\ NotesFiled(p) /\ LayerFiled(p)
        /\ p.ctx.windows = t.ctx.windows /\ p.ctx.state = t.ctx.state
        /\ p.ctx.restore = t.ctx.restore /\ p.ctx.up = t.ctx.up
        /\ p.ctx.activated = t.ctx.activated
        /\ Showing(p.ctx) = Showing(t.ctx) /\ Effective(p.ctx) = Effective(t.ctx)
        /\ HiddenIsEmpty(t) => HiddenIsEmpty(p)
        /\ IdleIsEmpty(t) => IdleIsEmpty(p)
    BY PersistedMakes, PersistedFiles, PersistedShows
  <1>3. Showing(t.ctx) = Showing(s.ctx) /\ Effective(t.ctx) = Effective(s.ctx)
    BY <1>1 DEF Showing, Effective
  <1>4. HiddenIsEmpty(p) /\ (IdleIsEmpty(s) => IdleIsEmpty(p))
    BY <1>1, <1>2, <1>3 DEF Fit, Coherent, HiddenIsEmpty, IdleIsEmpty
  <1>5. OnOneLayer(s) => OnOneLayer(p)
    BY <1>2, <1>3 DEF OnOneLayer
  <1>6. OnlyLess(p, r) /\ r.ctx.windows[n] = Gone
    BY <1>2, WithoutWindowMakes
  <1>7. CopiesAgree(r)
    <2> SUFFICES ASSUME NEW m \in Notes, r.ctx.windows[m].open
                 PROVE  m \notin r.ctx.state.closed
      BY DEF CopiesAgree
    <2>1. m # n
      BY <1>6, GoneType
    <2>2. s.ctx.windows[m].open
      BY <1>2, <1>6 DEF OnlyLess
    <2>3. r.ctx.state.closed = s.ctx.state.closed \cup {n}
      BY <1>1, <1>2, <1>6 DEF OnlyLess
    <2> QED
      BY <2>1, <2>2, <2>3 DEF Fit, Coherent, CopiesAgree
  <1>8. Showing(r.ctx) \subseteq Showing(p.ctx)
    BY <1>2, <1>6, OnlyLessKeeps
  <1>9. NotesFiled(r) /\ HiddenIsEmpty(r)
    BY <1>2, <1>4, <1>6, <1>8
       DEF OnlyLess, NotesFiled, HiddenIsEmpty, Comparable, Remembered
  <1>10. LayerFiled(r) /\ (IdleIsEmpty(p) => IdleIsEmpty(r)) /\ (OnOneLayer(p) => OnOneLayer(r))
    BY <1>2, <1>6, OnlyLessKeeps
  <1>11. r \in Situations /\ r.ctx.up
    BY <1>2, <1>6 DEF OnlyLess, Fit
  <1> QED
    BY <1>4, <1>5, <1>7, <1>9, <1>10, <1>11 DEF Fit, Coherent

-----------------------------------------------------------------------------
(* Where a handler lands.                                                  *)

(* A command leaves a situation in which a first command was handled.      *)
Noted(s) == [s EXCEPT !.ctx.activated = TRUE]

(* That is all it changes.                                                 *)
LEMMA NotedMakes ==
    ASSUME NEW s \in Situations, Fit(s)
    PROVE  /\ Fit(Noted(s)) /\ IdleIsEmpty(Noted(s))
           /\ OnOneLayer(s) => OnOneLayer(Noted(s))
           /\ Noted(s).ctx.restore = s.ctx.restore
  <1> DEFINE c == [s.ctx EXCEPT !.activated = TRUE]
             r == Noted(s)
  <1>1. r = [s EXCEPT !.ctx = c]
    BY DEF Noted, Situations
  <1>2. c \in Context
    BY SituationParts DEF Context
  <1> HIDE DEF r
  <1>3. r \in Situations /\ r.ctx = c /\ r.disk = s.disk
    BY <1>1, <1>2, WithContext
  <1>4. /\ r.ctx.state = s.ctx.state /\ r.ctx.windows = s.ctx.windows
        /\ r.ctx.restore = s.ctx.restore /\ r.ctx.up = s.ctx.up
        /\ r.ctx.activated
        /\ r.ctx.due = s.ctx.due /\ r.ctx.canPersist = s.ctx.canPersist
    BY <1>3, SituationParts DEF Context
  <1>5. Showing(r.ctx) = Showing(s.ctx) /\ Effective(r.ctx) = Effective(s.ctx)
    BY <1>4 DEF Showing, Effective
  <1>6. Fit(r)
    BY <1>3, <1>4, <1>5 DEF Fit, Coherent, CopiesAgree, NotesFiled, LayerFiled, HiddenIsEmpty,
                            Comparable
  <1>7. IdleIsEmpty(r) /\ (OnOneLayer(s) => OnOneLayer(r))
    BY <1>4, <1>5 DEF IdleIsEmpty, OnOneLayer
  <1> QED
    BY <1>4, <1>6, <1>7 DEF r

(* Every situation a handler may leave is fit, so the handler lands.       *)
LEMMA HandledLands ==
    ASSUME NEW situations, Handled(situations),
           \A s \in situations : Fit(s) /\ (OnOneLayer(Now) => OnOneLayer(s))
    PROVE  Lands(FALSE)
  <1>1. PICK s \in situations : ctx' = Noted(s).ctx /\ disk' = Noted(s).disk
    BY DEF Handled, Becomes, Noted
  <1>2. Fit(s) /\ s \in Situations /\ (OnOneLayer(Now) => OnOneLayer(s))
    BY <1>1 DEF Fit
  <1>3. Fit(Noted(s)) /\ IdleIsEmpty(Noted(s)) /\ (OnOneLayer(s) => OnOneLayer(Noted(s)))
    BY <1>2, NotedMakes
  <1> QED
    BY <1>1, <1>2, <1>3 DEF Lands, LandsIn, Fit

(* So does a handler that is no command.                                   *)
LEMMA BecomesLands ==
    ASSUME NEW situations, Becomes(situations),
           \A s \in situations : Fit(s) /\ IdleIsEmpty(s) /\ (OnOneLayer(Now) => OnOneLayer(s))
    PROVE  Lands(FALSE)
  BY DEF Becomes, Lands, LandsIn, Fit

(* So does a step that only takes something away.                          *)
LEMMA OnlyLessLands ==
    ASSUME TypeOK, DesktopInv, Running, NEW r, OnlyLess(Now, r), ctx' = r.ctx, disk' = r.disk
    PROVE  Lands(FALSE)
  <1>1. Now \in Situations /\ Fit(Now) /\ IdleIsEmpty(Now)
    BY NowFacts
  <1>2. Fit(r) /\ IdleIsEmpty(r) /\ (OnOneLayer(Now) => OnOneLayer(r))
    BY <1>1, OnlyLessKeeps
  <1> QED
    BY <1>2 DEF Lands, LandsIn, Fit

(* Or changes nothing of this.                                             *)
LEMMA StutterLands ==
    ASSUME TypeOK, DesktopInv, UNCHANGED <<ctx, disk>>
    PROVE  Lands(FALSE)
  <1>1. Now \in Situations /\ Now.ctx = ctx /\ Now.disk = disk
        /\ (Running => Fit(Now) /\ IdleIsEmpty(Now))
    BY NowFacts
  <1>2. ~Running => Now.ctx = Stopped
    BY <1>1 DEF DesktopInv
  <1> QED
    BY <1>1, <1>2 DEF Lands, LandsIn

-----------------------------------------------------------------------------
(* The session                                                             *)

(* A window of an application that is not there is gone.                   *)
LEMMA StoppedFacts ==
    /\ Stopped \in Context /\ ~Stopped.up /\ Showing(Stopped) = {}
    /\ Stopped.restore = Nowhere /\ \A n \in Notes : Stopped.windows[n] = Gone
  BY GoneType DEF Stopped, Context, Showing, AppState, DefaultState

(* What load_detailed makes of the state file.                             *)
LEMMA BegunMakes ==
    ASSUME NEW s \in Situations, s.ctx = Stopped, NEW state \in AppState, NEW can \in BOOLEAN,
           can => state = Remembered(s.disk)
    PROVE  /\ Fit(Begun(s, state, can)) /\ IdleIsEmpty(Begun(s, state, can))
           /\ OnOneLayer(Begun(s, state, can))
  <1> DEFINE c == [s.ctx EXCEPT !.up = TRUE, !.canPersist = can, !.state = state]
             d == [s.disk EXCEPT !.behind = FALSE]
             r == Begun(s, state, can)
  <1>1. r = [s EXCEPT !.ctx = c, !.disk = d]
    BY SituationParts DEF Begun, Situations, Context, Disk
  <1>2. c \in Context /\ d \in Disk
    BY SituationParts DEF Context, Disk
  <1>3. r \in Situations /\ r.ctx = c /\ r.disk = d
    BY <1>1, <1>2 DEF Situations
  <1> HIDE DEF r
  <1>4. /\ r.ctx.up /\ r.ctx.canPersist = can /\ r.ctx.state = state
        /\ r.ctx.windows = Stopped.windows /\ r.ctx.restore = Nowhere
    BY <1>3, SituationParts, StoppedFacts DEF Context
  <1>5. Showing(r.ctx) = {} /\ CopiesAgree(r)
    BY <1>4, StoppedFacts, GoneType DEF Showing, CopiesAgree
  <1>6. Remembered(r.disk) = Remembered(s.disk)
    BY <1>3, SituationParts DEF Remembered, Disk
  <1>7. NotesFiled(r) /\ LayerFiled(r)
    BY <1>4, <1>6 DEF NotesFiled, LayerFiled, Comparable
  <1> QED
    BY <1>3, <1>4, <1>5, <1>7
       DEF Fit, Coherent, HiddenIsEmpty, IdleIsEmpty, OnOneLayer, r

(* A start shows nothing yet.                                              *)
LEMMA StartLands ==
    ASSUME TypeOK, DesktopInv, Start
    PROVE  Lands(FALSE)
  <1>1. Now \in Situations /\ Now.ctx = Stopped /\ ~Running
    BY NowFacts DEF Start, DesktopInv
  <1>2. PICK s \in Loaded(Now) : ctx' = s.ctx /\ disk' = s.disk
    BY DEF Start, Becomes
  <1>3. Fit(s) /\ IdleIsEmpty(s) /\ OnOneLayer(s)
    <2>1. CASE s = Begun(Now, IF Now.disk.kind = "state" THEN Now.disk.state
                              ELSE DefaultState, TRUE)
      <3>1. (IF Now.disk.kind = "state" THEN Now.disk.state ELSE DefaultState)
              = Remembered(Now.disk)
        BY DEF Remembered
      <3>2. Remembered(Now.disk) \in AppState
        BY <1>1, SituationParts, GoneType DEF Remembered
      <3>3. s = Begun(Now, Remembered(Now.disk), TRUE)
        BY <2>1, <3>1
      <3> QED
        BY <1>1, <3>2, <3>3, BegunMakes
    <2>2. ASSUME NEW f \in Failing(Now), s = Begun(f, DefaultState, FALSE)
          PROVE  Fit(s) /\ IdleIsEmpty(s) /\ OnOneLayer(s)
      <3>1. f \in Situations /\ f.ctx = Stopped
        BY <1>1, FailingMakes
      <3> QED
        BY <2>2, <3>1, GoneType, BegunMakes
    <2>3. \/ s = Begun(Now, IF Now.disk.kind = "state" THEN Now.disk.state ELSE DefaultState, TRUE)
          \/ \E f \in Failing(Now) : s = Begun(f, DefaultState, FALSE)
      BY <1>2 DEF Loaded
    <2> QED
      BY <2>1, <2>2, <2>3
  <1> QED
    BY <1>2, <1>3 DEF Lands, LandsIn, Fit

(* A crash leaves the file to the next start.                              *)
LEMMA CrashLands ==
    ASSUME TypeOK, DesktopInv, Crash
    PROVE  Lands(FALSE)
  <1> DEFINE s == [Now EXCEPT !.ctx = Stopped]
  <1>1. s \in Situations /\ s.ctx = Stopped /\ s.disk = disk
    BY NowFacts, StoppedFacts, WithContext
  <1>2. OnOneLayer(s)
    BY <1>1, StoppedFacts DEF OnOneLayer
  <1> QED
    BY <1>1, <1>2 DEF Crash, Lands, LandsIn

(* A file that is spoiled is spoiled for nobody who runs.                  *)
LEMMA SpoilLands ==
    ASSUME TypeOK, DesktopInv, Spoil
    PROVE  Lands(FALSE)
  <1>1. Now \in Situations /\ Now.ctx = Stopped
    BY NowFacts DEF Spoil, DesktopInv
  <1>2. PICK f \in Failing(Now) :
          /\ ctx' = [f EXCEPT !.disk.kind = "spoiled", !.disk.state = DefaultState].ctx
          /\ disk' = [f EXCEPT !.disk.kind = "spoiled", !.disk.state = DefaultState].disk
    BY DEF Spoil, Becomes
  <1>3. f \in Situations /\ f.ctx = Stopped
    BY <1>1, FailingMakes
  <1> DEFINE d == [f.disk EXCEPT !.kind = "spoiled", !.state = DefaultState]
             s == [f EXCEPT !.disk = d]
  <1>4. d \in Disk
    BY <1>3, SituationParts, GoneType DEF Disk
  <1>5. s = [f EXCEPT !.disk.kind = "spoiled", !.disk.state = DefaultState]
    BY <1>3, SituationParts DEF Situations, Disk
  <1>6. s \in Situations /\ s.ctx = Stopped
    BY <1>3, <1>4 DEF Situations
  <1>7. OnOneLayer(s)
    BY <1>6, StoppedFacts DEF OnOneLayer
  <1> HIDE DEF s
  <1> QED
    BY <1>2, <1>5, <1>6, <1>7 DEF Lands, LandsIn

-----------------------------------------------------------------------------
(* Commands                                                                *)

(* A start in the background is hidden without saying so.                  *)
LEMMA BackgroundLands ==
    ASSUME TypeOK, DesktopInv, Background
    PROVE  Lands(FALSE)
  <1> DEFINE state == [ctx.state EXCEPT !.mode = "hidden"]
             s == WithState(Now, state)
  <1>1. Now \in Situations /\ Now.ctx = ctx /\ Fit(Now) /\ IdleIsEmpty(Now) /\ ~ctx.activated
    BY NowFacts DEF Background, Acting
  <1>2. state \in AppState /\ state.mode = "hidden" /\ state.closed = ctx.state.closed
        /\ state.collapsed = ctx.state.collapsed
    BY <1>1, SituationParts DEF AppState, Modes
  <1>3. s = [Now EXCEPT !.ctx.state.mode = "hidden"]
    BY <1>1, SituationParts DEF WithState, Situations, Context
  <1> HIDE DEF state
  <1>4. /\ s \in Situations /\ s.disk = Now.disk
        /\ s.ctx.state = state /\ s.ctx.windows = ctx.windows
        /\ s.ctx.restore = ctx.restore /\ s.ctx.up = ctx.up
        /\ s.ctx.due = ctx.due /\ s.ctx.canPersist = ctx.canPersist
        /\ Showing(s.ctx) = Showing(ctx)
    BY <1>1, <1>2, WithStateMakes
  <1>5. Showing(ctx) = {} /\ ctx.restore = Nowhere
    BY <1>1 DEF IdleIsEmpty
  <1> HIDE DEF s
  <1>6. Fit(s) /\ OnOneLayer(s)
    BY <1>1, <1>2, <1>4, <1>5
       DEF Fit, Coherent, CopiesAgree, NotesFiled, LayerFiled, HiddenIsEmpty, Comparable,
           OnOneLayer
  <1>7. Handled({s})
    BY <1>3 DEF Background
  <1> QED
    BY <1>6, <1>7, HandledLands

(* A summons of an application that is on the desktop.                     *)
LEMMA ElevatedMakes ==
    ASSUME NEW s \in Situations, Fit(s), NEW r \in Elevated(s)
    PROVE  Fit(r) /\ OnOneLayer(r)
  <1>1. PICK q \in RestoredIn(s, "overlay") :
          r \in Persisted([q EXCEPT !.ctx.state.mode = "desktop", !.ctx.restore = "desktop"])
    BY DEF Elevated
  <1>2. q \in Situations /\ Coherent(q) /\ q.ctx.up /\ AllOn(q, "overlay")
    BY <1>1, RestoredInMakes DEF Fit
  <1> DEFINE state == [q.ctx.state EXCEPT !.mode = "desktop"]
             c == [q.ctx EXCEPT !.state = state, !.restore = "desktop"]
             t == [q EXCEPT !.ctx = c]
  <1>3. t = [q EXCEPT !.ctx.state.mode = "desktop", !.ctx.restore = "desktop"]
    BY <1>2, SituationParts DEF Situations, Context
  <1>4. state \in AppState /\ state.mode = "desktop" /\ state.closed = q.ctx.state.closed
    BY <1>2, SituationParts DEF AppState, Modes
  <1> HIDE DEF state
  <1>5. c \in Context /\ c.state = state /\ c.restore = "desktop" /\ c.windows = q.ctx.windows
        /\ c.up = q.ctx.up
    BY <1>2, <1>4, SituationParts DEF Context
  <1> HIDE DEF c
  <1>6. t \in Situations /\ t.ctx = c
    BY <1>2, <1>5, WithContext
  <1> HIDE DEF t
  <1>7. CopiesAgree(t) /\ HiddenIsEmpty(t)
    BY <1>2, <1>4, <1>5, <1>6 DEF Coherent, CopiesAgree, HiddenIsEmpty
  <1>8. r \in Persisted(t)
    BY <1>1, <1>3
  <1>9. /\ r \in Situations /\ NotesFiled(r) /\ LayerFiled(r)
        /\ r.ctx.windows = t.ctx.windows /\ r.ctx.restore = t.ctx.restore
        /\ r.ctx.up = t.ctx.up
        /\ CopiesAgree(r) /\ HiddenIsEmpty(r)
    BY <1>6, <1>7, <1>8, PersistedMakes, PersistedFiles, PersistedShows
  <1>10. OnOneLayer(r)
    BY <1>2, <1>5, <1>6, <1>9 DEF OnOneLayer, AllOn, Showing, Effective, Nowhere
  <1> QED
    BY <1>2, <1>5, <1>6, <1>9, <1>10 DEF Fit, Coherent

(* A summons raises every window, elevated or not.                         *)
LEMMA SummonLands ==
    ASSUME TypeOK, DesktopInv, Summon
    PROVE  Lands(FALSE)
  <1>1. /\ Now \in Situations /\ Now.ctx = ctx /\ Fit(Now) /\ IdleIsEmpty(Now)
        /\ Coherent(Now) /\ LayerFiled(Now) /\ ctx.state.mode \in Modes
    BY NowFacts, SituationParts DEF Summon, Acting, Fit
  <1>2. CASE ctx.state.mode = "desktop" /\ ctx.activated
    <2>1. \A s \in Elevated(Now) : Fit(s) /\ OnOneLayer(s)
      BY <1>1, ElevatedMakes
    <2>2. Handled(Elevated(Now))
      BY <1>2 DEF Summon
    <2> QED
      BY <2>1, <2>2, HandledLands
  <1>3. CASE ~(ctx.state.mode = "desktop" /\ ctx.activated)
    <2> DEFINE mode == Visible(ctx.state.mode)
    <2>1. mode \in {"overlay", "desktop"}
      BY <1>1, VisibleModes
    <2>2. ctx.restore # Nowhere => mode = "overlay"
      BY <1>1, <1>3 DEF IdleIsEmpty, Coherent, HiddenIsEmpty, Visible, Modes
    <2>3. ASSUME NEW s \in RestoredIn(Now, mode)
          PROVE  Fit(s) /\ OnOneLayer(s)
      <3>1. /\ s \in Situations /\ Coherent(s) /\ LayerFiled(s)
            /\ s.ctx.restore = ctx.restore /\ s.ctx.up
            /\ AllOn(s, mode)
            /\ \/ ctx.restore # Nowhere \/ s.ctx.state.mode = mode \/ Showing(s.ctx) = {}
        BY <1>1, <2>1, RestoredInMakes DEF Fit
      <3>2. Showing(s.ctx) = {} \/ Effective(s.ctx) = mode
        BY <2>2, <3>1 DEF Effective
      <3> QED
        BY <3>1, <3>2 DEF Fit, OnOneLayer, AllOn
    <2>4. Handled(RestoredIn(Now, mode))
      BY <1>3 DEF Summon
    <2> HIDE DEF mode
    <2> QED
      BY <2>3, <2>4, HandledLands
  <1> QED
    BY <1>2, <1>3

(* A new note joins the others.                                            *)
LEMMA NewNoteLands ==
    ASSUME TypeOK, DesktopInv, NewNote
    PROVE  Lands(FALSE)
  <1>1. Now \in Situations /\ Fit(Now) /\ Coherent(Now) /\ LayerFiled(Now)
    BY NowFacts DEF NewNote, Acting, Fit
  <1>2. ASSUME NEW s \in Created(Now) PROVE Fit(s) /\ (OnOneLayer(Now) => OnOneLayer(s))
    BY <1>1, CreatedMakes DEF Fit
  <1> QED
    BY <1>2, HandledLands DEF NewNote

(* A choice of the layer moves all windows to it, or restores them there.  *)
LEMMA ScheduledMakes ==
    ASSUME NEW s \in Situations, s.ctx.up, Coherent(s)
    PROVE  Fit(Scheduled(s)) /\ (OnOneLayer(s) => OnOneLayer(Scheduled(s)))
  <1> DEFINE c == [s.ctx EXCEPT !.due = TRUE]
             r == Scheduled(s)
  <1>1. r = [s EXCEPT !.ctx = c]
    BY DEF Scheduled, Situations
  <1>2. c \in Context
    BY SituationParts DEF Context
  <1> HIDE DEF r
  <1>3. r \in Situations /\ r.ctx = c /\ r.disk = s.disk
    BY <1>1, <1>2, WithContext
  <1>4. /\ r.ctx.state = s.ctx.state /\ r.ctx.windows = s.ctx.windows
        /\ r.ctx.restore = s.ctx.restore /\ r.ctx.up = s.ctx.up
        /\ r.ctx.due /\ r.ctx.canPersist = s.ctx.canPersist
    BY <1>3, SituationParts DEF Context
  <1>5. Showing(r.ctx) = Showing(s.ctx) /\ Effective(r.ctx) = Effective(s.ctx)
    BY <1>4 DEF Showing, Effective
  <1>6. Fit(r)
    BY <1>3, <1>4, <1>5 DEF Fit, Coherent, CopiesAgree, NotesFiled, LayerFiled, HiddenIsEmpty,
                            Comparable
  <1>7. OnOneLayer(s) => OnOneLayer(r)
    BY <1>4, <1>5 DEF OnOneLayer
  <1> QED
    BY <1>6, <1>7 DEF r

(* Whichever it does, the windows are on the chosen layer.                 *)
LEMMA ChosenLayerMakes ==
    ASSUME NEW s \in Situations, Fit(s), NEW mode \in {"overlay", "desktop"},
           NEW r \in ChosenLayer(s, mode)
    PROVE  Fit(r) /\ (OnOneLayer(s) => OnOneLayer(r))
  <1> DEFINE state == [s.ctx.state EXCEPT !.mode = mode]
             c == [s.ctx EXCEPT !.restore = Nowhere, !.state = state]
             chosen == [s EXCEPT !.ctx = c]
  <1>m. mode \in Modes
    BY DEF Modes
  <1>1. chosen = [s EXCEPT !.ctx.restore = Nowhere, !.ctx.state.mode = mode]
    BY SituationParts DEF Situations, Context
  <1>2. state \in AppState /\ state.mode = mode /\ state.closed = s.ctx.state.closed
        /\ state.collapsed = s.ctx.state.collapsed
    BY <1>m, SituationParts DEF AppState
  <1> HIDE DEF state
  <1>3. c \in Context /\ c.state = state /\ c.restore = Nowhere /\ c.windows = s.ctx.windows
        /\ c.up = s.ctx.up /\ c.canPersist = s.ctx.canPersist
    BY <1>2, SituationParts DEF Context
  <1> HIDE DEF c
  <1>4. chosen \in Situations /\ chosen.ctx = c /\ chosen.disk = s.disk
    BY <1>3, WithContext
  <1> HIDE DEF chosen
  <1>5. Showing(chosen.ctx) = Showing(s.ctx) /\ Effective(chosen.ctx) = mode
    BY <1>2, <1>3, <1>4 DEF Showing, Effective
  <1>6. Coherent(chosen)
    BY <1>2, <1>3, <1>4
       DEF Fit, Coherent, CopiesAgree, NotesFiled, HiddenIsEmpty, Comparable
  <1>7. CASE r = s
    BY <1>7
  <1>8. ASSUME NEW q \in RestoredSaved(chosen, mode), Showing(s.ctx) = {}, r = Scheduled(q)
        PROVE  Fit(r) /\ OnOneLayer(r)
    <2>1. RestoredOn(chosen, q, mode)
      BY <1>4, <1>6, <1>8, RestoredSavedMakes
    <2>2. q \in Situations /\ q.ctx.up /\ Coherent(q) /\ AllOn(q, mode)
          /\ (q.ctx.state.mode = mode \/ Showing(q.ctx) = {}) /\ q.ctx.restore = Nowhere
      <3>1. Visible(chosen.ctx.state.mode) = mode /\ chosen.ctx.restore = Nowhere
        BY <1>2, <1>3, <1>4, <1>m, VisibleModes
      <3> QED
        BY <1>3, <1>4, <1>5, <1>8, <2>1, <3>1 DEF RestoredOn, Fit
    <2>3. OnOneLayer(q)
      BY <2>2 DEF OnOneLayer, AllOn, Effective
    <2> QED
      BY <1>8, <2>2, <2>3, ScheduledMakes
  <1>9. CASE r = Scheduled(RaisedIn(chosen, mode))
    <2> DEFINE q == RaisedIn(chosen, mode)
    <2>1. /\ q \in Situations
          /\ q.ctx.state = chosen.ctx.state /\ q.ctx.restore = chosen.ctx.restore
          /\ q.ctx.up = chosen.ctx.up
          /\ AllOn(q, mode) /\ Coherent(q)
      BY <1>m, <1>4, <1>6, RaisedMakes
    <2> HIDE DEF q
    <2>2. OnOneLayer(q)
      BY <1>2, <1>3, <1>4, <2>1 DEF OnOneLayer, AllOn, Effective
    <2>3. q.ctx.up
      BY <1>3, <1>4, <2>1 DEF Fit
    <2> QED
      BY <1>9, <2>1, <2>2, <2>3, ScheduledMakes DEF q
  <1>10. \/ r = s
         \/ Showing(s.ctx) = {} /\ \E q \in RestoredSaved(chosen, mode) : r = Scheduled(q)
         \/ r = Scheduled(RaisedIn(chosen, mode))
    BY <1>1 DEF ChosenLayer, RaisedIn
  <1> QED
    BY <1>7, <1>8, <1>9, <1>10

(* Toggling and showing choose a layer that can be seen.                   *)
LEMMA LayerLands ==
    ASSUME TypeOK, DesktopInv, Toggle \/ Show
    PROVE  Lands(FALSE)
  <1>1. Now \in Situations /\ Fit(Now)
    BY NowFacts DEF Toggle, Show, Acting
  <1>2. PICK mode \in {"overlay", "desktop"} : Handled(ChosenLayer(Now, mode))
    BY DEF Toggle, Show, Toggled
  <1>3. \A s \in ChosenLayer(Now, mode) : Fit(s) /\ (OnOneLayer(Now) => OnOneLayer(s))
    BY <1>1, ChosenLayerMakes
  <1> QED
    BY <1>2, <1>3, HandledLands

(* The debounced write is saved or is behind.                              *)
LEMMA DebounceLands ==
    ASSUME TypeOK, DesktopInv, DebounceExpires
    PROVE  Lands(FALSE)
  <1>1. Now \in Situations /\ Fit(Now) /\ IdleIsEmpty(Now)
    BY NowFacts DEF DebounceExpires, Acting
  <1> DEFINE t == Settled(Now)
  <1>2. t \in Situations /\ t.ctx = [Now.ctx EXCEPT !.due = FALSE] /\ Now.ctx \in Context
    BY <1>1, SettledMakes, SituationParts
  <1> HIDE DEF t
  <1>3. /\ t.ctx.state = Now.ctx.state /\ t.ctx.windows = Now.ctx.windows
        /\ t.ctx.restore = Now.ctx.restore /\ t.ctx.up = Now.ctx.up
        /\ t.ctx.activated = Now.ctx.activated
    BY <1>2 DEF Context
  <1>4. ASSUME NEW s \in {Saved(t)} \cup NotSaved(t)
        PROVE  Fit(s) /\ IdleIsEmpty(s) /\ (OnOneLayer(Now) => OnOneLayer(s))
    <2>1. /\ s \in Situations /\ s.ctx = t.ctx
          /\ Comparable(s) => Remembered(s.disk) = t.ctx.state
      <3>1. CASE s = Saved(t)
        <4>1. s \in Situations /\ s.ctx = t.ctx
              /\ s.disk = [t.disk EXCEPT !.kind = "state", !.state = t.ctx.state,
                                         !.behind = FALSE]
          BY <1>2, <3>1, SavedMakes
        <4> QED
          BY <1>2, <4>1, SituationParts DEF Remembered, Disk
      <3>2. CASE s \in NotSaved(t)
        BY <1>2, <3>2, NotSavedMakes DEF Comparable
      <3> QED
        BY <1>4, <3>1, <3>2
    <2>2. Showing(s.ctx) = Showing(Now.ctx) /\ Effective(s.ctx) = Effective(Now.ctx)
      BY <1>3, <2>1 DEF Showing, Effective
    <2> QED
      BY <1>1, <1>3, <2>1, <2>2
         DEF Fit, Coherent, CopiesAgree, NotesFiled, LayerFiled, HiddenIsEmpty, IdleIsEmpty,
             OnOneLayer
  <1>5. Becomes({Saved(t)} \cup NotSaved(t))
    BY DEF DebounceExpires, t
  <1> QED
    BY <1>4, <1>5, BecomesLands

(* Windows that are turned keep their layer and what they are open for.    *)
Turned(s, changed, shape) ==
  [s.ctx EXCEPT !.windows = [n \in Notes |->
     IF n \in changed THEN [@[n] EXCEPT !.collapsed = shape] ELSE @[n]]]

(* No window comes or goes by it.                                          *)
LEMMA TurnedMakes ==
    ASSUME NEW s \in Situations, NEW changed \in SUBSET Showing(s.ctx), NEW shape \in BOOLEAN
    PROVE  LET r == [s EXCEPT !.ctx = Turned(s, changed, shape)]
           IN OnlyLess(s, r) /\ r.ctx = Turned(s, changed, shape)
  <1> DEFINE windows == [n \in Notes |-> IF n \in changed
                           THEN [s.ctx.windows[n] EXCEPT !.collapsed = shape] ELSE s.ctx.windows[n]]
             c == [s.ctx EXCEPT !.windows = windows]
             r == [s EXCEPT !.ctx = c]
  <1>1. windows \in [Notes -> Window]
    BY SituationParts DEF Window
  <1>2. \A n \in Notes :
          /\ windows[n].open => s.ctx.windows[n].open
          /\ windows[n] # Gone =>
               s.ctx.windows[n] # Gone /\ windows[n].layer = s.ctx.windows[n].layer
    <2> SUFFICES ASSUME NEW n \in Notes
                 PROVE  /\ windows[n].open => s.ctx.windows[n].open
                        /\ windows[n] # Gone =>
                             s.ctx.windows[n] # Gone /\ windows[n].layer = s.ctx.windows[n].layer
      OBVIOUS
    <2>1. CASE n \in changed
      <3>1. s.ctx.windows[n] # Gone /\ s.ctx.windows[n] \in Window
        BY <2>1, SituationParts DEF Showing
      <3>2. windows[n] = [s.ctx.windows[n] EXCEPT !.collapsed = shape]
        BY <2>1
      <3> QED
        BY <3>1, <3>2 DEF Window
    <2>2. CASE n \notin changed
      BY <2>2
    <2> QED
      BY <2>1, <2>2
  <1>3. Turned(s, changed, shape) = c
    BY DEF Turned
  <1> HIDE DEF windows
  <1>4. c \in Context /\ c.windows = windows /\ c.state = s.ctx.state
        /\ c.restore = s.ctx.restore /\ c.up = s.ctx.up /\ c.activated = s.ctx.activated
        /\ c.due = s.ctx.due /\ c.canPersist = s.ctx.canPersist
    BY <1>1, SituationParts DEF Context
  <1> HIDE DEF c
  <1>5. r \in Situations /\ r.ctx = c /\ r.disk = s.disk
    BY <1>4, WithContext
  <1>6. OnlyLess(s, r)
    BY <1>2, <1>4, <1>5 DEF OnlyLess
  <1> QED
    BY <1>3, <1>5, <1>6

(* All windows are turned and hand over their copies at once.              *)
LEMMA CollapseLands ==
    ASSUME TypeOK, DesktopInv, ToggleCollapseAll
    PROVE  Lands(FALSE)
  <1>1. Now \in Situations /\ Now.ctx = ctx /\ Fit(Now)
    BY NowFacts DEF ToggleCollapseAll, Structural, Acting
  <1> DEFINE expanded == {n \in Showing(ctx) : ~ctx.windows[n].collapsed}
             changed == IF expanded # {} THEN expanded ELSE Showing(ctx)
             turned == Turned(Now, changed, expanded # {})
             t == [Now EXCEPT !.ctx = turned]
             situations == Persisted([Now EXCEPT !.ctx = Inserted(turned, changed)])
  <1>2. changed \in SUBSET Showing(ctx) /\ changed \in SUBSET Notes /\ (expanded # {}) \in BOOLEAN
    BY DEF Showing
  <1>3. Handled(situations)
    BY <1>1 DEF ToggleCollapseAll, Turned
  <1> HIDE DEF expanded, changed
  <1>4. OnlyLess(Now, t) /\ t.ctx = turned
    BY <1>1, <1>2, TurnedMakes
  <1>5. Fit(t) /\ t \in Situations /\ (OnOneLayer(Now) => OnOneLayer(t))
    BY <1>1, <1>4, OnlyLessKeeps DEF OnlyLess
  <1>6. [Now EXCEPT !.ctx = Inserted(turned, changed)] = [t EXCEPT !.ctx = Inserted(t.ctx, changed)]
    BY <1>1, <1>4 DEF Situations
  <1> HIDE DEF turned, t
  <1>7. ASSUME NEW s \in situations PROVE Fit(s) /\ (OnOneLayer(Now) => OnOneLayer(s))
    <2>1. s \in Persisted([t EXCEPT !.ctx = Inserted(t.ctx, changed)])
      BY <1>6
    <2>2. CopiesAgree(t) /\ HiddenIsEmpty(t) /\ t.ctx.up
      BY <1>5 DEF Fit, Coherent
    <2> QED
      BY <1>2, <1>5, <2>1, <2>2, InsertedMakes
  <1> HIDE DEF situations
  <1> QED
    BY <1>3, <1>7, HandledLands

(* The bars hand over theirs.                                              *)
LEMMA ScaleLands ==
    ASSUME TypeOK, DesktopInv, SetUiScale
    PROVE  Lands(FALSE)
  <1>1. /\ Now \in Situations /\ Now.ctx = ctx /\ Fit(Now) /\ IdleIsEmpty(Now)
        /\ CopiesAgree(Now) /\ HiddenIsEmpty(Now) /\ Now.ctx.up
    BY NowFacts DEF SetUiScale, Acting, Fit, Coherent
  <1> DEFINE bars == {n \in Showing(ctx) : ctx.windows[n].collapsed}
             situations == Persisted([Now EXCEPT !.ctx = Inserted(Now.ctx, bars)])
  <1>2. bars \in SUBSET Notes
    BY DEF Showing
  <1>3. Becomes(situations)
    BY <1>1 DEF SetUiScale
  <1> HIDE DEF bars
  <1>4. \A s \in situations : Fit(s) /\ IdleIsEmpty(s) /\ (OnOneLayer(Now) => OnOneLayer(s))
    BY <1>1, <1>2, InsertedMakes
  <1> HIDE DEF situations
  <1> QED
    BY <1>3, <1>4, BecomesLands

-----------------------------------------------------------------------------
(* Hiding and quitting                                                     *)

(* A hide that is saved shows nothing; one that is not only ends the       *)
(* elevation.                                                              *)
LEMMA CommittedHideMakes ==
    ASSUME NEW s \in Situations, Fit(s), NEW r \in CommittedHide(s)
    PROVE  /\ Fit(r) /\ r.ctx.restore = Nowhere
           /\ IdleIsEmpty(s) => IdleIsEmpty(r)
           /\ (OnOneLayer(s) /\ (Showing(s.ctx) = {} \/ s.ctx.restore = Nowhere)) => OnOneLayer(r)
  <1> DEFINE qc == [s.ctx EXCEPT !.due = FALSE, !.restore = Nowhere]
             quiet == [Settled(s) EXCEPT !.ctx.restore = Nowhere]
             state == [s.ctx.state EXCEPT !.mode = "hidden"]
             hc == [qc EXCEPT !.windows = [n \in Notes |-> Gone], !.state = state]
             hidden == AllClosed(quiet)
  <1>1. quiet = [s EXCEPT !.ctx = qc]
    BY SituationParts DEF Settled, Situations, Context
  <1>2. /\ qc \in Context /\ qc.windows = s.ctx.windows /\ qc.state = s.ctx.state
        /\ qc.restore = Nowhere /\ qc.up = s.ctx.up /\ qc.activated = s.ctx.activated
        /\ qc.canPersist = s.ctx.canPersist
    BY SituationParts DEF Context
  <1> HIDE DEF qc, quiet
  <1>3. quiet \in Situations /\ quiet.ctx = qc /\ quiet.disk = s.disk
    BY <1>1, <1>2, WithContext
  <1>4. state \in AppState /\ state.mode = "hidden"
    BY SituationParts DEF AppState, Modes
  <1>5. hidden = [quiet EXCEPT !.ctx = hc]
    BY <1>2, <1>3, SituationParts DEF AllClosed, Situations, Context
  <1> HIDE DEF state
  <1>6. /\ hc \in Context /\ hc.windows = [n \in Notes |-> Gone] /\ hc.state = state
        /\ hc.restore = Nowhere /\ hc.up = s.ctx.up /\ hc.activated = s.ctx.activated
        /\ hc.canPersist = s.ctx.canPersist
    BY <1>2, <1>4, GoneType DEF Context
  <1> HIDE DEF hc, hidden
  <1>7. hidden \in Situations /\ hidden.ctx = hc /\ hidden.disk = s.disk
    BY <1>3, <1>5, <1>6, WithContext
  <1>8. ASSUME r.ctx = hc, r \in Situations,
               Comparable(r) => r.disk.kind = "state" /\ r.disk.state = state
        PROVE  Fit(r) /\ IdleIsEmpty(r) /\ OnOneLayer(r) /\ r.ctx.restore = Nowhere
    <2>1. Showing(r.ctx) = {} /\ CopiesAgree(r)
      BY <1>6, <1>8, GoneType DEF Showing, CopiesAgree
    <2>2. NotesFiled(r) /\ LayerFiled(r)
      BY <1>6, <1>8 DEF NotesFiled, LayerFiled, Remembered
    <2> QED
      BY <1>6, <1>8, <2>1, <2>2 DEF Fit, Coherent, HiddenIsEmpty, IdleIsEmpty, OnOneLayer
  <1>9. CASE r = hidden /\ ~s.ctx.canPersist
    BY <1>6, <1>7, <1>8, <1>9 DEF Comparable
  <1>10. CASE r = Saved(hidden)
    <2>1. r \in Situations /\ r.ctx = hidden.ctx
          /\ r.disk = [hidden.disk EXCEPT !.kind = "state", !.state = hidden.ctx.state,
                                          !.behind = FALSE]
      BY <1>7, <1>10, SavedMakes
    <2>2. r.disk.kind = "state" /\ r.disk.state = state
      BY <1>6, <1>7, <2>1, SituationParts DEF Disk
    <2> QED
      BY <1>7, <1>8, <2>1, <2>2
  <1>11. CASE r \in NotSaved(quiet)
    <2>1. r \in Situations /\ r.ctx = qc /\ r.disk.behind
      BY <1>3, <1>11, NotSavedMakes
    <2>2. Showing(r.ctx) = Showing(s.ctx)
      BY <1>2, <2>1 DEF Showing
    <2>3. Fit(r)
      BY <1>2, <2>1, <2>2
         DEF Fit, Coherent, CopiesAgree, NotesFiled, LayerFiled, HiddenIsEmpty, Comparable
    <2>4. IdleIsEmpty(s) => IdleIsEmpty(r)
      BY <1>2, <2>1, <2>2 DEF IdleIsEmpty
    <2>5. s.ctx.restore = Nowhere => Effective(r.ctx) = Effective(s.ctx)
      BY <1>2, <2>1 DEF Effective
    <2>6. (OnOneLayer(s) /\ (Showing(s.ctx) = {} \/ s.ctx.restore = Nowhere)) => OnOneLayer(r)
      BY <1>2, <2>1, <2>2, <2>5 DEF OnOneLayer
    <2> QED
      BY <1>2, <2>1, <2>3, <2>4, <2>6
  <1>12. (r = hidden /\ ~s.ctx.canPersist) \/ r = Saved(hidden) \/ r \in NotSaved(quiet)
    BY DEF CommittedHide, hidden, quiet
  <1> QED
    BY <1>9, <1>10, <1>11, <1>12

(* A hide without windows commits at once.                                 *)
LEMMA HideLands ==
    ASSUME TypeOK, DesktopInv, Hide
    PROVE  Lands(FALSE)
  <1>1. Now \in Situations /\ Now.ctx = ctx /\ Fit(Now)
    BY NowFacts DEF Hide
  <1>2. CASE Showing(ctx) = {}
    <2>1. \A s \in CommittedHide(Now) : Fit(s) /\ (OnOneLayer(Now) => OnOneLayer(s))
      BY <1>1, <1>2, CommittedHideMakes
    <2> QED
      BY <1>2, <2>1, HandledLands DEF Hide
  <1>3. CASE Showing(ctx) # {}
    <2>1. Handled({Now})
      BY <1>3 DEF Hide
    <2> QED
      BY <1>1, <2>1, HandledLands
  <1> QED
    BY <1>2, <1>3

(* A hide that was flushed may part the windows from the layer, if it      *)
(* could not be saved.                                                     *)
LEMMA HideFlushedLands ==
    ASSUME TypeOK, DesktopInv, HideFlushed
    PROVE  Lands(HideAborts)
  <1>1. Now \in Situations /\ Now.ctx = ctx /\ Fit(Now) /\ IdleIsEmpty(Now)
    BY NowFacts DEF HideFlushed, FlushedAll
  <1>2. active = "Hide" /\ active' = NoOperation
    BY DEF HideFlushed, FlushedAll, FinishLifecycle
  <1>3. CASE Becomes(CommittedHide(Now))
    <2>1. PICK s \in CommittedHide(Now) : ctx' = s.ctx /\ disk' = s.disk
      BY <1>3 DEF Becomes
    <2>2. /\ Fit(s) /\ s.ctx.restore = Nowhere /\ IdleIsEmpty(s)
          /\ OnOneLayer(Now) /\ ctx.restore = Nowhere => OnOneLayer(s)
      BY <1>1, CommittedHideMakes
    <2>3. ~HideAborts => ctx.restore = Nowhere
      BY <1>2, <2>1, <2>2 DEF HideAborts
    <2> QED
      BY <2>1, <2>2, <2>3 DEF Lands, LandsIn, Fit
  <1>4. CASE UNCHANGED <<ctx, disk>>
    <2>1. Lands(FALSE)
      BY <1>4, StutterLands
    <2> QED
      BY <2>1 DEF Lands, LandsIn
  <1> QED
    BY <1>3, <1>4 DEF HideFlushed, FlushedAll

(* A quit ends the process, or stays for a state that was not saved.       *)
LEMMA CommittedQuitLands ==
    ASSUME TypeOK, DesktopInv, Running, Becomes(CommittedQuit(Now))
    PROVE  Lands(FALSE)
  <1>1. Now \in Situations /\ Fit(Now) /\ IdleIsEmpty(Now)
    BY NowFacts
  <1>2. CASE \E p \in PersistedOk(Now) : ctx' = [p EXCEPT !.ctx = Stopped].ctx
                                          /\ disk' = [p EXCEPT !.ctx = Stopped].disk
    <2>1. PICK p \in PersistedOk(Now) : ctx' = [p EXCEPT !.ctx = Stopped].ctx
                                          /\ disk' = [p EXCEPT !.ctx = Stopped].disk
      BY <1>2
    <2> DEFINE s == [p EXCEPT !.ctx = Stopped]
    <2>2. p \in Situations
      BY <1>1, PersistedMakes DEF Persisted
    <2>3. s \in Situations /\ s.ctx = Stopped
      BY <2>2, StoppedFacts, WithContext
    <2>4. OnOneLayer(s)
      BY <2>3, StoppedFacts DEF OnOneLayer
    <2> QED
      BY <2>1, <2>3, <2>4 DEF Lands, LandsIn
  <1>3. CASE \E s \in PersistFailed(Now) : ctx' = s.ctx /\ disk' = s.disk
    <2>1. PICK s \in PersistFailed(Now) : ctx' = s.ctx /\ disk' = s.disk
      BY <1>3
    <2>2. s \in Persisted(Now)
      BY DEF Persisted
    <2>3. /\ s \in Situations /\ NotesFiled(s) /\ LayerFiled(s)
          /\ s.ctx.windows = Now.ctx.windows /\ s.ctx.up = Now.ctx.up
          /\ Showing(s.ctx) = Showing(Now.ctx) /\ Effective(s.ctx) = Effective(Now.ctx)
          /\ CopiesAgree(s) /\ HiddenIsEmpty(s) /\ IdleIsEmpty(s)
      BY <1>1, <2>2, PersistedMakes, PersistedFiles, PersistedShows DEF Fit, Coherent
    <2>4. Fit(s) /\ (OnOneLayer(Now) => OnOneLayer(s))
      BY <1>1, <2>3 DEF Fit, Coherent, OnOneLayer
    <2> QED
      BY <2>1, <2>3, <2>4 DEF Lands, LandsIn
  <1> QED
    BY <1>2, <1>3 DEF Becomes, CommittedQuit

(* A quit with windows waits for their flush.                              *)
LEMMA QuitLands ==
    ASSUME TypeOK, DesktopInv, Quit \/ QuitFlushed
    PROVE  Lands(FALSE)
  <1>1. Now \in Situations /\ Fit(Now) /\ Running
    BY NowFacts DEF Quit, QuitFlushed, FlushedAll
  <1>2. CASE Becomes(CommittedQuit(Now))
    BY <1>1, <1>2, CommittedQuitLands
  <1>3. CASE Handled({Now})
    BY <1>1, <1>3, HandledLands
  <1>4. CASE UNCHANGED <<ctx, disk>>
    BY <1>4, StutterLands
  <1> QED
    BY <1>2, <1>3, <1>4 DEF Quit, QuitFlushed, FlushedAll

-----------------------------------------------------------------------------
(* What a page asks for, and what others write                             *)

(* A close that is not saved has not happened.                             *)
LEMMA CloseLands ==
    ASSUME TypeOK, DesktopInv, NEW n \in Notes, Close(n)
    PROVE  Lands(FALSE)
  <1>1. /\ Now \in Situations /\ Now.ctx = ctx /\ Fit(Now) /\ IdleIsEmpty(Now)
    BY NowFacts DEF Close, Structural, Acting
  <1> DEFINE state == [ctx.state EXCEPT !.closed = ctx.state.closed \cup {n}]
             t == WithState(Now, state)
  <1>2. state \in AppState
    BY <1>1, SituationParts DEF AppState
  <1>3. t = [Now EXCEPT !.ctx.state.closed = @ \cup {n}]
    BY <1>1, SituationParts DEF WithState, Situations, Context
  <1>4. \/ \E p \in PersistedOk(t) : ctx' = WithoutWindow(p, n).ctx
                                      /\ disk' = WithoutWindow(p, n).disk
        \/ \E f \in PersistFailed(t) : ctx' = WithState(f, ctx.state).ctx
                                        /\ disk' = WithState(f, ctx.state).disk
    BY <1>3 DEF Close, Becomes, WithoutWindow, WithState
  <1> HIDE DEF t
  <1>5. /\ t \in Situations /\ t.ctx.state = state /\ t.ctx.windows = ctx.windows
        /\ t.ctx.restore = ctx.restore /\ t.ctx.up = ctx.up
        /\ t.ctx.activated = ctx.activated
    BY <1>1, <1>2, WithStateMakes DEF t
  <1>6. ASSUME NEW p \in PersistedOk(t), ctx' = WithoutWindow(p, n).ctx,
               disk' = WithoutWindow(p, n).disk
        PROVE  Lands(FALSE)
    <2>1. p \in Persisted(t)
      BY DEF Persisted
    <2>2. /\ Fit(WithoutWindow(p, n)) /\ IdleIsEmpty(WithoutWindow(p, n))
          /\ OnOneLayer(Now) => OnOneLayer(WithoutWindow(p, n))
      BY <1>1, <1>5, <2>1, ClosedMakes
    <2> QED
      BY <1>6, <2>2 DEF Lands, LandsIn, Fit
  <1>7. ASSUME NEW f \in PersistFailed(t), ctx' = WithState(f, ctx.state).ctx,
               disk' = WithState(f, ctx.state).disk
        PROVE  Lands(FALSE)
    <2> DEFINE s == WithState(f, ctx.state)
    <2>1. f \in Persisted(t) /\ f \in NotSaved(Settled(t))
      BY DEF Persisted, PersistFailed
    <2>2. /\ f \in Situations /\ f.ctx.windows = ctx.windows /\ f.ctx.restore = ctx.restore
          /\ f.ctx.up = ctx.up /\ f.ctx.activated = ctx.activated
      BY <1>5, <2>1, PersistedMakes, PersistedShows
    <2>3. f.disk.behind
      BY <1>5, <2>1, SettledMakes, NotSavedMakes
    <2>4. /\ s \in Situations /\ s.disk = f.disk
          /\ s.ctx.state = ctx.state /\ s.ctx.windows = f.ctx.windows
          /\ s.ctx.restore = f.ctx.restore /\ s.ctx.up = f.ctx.up
          /\ s.ctx.activated = f.ctx.activated
      BY <1>1, <2>2, SituationParts, WithStateMakes
    <2>5. ctx' = s.ctx /\ disk' = s.disk
      BY <1>7
    <2> HIDE DEF s
    <2>6. Showing(s.ctx) = Showing(ctx) /\ Effective(s.ctx) = Effective(ctx)
      BY <2>2, <2>4 DEF Showing, Effective
    <2>7. Fit(s) /\ IdleIsEmpty(s) /\ (OnOneLayer(Now) => OnOneLayer(s))
      BY <1>1, <2>2, <2>3, <2>4, <2>6
         DEF Fit, Coherent, CopiesAgree, NotesFiled, LayerFiled, HiddenIsEmpty, IdleIsEmpty,
             Comparable, OnOneLayer
    <2> QED
      BY <2>5, <2>7 DEF Lands, LandsIn, Fit
  <1> QED
    BY <1>4, <1>6, <1>7

(* A window that hands over its copy, if nothing else holds on.            *)
LEMMA MovedMakes ==
    ASSUME NEW s \in Situations, Fit(s), NEW n \in Notes, NEW r \in Moved(s, n)
    PROVE  /\ Fit(r) /\ (IdleIsEmpty(s) => IdleIsEmpty(r))
           /\ OnOneLayer(s) => OnOneLayer(r)
  <1>1. CASE r = s
    BY <1>1
  <1>2. CASE r \in Persisted([s EXCEPT !.ctx = Inserted(s.ctx, {n})])
    <2>1. {n} \in SUBSET Notes /\ CopiesAgree(s) /\ HiddenIsEmpty(s) /\ s.ctx.up
      BY DEF Fit, Coherent
    <2> QED
      BY <1>2, <2>1, InsertedMakes
  <1> QED
    BY <1>1, <1>2 DEF Moved

(* A window that is turned hands over its copy.                            *)
LEMMA GeometryLands ==
    ASSUME TypeOK, DesktopInv, NEW n \in Notes, Geometry(n)
    PROVE  Lands(FALSE)
  <1>1. /\ Now \in Situations /\ Now.ctx = ctx /\ Fit(Now) /\ IdleIsEmpty(Now)
        /\ n \in Showing(Now.ctx)
    BY NowFacts DEF Geometry, Acting
  <1>2. PICK shape \in BOOLEAN : Becomes(Moved(Shaped(Now, n, shape), n))
    BY ShapesAssumption DEF Geometry, Shaped
  <1> DEFINE t == Shaped(Now, n, shape)
  <1>3. OnlyLess(Now, t)
    BY <1>1, ShapedMakes
  <1> HIDE DEF t
  <1>4. t \in Situations /\ Fit(t) /\ IdleIsEmpty(t) /\ (OnOneLayer(Now) => OnOneLayer(t))
    BY <1>1, <1>3, OnlyLessKeeps DEF OnlyLess
  <1>5. \A s \in Moved(t, n) : Fit(s) /\ IdleIsEmpty(s) /\ (OnOneLayer(Now) => OnOneLayer(s))
    BY <1>4, MovedMakes
  <1>6. Becomes(Moved(t, n))
    BY <1>2 DEF t
  <1> QED
    BY <1>5, <1>6, BecomesLands

(* A result is shown on the layer of the others.                           *)
LEMMA OpenSearchResultLands ==
    ASSUME TypeOK, DesktopInv, NEW n \in Notes, OpenSearchResult(n)
    PROVE  Lands(FALSE)
  <1>1. /\ Now \in Situations /\ Now.ctx = ctx /\ Fit(Now) /\ IdleIsEmpty(Now)
        /\ Showing(ctx) # {}
    BY NowFacts DEF OpenSearchResult, Acting
  <1> DEFINE layer == Effective(ctx)
  <1>2. layer \in {"overlay", "desktop"} /\ layer \in Modes
    BY <1>1, EffectiveMode DEF Fit, Coherent, HiddenIsEmpty, Effective, Modes
  <1>3. \E b, k, s :
          /\ b = Now \/ b \in Instantiated(Now, {n}, layer)
          /\ k = b \/ k \in MarkedOpen(b, {n}, layer)
          /\ s = k \/ /\ k.ctx.windows[n].collapsed
                      /\ s \in Moved(Shaped(k, n, FALSE), n)
          /\ ctx' = s.ctx /\ disk' = s.disk
    <2> DEFINE built == IF n \in Showing(ctx) THEN {Now} ELSE Instantiated(Now, {n}, layer)
               Known(s) == IF n \in Showing(ctx) \/ n \notin Showing(s.ctx) THEN {s}
                           ELSE MarkedOpen(s, {n}, layer)
               Expanded(s) == IF ~s.ctx.windows[n].collapsed THEN {s}
                              ELSE Moved(Shaped(s, n, FALSE), n)
    <2>1. Becomes(UNION {Expanded(s) : s \in UNION {Known(b) : b \in built}})
      BY DEF OpenSearchResult, Shaped
    <2>2. PICK s, k, b : s \in Expanded(k) /\ k \in Known(b) /\ b \in built
                         /\ ctx' = s.ctx /\ disk' = s.disk
      <3> HIDE DEF Expanded, Known, built
      <3> QED
        BY <2>1 DEF Becomes
    <2>3. b = Now \/ b \in Instantiated(Now, {n}, layer)
      BY <2>2
    <2>4. k = b \/ k \in MarkedOpen(b, {n}, layer)
      BY <2>2
    <2>5. s = k \/ (k.ctx.windows[n].collapsed /\ s \in Moved(Shaped(k, n, FALSE), n))
      BY <2>2
    <2> QED
      BY <2>2, <2>3, <2>4, <2>5
  <1>4. PICK b, k, s :
          /\ b = Now \/ b \in Instantiated(Now, {n}, layer)
          /\ k = b \/ k \in MarkedOpen(b, {n}, layer)
          /\ s = k \/ /\ k.ctx.windows[n].collapsed
                      /\ s \in Moved(Shaped(k, n, FALSE), n)
          /\ ctx' = s.ctx /\ disk' = s.disk
    BY <1>3
  <1> HIDE DEF layer
  <1>5. /\ Fit(b) /\ b \in Situations /\ b.ctx.restore = ctx.restore
        /\ b.ctx.activated = ctx.activated /\ Effective(b.ctx) = layer
        /\ OnOneLayer(Now) => OnOneLayer(b)
    <2>1. CASE b = Now
      BY <1>1, <2>1 DEF layer
    <2>2. CASE b \in Instantiated(Now, {n}, layer)
      <3>1. b \in Situations /\ BuiltOrKept(b, Now, {n}, layer)
        BY <1>1, <1>2, <2>2, InstantiatedMakes
      <3>2. /\ b.ctx.state = ctx.state /\ b.ctx.restore = ctx.restore
            /\ b.ctx.up = ctx.up /\ b.ctx.activated = ctx.activated
            /\ Effective(b.ctx) = Effective(ctx)
            /\ CopiesAgree(b) /\ NotesFiled(b) /\ LayerFiled(b)
        BY <1>1, <1>2, <2>2, InstantiatedKeeps DEF Fit, Coherent
      <3>3. HiddenIsEmpty(b)
        BY <1>1, <3>2 DEF Fit, Coherent, HiddenIsEmpty
      <3>4. ASSUME OnOneLayer(Now) PROVE OnOneLayer(b)
        <4> SUFFICES ASSUME NEW m \in Notes, b.ctx.windows[m] # Gone
                     PROVE  b.ctx.windows[m].layer = layer
          BY <3>2 DEF OnOneLayer, Showing, layer
        <4>1. CASE b.ctx.windows[m] = Built(Now, m, layer)
          BY <1>2, <4>1, BuiltFacts
        <4>2. CASE b.ctx.windows[m] = ctx.windows[m]
          BY <1>1, <3>4, <4>2 DEF OnOneLayer, Showing, layer
        <4> QED
          BY <1>1, <3>1, <4>1, <4>2 DEF BuiltOrKept
      <3> QED
        BY <1>1, <3>1, <3>2, <3>3, <3>4 DEF Fit, Coherent, layer
    <2> QED
      BY <1>4, <2>1, <2>2
  <1>6. /\ Fit(k) /\ k \in Situations /\ IdleIsEmpty(k)
        /\ OnOneLayer(Now) => OnOneLayer(k)
    <2>0. ctx.activated
      BY <1>1 DEF IdleIsEmpty
    <2>1. CASE k = b
      BY <1>5, <2>0, <2>1 DEF IdleIsEmpty
    <2>2. CASE k \in MarkedOpen(b, {n}, layer)
      <3>0. b \in Situations /\ CopiesAgree(b)
        BY <1>5 DEF Fit, Coherent
      <3>1. /\ k \in Situations /\ NotesFiled(k) /\ LayerFiled(k) /\ HiddenIsEmpty(k)
            /\ k.ctx.windows = b.ctx.windows /\ Showing(k.ctx) = Showing(b.ctx)
            /\ k.ctx.restore = b.ctx.restore /\ k.ctx.up = b.ctx.up
            /\ k.ctx.activated = b.ctx.activated
            /\ k.ctx.state.mode = layer /\ CopiesAgree(k)
        BY <1>2, <1>5, <2>2, <3>0, MarkedOpenMakes
      <3>2. Effective(k.ctx) = layer
        BY <1>5, <3>1 DEF Effective
      <3>3. OnOneLayer(b) => OnOneLayer(k)
        BY <1>5, <3>1, <3>2 DEF OnOneLayer
      <3> QED
        BY <1>5, <2>0, <3>1, <3>3 DEF Fit, Coherent, IdleIsEmpty
    <2> QED
      BY <1>4, <2>1, <2>2
  <1>7. Fit(s) /\ IdleIsEmpty(s) /\ (OnOneLayer(Now) => OnOneLayer(s))
    <2>1. CASE s = k
      BY <1>6, <2>1
    <2>2. CASE k.ctx.windows[n].collapsed /\ s \in Moved(Shaped(k, n, FALSE), n)
      <3> DEFINE t == Shaped(k, n, FALSE)
      <3>1. n \in Showing(k.ctx)
        BY <2>2, GoneType DEF Showing
      <3>2. OnlyLess(k, t)
        BY <1>6, <3>1, ShapedMakes
      <3> HIDE DEF t
      <3>3. t \in Situations /\ Fit(t) /\ IdleIsEmpty(t) /\ (OnOneLayer(k) => OnOneLayer(t))
        BY <1>6, <3>2, OnlyLessKeeps DEF OnlyLess
      <3>4. s \in Moved(t, n)
        BY <2>2 DEF t
      <3> QED
        BY <1>6, <3>3, <3>4, MovedMakes
    <2> QED
      BY <1>4, <2>1, <2>2
  <1> QED
    BY <1>4, <1>7 DEF Lands, LandsIn, Fit

(* A move to the trash that waits for its page changes nothing yet, and    *)
(* neither does a file that moves while no window shows it.                *)
LEMMA TrashLands ==
    ASSUME TypeOK, DesktopInv, NEW n \in Notes, Trash(n)
    PROVE  Lands(FALSE)
  <1>1. Now \in Situations /\ Now.ctx = ctx /\ Now.disk = disk /\ Running
    BY NowFacts DEF Trash, Structural, Acting
  <1> DEFINE c == [ctx EXCEPT !.trashing = ctx.trashing \cup {n}]
             s == [Now EXCEPT !.ctx = c]
  <1>2. ctx' = c /\ disk' = disk
    BY DEF Trash
  <1>3. /\ c \in Context /\ c.state = ctx.state /\ c.restore = ctx.restore
        /\ c.up = ctx.up /\ c.activated = ctx.activated
        /\ c.due = ctx.due /\ c.canPersist = ctx.canPersist
        /\ c.windows = ctx.windows
    BY <1>1, SituationParts DEF Context
  <1> HIDE DEF c
  <1>4. s \in Situations /\ s.ctx = c /\ s.disk = disk
    BY <1>1, <1>3, WithContext
  <1> HIDE DEF s
  <1>5. OnlyLess(Now, s)
    BY <1>1, <1>3, <1>4, AsideIsLess
  <1> QED
    BY <1>1, <1>2, <1>4, <1>5, OnlyLessLands

(* A file that moves says nothing of windows.                              *)
LEMMA FileMovesLand ==
    ASSUME TypeOK, DesktopInv, Running, UNCHANGED ctx, NEW live \in SUBSET Notes,
           NEW trash \in SUBSET Notes, disk' = [disk EXCEPT !.live = live, !.trash = trash]
    PROVE  Lands(FALSE)
  <1>1. Now \in Situations /\ Now.ctx = ctx /\ Now.disk = disk
    BY NowFacts
  <1> DEFINE s == [Now EXCEPT !.disk = disk']
  <1>2. /\ disk' \in Disk /\ disk'.kind = disk.kind /\ disk'.state = disk.state
        /\ disk'.behind = disk.behind
    BY <1>1, SituationParts DEF Disk
  <1>3. s \in Situations /\ s.ctx = ctx /\ s.disk = disk'
    BY <1>1, <1>2 DEF Situations
  <1> HIDE DEF s
  <1>4. OnlyLess(Now, s)
    BY <1>1, <1>2, <1>3, AsideIsLess
  <1> QED
    BY <1>1, <1>3, <1>4, OnlyLessLands

(* commit_trash closes what it moves.                                      *)
LEMMA DiscardedMakes ==
    ASSUME NEW s \in Situations, Fit(s), NEW n \in Notes, NEW r \in Discarded(s, n)
    PROVE  /\ Fit(r) /\ (IdleIsEmpty(s) => IdleIsEmpty(r))
           /\ OnOneLayer(s) => OnOneLayer(r)
  <1> DEFINE d == [s.disk EXCEPT !.live = s.disk.live \ {n}, !.trash = s.disk.trash \cup {n}]
             state == [s.ctx.state EXCEPT !.closed = s.ctx.state.closed \cup {n}]
             c == [s.ctx EXCEPT !.state = state]
             t == [s EXCEPT !.ctx = c, !.disk = d]
  <1>1. t = [s EXCEPT !.disk.live = @ \ {n}, !.disk.trash = @ \cup {n},
                      !.ctx.state.closed = @ \cup {n}]
    BY SituationParts DEF Situations, Context, Disk
  <1>2. d \in Disk
    BY SituationParts DEF Disk
  <1>3. state \in AppState
    BY SituationParts DEF AppState
  <1>4. /\ c \in Context /\ c.state = state /\ c.windows = s.ctx.windows
        /\ c.restore = s.ctx.restore /\ c.up = s.ctx.up /\ c.activated = s.ctx.activated
    BY <1>3, SituationParts DEF Context
  <1> HIDE DEF c, d
  <1>5. t \in Situations /\ t.ctx = c
    BY <1>2, <1>4 DEF Situations
  <1>6. PICK p \in Persisted(t) : r = WithoutWindow(p, n)
    BY <1>1 DEF Discarded, WithoutWindow
  <1> HIDE DEF t
  <1> QED
    BY <1>4, <1>5, <1>6, ClosedMakes

(* The flush a move to the trash waited for ends it either way.            *)
LEMMA TrashFlushedLands ==
    ASSUME TypeOK, DesktopInv, NEW n \in Notes, TrashFlushed(n)
    PROVE  Lands(FALSE)
  <1>1. Now \in Situations /\ Now.ctx = ctx /\ Now.disk = disk /\ Fit(Now) /\ IdleIsEmpty(Now)
    BY NowFacts DEF TrashFlushed, Acting
  <1> DEFINE c == [ctx EXCEPT !.trashing = ctx.trashing \ {n}]
             t == [Now EXCEPT !.ctx = c]
  <1>2. t = [Now EXCEPT !.ctx.trashing = @ \ {n}]
    BY <1>1, SituationParts DEF Situations
  <1>3. Becomes({t} \cup IF n \in disk.live THEN Discarded(t, n) ELSE {})
    BY <1>2 DEF TrashFlushed
  <1>4. /\ c \in Context /\ c.state = ctx.state /\ c.restore = ctx.restore
        /\ c.up = ctx.up /\ c.activated = ctx.activated
        /\ c.due = ctx.due /\ c.canPersist = ctx.canPersist
        /\ c.windows = ctx.windows
    BY <1>1, SituationParts DEF Context
  <1> HIDE DEF c
  <1>5. t \in Situations /\ t.ctx = c /\ t.disk = disk
    BY <1>1, <1>4, WithContext
  <1> HIDE DEF t
  <1>6. OnlyLess(Now, t)
    BY <1>1, <1>4, <1>5, AsideIsLess
  <1>7. Fit(t) /\ IdleIsEmpty(t) /\ (OnOneLayer(Now) => OnOneLayer(t))
    BY <1>1, <1>6, OnlyLessKeeps
  <1>8. ASSUME NEW s \in {t} \cup IF n \in disk.live THEN Discarded(t, n) ELSE {}
        PROVE  Fit(s) /\ IdleIsEmpty(s) /\ (OnOneLayer(Now) => OnOneLayer(s))
    <2>1. CASE s = t
      BY <1>7, <2>1
    <2>2. CASE s \in Discarded(t, n)
      BY <1>5, <1>7, <2>2, DiscardedMakes
    <2> QED
      BY <1>8, <2>1, <2>2
  <1> QED
    BY <1>3, <1>8, BecomesLands

(* A note that comes back, or that another process makes, has no window.   *)
LEMMA RestoreNoteLands ==
    ASSUME TypeOK, DesktopInv, NEW n \in Notes, RestoreNote(n) \/ WrittenCreate(n)
    PROVE  Lands(FALSE)
  <1>1. disk \in Disk /\ Running /\ UNCHANGED ctx
    BY DEF TypeOK, RestoreNote, WrittenCreate, Acting
  <1>2. CASE RestoreNote(n)
    <2>1. disk' = [disk EXCEPT !.live = disk.live \cup {n}, !.trash = disk.trash \ {n}]
      BY <1>1, <1>2 DEF RestoreNote, Disk
    <2>2. disk.live \cup {n} \in SUBSET Notes /\ disk.trash \ {n} \in SUBSET Notes
      BY <1>1 DEF Disk
    <2> QED
      BY <1>1, <2>1, <2>2, FileMovesLand
  <1>3. CASE WrittenCreate(n)
    <2>1. disk' = [disk EXCEPT !.live = disk.live \cup {n}, !.trash = disk.trash]
      BY <1>1, <1>3 DEF WrittenCreate, Disk
    <2>2. disk.live \cup {n} \in SUBSET Notes /\ disk.trash \in SUBSET Notes
      BY <1>1 DEF Disk
    <2> QED
      BY <1>1, <2>1, <2>2, FileMovesLand
  <1> QED
    BY <1>2, <1>3

(* Another process closes the window of what it discards.                  *)
LEMMA WrittenDiscardLands ==
    ASSUME TypeOK, DesktopInv, NEW n \in Notes, WrittenDiscard(n)
    PROVE  Lands(FALSE)
  <1>1. /\ Now \in Situations /\ Now.ctx = ctx /\ Now.disk = disk /\ Fit(Now) /\ IdleIsEmpty(Now)
        /\ Running
    BY NowFacts DEF WrittenDiscard, Acting
  <1>2. CASE n \in Showing(ctx)
    <2>1. Becomes(Discarded(Now, n))
      BY <1>2 DEF WrittenDiscard
    <2>2. \A s \in Discarded(Now, n) :
            Fit(s) /\ IdleIsEmpty(s) /\ (OnOneLayer(Now) => OnOneLayer(s))
      BY <1>1, DiscardedMakes
    <2> QED
      BY <2>1, <2>2, BecomesLands
  <1>3. CASE n \notin Showing(ctx)
    <2> DEFINE d == [disk EXCEPT !.live = disk.live \ {n}, !.trash = disk.trash \cup {n}]
               s == [Now EXCEPT !.disk = d]
    <2>1. s = [Now EXCEPT !.disk.live = @ \ {n}, !.disk.trash = @ \cup {n}]
      BY <1>1, SituationParts DEF Situations, Disk
    <2>2. ctx' = s.ctx /\ disk' = s.disk
      BY <1>3, <2>1 DEF WrittenDiscard, Becomes
    <2>3. ctx' = ctx /\ disk' = d
      BY <1>1, <2>2 DEF Situations
    <2>4. disk.live \ {n} \in SUBSET Notes /\ disk.trash \cup {n} \in SUBSET Notes
      BY <1>1, SituationParts DEF Disk
    <2> QED
      BY <1>1, <2>3, <2>4, FileMovesLand
  <1> QED
    BY <1>2, <1>3

-----------------------------------------------------------------------------
(* The theorems.                                                           *)

(* Every step lands where the invariant allows.                            *)
LEMMA EveryStepLands ==
    ASSUME TypeOK, DesktopInv, [Next]_vars
    PROVE  Lands(HideAborts)
  <1>0. Lands(FALSE) => Lands(HideAborts)
    BY DEF Lands, LandsIn
  <1>1. CASE Start \/ Crash \/ Spoil
    BY <1>0, <1>1, StartLands, CrashLands, SpoilLands
  <1>2. CASE Background \/ Summon \/ NewNote \/ Toggle \/ Show \/ ToggleCollapseAll \/ SetUiScale
    BY <1>0, <1>2, BackgroundLands, SummonLands, NewNoteLands, LayerLands, CollapseLands,
       ScaleLands
  <1>3. CASE DebounceExpires \/ Hide \/ Quit \/ HideFlushed \/ QuitFlushed
    BY <1>0, <1>3, DebounceLands, HideLands, QuitLands, HideFlushedLands
  <1>4. CASE BeginWrite \/ FinishWrite
    BY <1>0, <1>4, StutterLands DEF BeginWrite, FinishWrite
  <1>5. ASSUME NEW n \in Notes,
               \/ Close(n) \/ Geometry(n) \/ OpenSearchResult(n) \/ Trash(n) \/ TrashFlushed(n)
               \/ RestoreNote(n) \/ WrittenCreate(n) \/ WrittenDiscard(n)
        PROVE  Lands(HideAborts)
    BY <1>0, <1>5, CloseLands, GeometryLands, OpenSearchResultLands, TrashLands,
       TrashFlushedLands, RestoreNoteLands, WrittenDiscardLands
  <1>6. CASE UNCHANGED vars
    BY <1>0, <1>6, StutterLands DEF vars
  <1> QED
    BY <1>1, <1>2, <1>3, <1>4, <1>5, <1>6 DEF Next

(* The claims and the sessions are typed.                                  *)
LEMMA CountsTyped ==
    ASSUME TypeOK, [Next]_vars
    PROVE  sessions' \in 0..MaxSessions /\ LifecycleTypeOK'
  <1> USE DEF TypeOK, LifecycleTypeOK, LifecycleOperation, lifecycleVars
  <1>1. CASE Start
    BY <1>1, BoundsAssumption DEF Start
  <1>2. CASE Crash
    BY <1>2 DEF Crash
  <1>3. CASE Hide \/ Quit
    BY <1>3 DEF Hide, Quit
  <1>4. CASE HideFlushed \/ QuitFlushed
    BY <1>4 DEF HideFlushed, QuitFlushed, FlushedAll, FinishLifecycle
  <1>5. CASE BeginWrite \/ FinishWrite
    BY <1>5 DEF BeginWrite, FinishWrite, BeginExternalWrite, FinishExternalWrite
  <1>6. CASE UNCHANGED <<sessions, lifecycleVars>>
    BY <1>6
  <1>7. CASE Spoil \/ Background \/ Summon \/ NewNote \/ Toggle \/ Show \/ ToggleCollapseAll
             \/ SetUiScale \/ DebounceExpires
    BY <1>6, <1>7 DEF Spoil, Background, Summon, NewNote, Toggle, Show, ToggleCollapseAll,
                      SetUiScale, DebounceExpires, Structural, Acting
  <1>8. ASSUME NEW n \in Notes,
               \/ Close(n) \/ Geometry(n) \/ OpenSearchResult(n) \/ Trash(n) \/ TrashFlushed(n)
               \/ RestoreNote(n) \/ WrittenCreate(n) \/ WrittenDiscard(n)
        PROVE  UNCHANGED <<sessions, lifecycleVars>>
    BY <1>8 DEF Close, Geometry, OpenSearchResult, Trash, TrashFlushed, RestoreNote,
                WrittenCreate, WrittenDiscard, Structural, Acting
  <1> QED
    BY <1>1, <1>2, <1>3, <1>4, <1>5, <1>6, <1>7, <1>8 DEF Next, vars

(* The first state is typed, and nothing runs.                             *)
LEMMA InitKeeps ==
    Init => TypeOK /\ DesktopInv
  <1> SUFFICES ASSUME Init PROVE TypeOK /\ DesktopInv
    OBVIOUS
  <1>1. ctx \in Context /\ ~ctx.up /\ ctx = Stopped
    BY StoppedFacts DEF Init
  <1>2. disk \in Disk
    BY GoneType, BoundsAssumption DEF Init, Disk
  <1>3. sessions \in 0..MaxSessions /\ LifecycleTypeOK
    BY BoundsAssumption DEF Init, LifecycleInit, LifecycleTypeOK
  <1> QED
    BY <1>1, <1>2, <1>3 DEF TypeOK, DesktopInv, Running

(* Every step keeps the invariant.                                         *)
LEMMA StepKeeps ==
    ASSUME TypeOK, DesktopInv, [Next]_vars
    PROVE  TypeOK' /\ DesktopInv'
  <1>1. PICK s : LandsIn(s, HideAborts)
    BY EveryStepLands DEF Lands
  <1>2. ctx' = s.ctx /\ disk' = s.disk /\ s.ctx \in Context /\ s.disk \in Disk
    BY <1>1, SituationParts DEF LandsIn
  <1>3. TypeOK'
    BY <1>2, CountsTyped DEF TypeOK
  <1>4. Now'.ctx = s.ctx /\ Now'.disk = s.disk
    BY <1>2 DEF Now
  <1>5. CASE Fit(s) /\ IdleIsEmpty(s)
    <2>1. Coherent(Now)' /\ LayerFiled(Now)' /\ IdleIsEmpty(Now)'
      BY <1>4, <1>5 DEF Fit, Coherent, CopiesAgree, NotesFiled, LayerFiled, HiddenIsEmpty,
                        IdleIsEmpty, Comparable
    <2> QED
      BY <1>2, <1>3, <1>5, <2>1 DEF DesktopInv, Running, Fit
  <1>6. CASE s.ctx = Stopped
    BY <1>2, <1>3, <1>6, StoppedFacts DEF DesktopInv, Running
  <1> QED
    BY <1>1, <1>3, <1>5, <1>6 DEF LandsIn

(* The inductive invariant.                                                *)
THEOREM DesktopInvHolds == Spec => [](TypeOK /\ DesktopInv)
  <1>1. Init => TypeOK /\ DesktopInv
    BY InitKeeps
  <1>2. (TypeOK /\ DesktopInv) /\ [Next]_vars => (TypeOK /\ DesktopInv)'
    BY StepKeeps
  <1> QED
    BY <1>1, <1>2, PTL DEF Spec

(* What the process knows, what it shows and what is on the disk keep      *)
(* their types, in every session and after every failure.                  *)
THEOREM DesktopTyped == Spec => []TypeOK
  BY DesktopInvHolds, PTL

(* The state file says what the application knows unless a write is        *)
(* pending, failed or forbidden, and a window that is open comes back.     *)
THEOREM NeverForgotten == Spec => []NothingForgotten
  <1>1. ASSUME TypeOK, DesktopInv PROVE NothingForgotten
    <2> SUFFICES ASSUME Running, ctx.canPersist, ~disk.behind
                 PROVE  LET file == Remembered(disk)
                        IN /\ \/ ctx.due
                              \/ file = ctx.state
                              \/ ctx.state = [file EXCEPT !.mode = "hidden"] /\ Showing(ctx) = {}
                           /\ \A n \in Showing(ctx) : ctx.windows[n].open => n \notin file.closed
      BY DEF NothingForgotten
    <2> DEFINE file == Remembered(disk)
    <2>1. /\ Now \in Situations /\ Now.ctx = ctx /\ Now.disk = disk
          /\ Coherent(Now) /\ LayerFiled(Now) /\ Comparable(Now)
      BY <1>1, NowFacts DEF Fit, Comparable
    <2>2. file \in AppState /\ ctx.state \in AppState
      BY <2>1, SituationParts, GoneType DEF Remembered
    <2>3. file.closed = ctx.state.closed /\ file.collapsed = ctx.state.collapsed
      BY <2>1 DEF Coherent, NotesFiled
    <2>4. file.mode = ctx.state.mode \/ ctx.due \/ ctx.state.mode = "hidden"
      BY <2>1 DEF LayerFiled
    <2>5. ctx.state.mode = "hidden" => Showing(ctx) = {}
      BY <2>1 DEF Coherent, HiddenIsEmpty
    <2>6. \A n \in Notes : ctx.windows[n].open => n \notin file.closed
      BY <2>1, <2>3 DEF Coherent, CopiesAgree
    <2> HIDE DEF file
    <2>7. file.mode = ctx.state.mode => file = ctx.state
      BY <2>2, <2>3 DEF AppState
    <2>8. ctx.state.mode = "hidden" => ctx.state = [file EXCEPT !.mode = "hidden"]
      BY <2>2, <2>3 DEF AppState
    <2> QED
      BY <2>4, <2>5, <2>6, <2>7, <2>8 DEF file, Showing
  <1> QED
    BY <1>1, DesktopInvHolds, PTL

(* No step parts the windows from each other or from the layer toggling    *)
(* starts from, but a hide that could not save the state.                  *)
THEOREM LayerAlwaysKept == Spec => OneLayerKept
  <1>1. ASSUME TypeOK, DesktopInv, [Next]_vars
        PROVE  [OneLayer /\ ~HideAborts => OneLayer']_vars
    <2>1. PICK s : LandsIn(s, HideAborts)
      BY <1>1, EveryStepLands DEF Lands
    <2>2. Now.ctx = ctx /\ ctx' = s.ctx
      BY <1>1, <2>1, NowFacts DEF LandsIn
    <2>3. OneLayer => OnOneLayer(Now)
      BY <2>2 DEF OneLayer, OnOneLayer
    <2>4. OnOneLayer(s) => OneLayer'
      BY <2>2 DEF OneLayer, OnOneLayer
    <2> QED
      BY <2>1, <2>3, <2>4 DEF LandsIn
  <1> QED
    BY <1>1, DesktopInvHolds, PTL DEF Spec, OneLayerKept
=============================================================================
