---------------------------- MODULE TerminalProofs ----------------------------
(***************************************************************************)
(* What holds of the terminal editor for any notes, texts, revisions and   *)
(* clicks: what parts a draft from the note and the revision it was opened *)
(* on, how text can be lost, and what is replaced that was not shown.      *)
(***************************************************************************)
EXTENDS Terminal, TLAPS

-----------------------------------------------------------------------------
(* The inductive invariant                                                 *)

Situation == [app : App, store : [Notes -> Files], left : SUBSET Texting]

\* A reading is of a note that there was, and of its text if it is not older.
Known(d, st) ==
  d # Nothing =>
    /\ st[d.id].place # "absent"
    /\ d.rev <= st[d.id].rev
    /\ d.rev = st[d.id].rev => d.text = st[d.id].text

\* A situation a handler may begin from.
Sound(s) == s \in Situation /\ Known(s.app.current, s.store) /\ Known(s.app.asked, s.store)

\* A draft has the note it was opened on.
HasItsNote(a) == a.draft = Nothing <=> a.on = Nothing

\* What an event finds, in a program that runs.
Fit(s) == Sound(s) /\ s.app.up /\ HasItsNote(s.app)

\* What an event leaves that does not part the draft from its note.
Good(s) == Fit(s) /\ (Together(app) => Together(s.app))

\* There is no draft that a reading would part from its note.
Loose(s) == Together(app) => s.app.draft = Nothing

IInv ==
  /\ TypeOK
  /\ Known(app.current, store) /\ Known(app.asked, store)
  /\ HasItsNote(app)
  /\ outside # Nothing => app.focus # "editor" /\ Known(outside.doc, store)
  /\ ~app.up => app.on = Nothing /\ outside = Nothing

-----------------------------------------------------------------------------
(* Reading                                                                 *)

\* All but what is on screen.
SameButCurrent(a, b) ==
  /\ b.up = a.up /\ b.panel = a.panel /\ b.focus = a.focus /\ b.draft = a.draft
  /\ b.on = a.on /\ b.prompt = a.prompt /\ b.asked = a.asked /\ b.click = a.click
  /\ b.leaving = a.leaving /\ b.quit = a.quit /\ b.told = a.told

\* A reading changes what is on screen, and nothing else.
Reads(s, t) ==
  /\ Sound(t)
  /\ t.store = s.store /\ t.left = s.left
  /\ SameButCurrent(s.app, t.app)

LEMMA Showing ==
    ASSUME NEW s, Sound(s), NEW d \in Loaded \union {Nothing}, Known(d, s.store)
    PROVE  /\ Reads(s, [s EXCEPT !.app.current = d])
           /\ [s EXCEPT !.app.current = d].app.current = d
  <1> DEFINE a == [s.app EXCEPT !.current = d]
             t == [s EXCEPT !.app = a]
  <1>1. s.app \in App /\ s.store \in [Notes -> Files] /\ s.left \in SUBSET Texting
    BY DEF Sound, Situation
  <1>2. /\ a \in App /\ a.up = s.app.up /\ a.current = d /\ SameButCurrent(s.app, a)
    BY <1>1 DEF App, SameButCurrent
  <1> HIDE DEF a
  <1>3. t \in Situation /\ t.app = a /\ t.store = s.store /\ t.left = s.left
    BY <1>1, <1>2 DEF Sound, Situation
  <1> HIDE DEF t
  <1>4. Reads(s, t)
    BY <1>2, <1>3 DEF Reads, Sound, SameButCurrent
  <1>5. QED BY <1>2, <1>3, <1>4 DEF t, a

LEMMA ReadIs ==
    ASSUME NEW s, Sound(s), NEW n \in Notes, NEW inTrash \in BOOLEAN, NEW d \in Read(s, n, inTrash)
    PROVE  /\ d \in Loaded \union {Nothing} /\ Known(d, s.store)
           /\ d # Nothing => d.trash = inTrash
  <1>1. s.store[n] \in Files
    BY DEF Sound, Situation
  <1>2. s.store[n].text \in Texts /\ s.store[n].rev \in 0..MaxRevision
    BY <1>1 DEF Files
  <1>3. CASE d = Nothing
    BY <1>3 DEF Known
  <1>4. CASE d # Nothing
    <2>1. /\ d = [id |-> n, text |-> s.store[n].text, rev |-> s.store[n].rev, trash |-> inTrash]
          /\ s.store[n].place = IF inTrash THEN "trash" ELSE "live"
      BY <1>4 DEF Read
    <2>2. s.store[n].rev \in Nat /\ s.store[n].rev <= s.store[n].rev
      BY <1>2, NothingAssumption
    <2>3. QED BY <1>2, <2>1, <2>2 DEF Loaded, Known
  <1>5. QED BY <1>3, <1>4

\* Text that is loaded to be edited is that of a live note.
OnScreenIsLive(s) == s.app.current # Nothing => s.app.current \in Live

LEMMA LoadingReads ==
    ASSUME NEW s, Sound(s), NEW n \in Notes, NEW t \in LoadNote(s, n)
    PROVE  Reads(s, t) /\ OnScreenIsLive(t)
  <1>1. CASE Shows(s.app, n, FALSE) /\ t = s
    <2>1. s.app.current \in Live
      BY <1>1 DEF Shows, Live, Sound, Situation, App
    <2>2. QED BY <1>1, <2>1 DEF Reads, SameButCurrent, OnScreenIsLive
  <1>2. CASE \E d \in Read(s, n, FALSE) : t = [s EXCEPT !.app.current = d]
    <2>1. PICK d \in Read(s, n, FALSE) : t = [s EXCEPT !.app.current = d]
      BY <1>2
    <2>2. d \in Loaded \union {Nothing} /\ Known(d, s.store) /\ (d # Nothing => d.trash = FALSE)
      BY ReadIs
    <2>3. QED BY <2>1, <2>2, Showing DEF OnScreenIsLive, Live
  <1>3. QED BY <1>1, <1>2 DEF LoadNote

LEMMA ReloadingReads ==
    ASSUME NEW s, Sound(s), NEW n \in Notes, NEW t \in ReloadNote(s, n)
    PROVE  Reads(s, t) /\ OnScreenIsLive(t)
  <1> DEFINE u == [s EXCEPT !.app.current = Nothing]
  <1>1. Reads(s, u) /\ t \in LoadNote(u, n)
    BY Showing DEF ReloadNote, Known
  <1> HIDE DEF u
  <1>2. Reads(u, t) /\ OnScreenIsLive(t)
    BY <1>1, LoadingReads DEF Reads
  <1>3. QED BY <1>1, <1>2 DEF Reads, SameButCurrent

LEMMA AnyNoteReads ==
    ASSUME NEW s, Sound(s), NEW t \in LoadAnyNote(s)
    PROVE  Reads(s, t)
  BY LoadingReads DEF LoadAnyNote

LEMMA TrashReads ==
    ASSUME NEW s, Sound(s), NEW force \in BOOLEAN, NEW t \in LoadSelectedTrash(s, force)
    PROVE  Reads(s, t)
  <1>1. CASE t = [s EXCEPT !.app.current = Nothing]
    BY <1>1, Showing DEF Known
  <1>2. CASE t = s
    BY <1>2 DEF Reads, SameButCurrent
  <1>3. CASE \E n \in Notes : \E d \in Read(s, n, TRUE) : t = [s EXCEPT !.app.current = d]
    <2>1. PICK n \in Notes : \E d \in Read(s, n, TRUE) : t = [s EXCEPT !.app.current = d]
      BY <1>3
    <2>2. PICK d \in Read(s, n, TRUE) : t = [s EXCEPT !.app.current = d]
      BY <2>1
    <2>3. d \in Loaded \union {Nothing} /\ Known(d, s.store)
      BY TRUE \in BOOLEAN, ReadIs
    <2>4. QED BY <2>2, <2>3, Showing
  <1> DEFINE Row(n) == IF ~force /\ Shows(s.app, n, TRUE) THEN {s}
                       ELSE {[s EXCEPT !.app.current = d] : d \in Read(s, n, TRUE)}
  <1>4. ASSUME NEW n \in Notes, t \in Row(n)
        PROVE  Reads(s, t)
    BY <1>2, <1>3, <1>4
  <1>5. LoadSelectedTrash(s, force) =
          {[s EXCEPT !.app.current = Nothing]} \union UNION {Row(n) : n \in Notes}
    BY DEF LoadSelectedTrash
  <1> HIDE DEF Row
  <1>6. QED BY <1>1, <1>4, <1>5

LEMMA SwitchingReads ==
    ASSUME NEW s, Sound(s), NEW t \in OnPanelSwitched(s)
    PROVE  Reads(s, t)
  <1>1. CASE t = s
    BY <1>1 DEF Reads, SameButCurrent
  <1>2. QED BY <1>1, TrashReads, AnyNoteReads DEF OnPanelSwitched

LEMMA PreviewReads ==
    ASSUME NEW s, Sound(s), NEW t \in Preview(s)
    PROVE  Reads(s, t) /\ (s.app.focus = "editor" => t = s)
  <1>1. CASE t = s
    BY <1>1 DEF Reads, SameButCurrent
  <1>2. QED BY <1>1, TrashReads DEF Preview

\* Without a draft, reading disturbs nothing.
LEMMA ReadingStaysGood ==
    ASSUME NEW s, Good(s), Loose(s), NEW t, Reads(s, t)
    PROVE  Good(t) /\ Loose(t)
  BY DEF Good, Fit, Reads, SameButCurrent, Loose, Together, HasItsNote

LEMMA PreviewStaysGood ==
    ASSUME NEW s, Good(s), NEW t \in Preview(s)
    PROVE  /\ Good(t) /\ t.store = s.store /\ t.left = s.left
           /\ SameButCurrent(s.app, t.app)
           /\ s.app.focus = "editor" => t = s
  <1>1. Reads(s, t) /\ (s.app.focus = "editor" => t = s)
    BY PreviewReads DEF Good, Fit
  <1>2. CASE Loose(s)
    BY <1>1, <1>2, ReadingStaysGood DEF Reads
  <1>3. CASE ~Loose(s)
    BY <1>1, <1>3 DEF Good, Loose, Together, Reads, SameButCurrent
  <1>4. QED BY <1>2, <1>3, <1>1 DEF Reads

-----------------------------------------------------------------------------
(* Writing                                                                 *)

\* Notes only come about, and a revision is of one text.
Advances(st, new) ==
  \A n \in Notes : st[n].place # "absent" =>
    /\ new[n].place # "absent"
    /\ st[n].rev <= new[n].rev
    /\ st[n].rev = new[n].rev => st[n].text = new[n].text

\* What a note may become.
Follows(file, st, n) ==
  /\ file.place \in {"live", "trash"}
  /\ \/ file.rev = st[n].rev /\ file.text = st[n].text
     \/ file.rev = st[n].rev + 1

AsRead(st, doc) ==
  [id |-> doc.id, text |-> st[doc.id].text, rev |-> st[doc.id].rev,
   trash |-> st[doc.id].place = "trash"] = doc

LEMMA FilesAre ==
    ASSUME NEW st \in [Notes -> Files], NEW n \in Notes
    PROVE  /\ st[n] \in Files /\ st[n].rev \in Nat /\ st[n].text \in Texts
           /\ st[n].place \in {"absent", "live", "trash"}
  <1>1. st[n] \in Files
    OBVIOUS
  <1>2. QED BY <1>1, NothingAssumption DEF Files

LEMMA StaysKnown ==
    ASSUME NEW st \in [Notes -> Files], NEW new \in [Notes -> Files], Advances(st, new),
           NEW d \in Loaded \union {Nothing}, Known(d, st)
    PROVE  Known(d, new)
  <1> SUFFICES ASSUME d # Nothing PROVE Known(d, new)
    BY DEF Known
  <1>1. d \in Loaded
    OBVIOUS
  <1>2. d.id \in Notes /\ d.rev \in Nat
    BY <1>1, NothingAssumption DEF Loaded
  <1>3. /\ st[d.id].place # "absent" /\ d.rev <= st[d.id].rev
        /\ (d.rev = st[d.id].rev => d.text = st[d.id].text)
    BY DEF Known
  <1>4. /\ new[d.id].place # "absent" /\ st[d.id].rev <= new[d.id].rev
        /\ (st[d.id].rev = new[d.id].rev => st[d.id].text = new[d.id].text)
    BY <1>2, <1>3 DEF Advances
  <1>5. st[d.id].rev \in Nat /\ new[d.id].rev \in Nat
    BY <1>2, FilesAre
  <1>6. \A x, y, z \in Nat : x <= y /\ y <= z => x <= z /\ (x = z => x = y /\ y = z)
    OBVIOUS
  <1>7. d.rev <= new[d.id].rev
        /\ (d.rev = new[d.id].rev => d.rev = st[d.id].rev /\ st[d.id].rev = new[d.id].rev)
    BY <1>2, <1>3, <1>4, <1>5, <1>6
  <1>8. QED BY <1>3, <1>4, <1>7 DEF Known

LEMMA StayingAdvances ==
    ASSUME NEW st \in [Notes -> Files]
    PROVE  Advances(st, st)
  <1>1. \A x \in Nat : x <= x
    OBVIOUS
  <1>2. QED BY <1>1, FilesAre DEF Advances

LEMMA AdvancingOn ==
    ASSUME NEW a \in [Notes -> Files], NEW b \in [Notes -> Files], NEW c \in [Notes -> Files],
           Advances(a, b), Advances(b, c)
    PROVE  Advances(a, c)
  <1> SUFFICES ASSUME NEW n \in Notes, a[n].place # "absent"
               PROVE  /\ c[n].place # "absent" /\ a[n].rev <= c[n].rev
                      /\ a[n].rev = c[n].rev => a[n].text = c[n].text
    BY DEF Advances
  <1>1. a[n].rev \in Nat /\ b[n].rev \in Nat /\ c[n].rev \in Nat
    BY FilesAre
  <1>2. /\ b[n].place # "absent" /\ a[n].rev <= b[n].rev
        /\ (a[n].rev = b[n].rev => a[n].text = b[n].text)
    BY DEF Advances
  <1>3. /\ c[n].place # "absent" /\ b[n].rev <= c[n].rev
        /\ (b[n].rev = c[n].rev => b[n].text = c[n].text)
    BY <1>2 DEF Advances
  <1>4. \A x, y, z \in Nat : x <= y /\ y <= z => x <= z /\ (x = z => x = y /\ y = z)
    OBVIOUS
  <1>5. a[n].rev <= c[n].rev /\ (a[n].rev = c[n].rev => a[n].rev = b[n].rev /\ b[n].rev = c[n].rev)
    BY <1>1, <1>2, <1>3, <1>4
  <1>6. QED BY <1>2, <1>3, <1>5

LEMMA FollowingAdvances ==
    ASSUME NEW st \in [Notes -> Files], NEW n \in Notes, NEW file \in Files, Follows(file, st, n)
    PROVE  /\ [st EXCEPT ![n] = file] \in [Notes -> Files]
           /\ Advances(st, [st EXCEPT ![n] = file])
  <1> DEFINE new == [st EXCEPT ![n] = file]
  <1>1. new \in [Notes -> Files]
    OBVIOUS
  <1>2. ASSUME NEW m \in Notes, st[m].place # "absent"
        PROVE  /\ new[m].place # "absent" /\ st[m].rev <= new[m].rev
               /\ st[m].rev = new[m].rev => st[m].text = new[m].text
    <2>1. st[m].rev \in Nat
      BY FilesAre
    <2>2. CASE m # n
      <3>1. new[m] = st[m]
        BY <2>2
      <3>2. \A x \in Nat : x <= x
        OBVIOUS
      <3>3. QED BY <1>2, <2>1, <3>1, <3>2
    <2>3. CASE m = n
      <3>1. new[m] = file
        BY <2>3
      <3>2. \A x \in Nat : x <= x /\ x <= x + 1 /\ x # x + 1
        OBVIOUS
      <3>3. QED BY <2>1, <2>3, <3>1, <3>2 DEF Follows
    <2>4. QED BY <2>2, <2>3
  <1>3. QED BY <1>1, <1>2 DEF Advances

LEMMA MakingFollows ==
    ASSUME NEW s, Sound(s), NEW doc \in Loaded, Known(doc, s.store), doc # Nothing
    PROVE  /\ \A text \in Texts : Follows(Rewritten(s, doc, text), s.store, doc.id)
           /\ \A place \in {"live", "trash"} : Follows(Moved(s, doc, place), s.store, doc.id)
  <1>1. s.store \in [Notes -> Files] /\ doc.id \in Notes
    BY DEF Sound, Situation, Loaded
  <1>2. s.store[doc.id] \in Files
    BY <1>1
  <1>3. \A text \in Texts : Follows(Rewritten(s, doc, text), s.store, doc.id)
    BY DEF Follows, Rewritten
  <1>4. \A place \in {"live", "trash"} : Follows(Moved(s, doc, place), s.store, doc.id)
    BY <1>2 DEF Follows, Moved, Files
  <1>5. QED BY <1>3, <1>4

\* One call that writes: nothing happens, or the note that was read becomes file.
LEMMA Performing ==
    ASSUME NEW s, Sound(s), NEW doc \in Loaded, doc # Nothing, Known(doc, s.store),
           NEW file, Follows(file, s.store, doc.id), NEW r \in Perform(s, doc, file)
    PROVE  /\ Sound(r.to) /\ r.to.app = s.app /\ r.to.left = s.left
           /\ Advances(s.store, r.to.store)
           /\ r.answer \in {"ok", "refused", "conflict"}
           /\ \/ r.to = s /\ r.answer # "ok"
              \/ /\ r.to.store = [s.store EXCEPT ![doc.id] = file] /\ r.answer # "conflict"
                 /\ file \in Files /\ AsRead(s.store, doc)
  <1> DEFINE there == s.store[doc.id].place = IF doc.trash THEN "trash" ELSE "live"
             new == [s.store EXCEPT ![doc.id] = file]
             done == [s EXCEPT !.store = new]
  <1>1. /\ s.store \in [Notes -> Files] /\ doc.id \in Notes /\ s.app \in App
        /\ s.left \in SUBSET Texting
    BY DEF Sound, Situation, Loaded
  <1>2. CASE r.to = s /\ r.answer \in {"refused", "conflict"}
    BY <1>1, <1>2, StayingAdvances
  <1>3. CASE /\ there /\ AtItsRevision(s, doc) /\ file \in Files
             /\ r.to = done /\ r.answer \in {"ok", "refused"}
    <2>1. new \in [Notes -> Files] /\ Advances(s.store, new)
      BY <1>1, <1>3, FollowingAdvances
    <2> HIDE DEF new
    <2>2. done \in Situation /\ done.store = new /\ done.app = s.app /\ done.left = s.left
      BY <1>1, <2>1 DEF Sound, Situation
    <2> HIDE DEF done
    <2>3. s.app.current \in Loaded \union {Nothing} /\ s.app.asked \in Loaded \union {Nothing}
      BY <1>1 DEF App, Live
    <2>4. Sound(done)
      BY <1>1, <2>1, <2>2, <2>3, StaysKnown DEF Sound
    <2>5. AsRead(s.store, doc)
      <3>1. s.store[doc.id].rev = doc.rev
        BY <1>3 DEF AtItsRevision
      <3>2. s.store[doc.id].text = doc.text
        BY <3>1 DEF Known
      <3>3. doc.trash \in BOOLEAN /\ doc.trash = (s.store[doc.id].place = "trash")
        BY <1>3 DEF Loaded
      <3>4. doc = [id |-> doc.id, text |-> doc.text, rev |-> doc.rev, trash |-> doc.trash]
        BY DEF Loaded
      <3>5. QED BY <3>1, <3>2, <3>3, <3>4 DEF AsRead
    <2>6. QED BY <1>3, <2>1, <2>2, <2>4, <2>5 DEF new
  <1>4. \/ r = [to |-> s, answer |-> "refused"]
        \/ r = [to |-> s, answer |-> "conflict"]
        \/ /\ there /\ AtItsRevision(s, doc) /\ file \in Files
           /\ r \in {[to |-> done, answer |-> "ok"], [to |-> done, answer |-> "refused"]}
    <2>1. CASE there /\ AtItsRevision(s, doc) /\ file \in Files
      BY <2>1 DEF Perform
    <2>2. CASE there /\ ~AtItsRevision(s, doc)
      BY <2>2 DEF Perform
    <2>3. CASE ~(there /\ AtItsRevision(s, doc) /\ file \in Files) /\ ~(there /\ ~AtItsRevision(s, doc))
      BY <2>3 DEF Perform
    <2>4. QED BY <2>1, <2>2, <2>3
  <1> HIDE DEF there, done
  <1>5. QED BY <1>2, <1>3, <1>4

-----------------------------------------------------------------------------
(* The draft                                                               *)

\* A handler that writes nothing.
Quietly(s, t) == Good(t) /\ t.store = s.store /\ t.left = s.left

\* A handler that writes doc at most, as it was read.
OnlyOn(s, t, doc) ==
  \/ t.store = s.store
  \/ /\ doc # Nothing /\ AsRead(s.store, doc)
     /\ \E file : t.store = [s.store EXCEPT ![doc.id] = file]

Works(s, t, doc) ==
  Good(t) /\ t.left = s.left /\ Advances(s.store, t.store) /\ OnlyOn(s, t, doc)

LEMMA QuietWorks ==
    ASSUME NEW s, Sound(s), NEW t, Quietly(s, t), NEW doc
    PROVE  Works(s, t, doc)
  BY StayingAdvances DEF Quietly, Works, OnlyOn, Sound, Situation

\* A situation with other fields of the program.
LEMMA Refitting ==
    ASSUME NEW s, Sound(s), NEW a \in App, Known(a.current, s.store), Known(a.asked, s.store),
           NEW t, t = [s EXCEPT !.app = a]
    PROVE  Sound(t) /\ t.app = a /\ t.store = s.store /\ t.left = s.left
  <1>1. /\ t \in Situation /\ t.app = a /\ t.store = s.store /\ t.left = s.left
    BY DEF Sound, Situation
  <1>2. QED BY <1>1 DEF Sound

LEMMA FocusingStays ==
    ASSUME NEW s, Good(s), Loose(s),
           NEW focus \in {"list", "search", "reader", "editor"}
    PROVE  /\ Quietly(s, [s EXCEPT !.app.focus = focus])
           /\ Loose([s EXCEPT !.app.focus = focus])
           /\ [s EXCEPT !.app.focus = focus].app.click = s.app.click
           /\ [s EXCEPT !.app.focus = focus].app.asked = s.app.asked
           /\ [s EXCEPT !.app.focus = focus].app.panel = s.app.panel
           /\ [s EXCEPT !.app.focus = focus].app.current = s.app.current
  <1> DEFINE a == [s.app EXCEPT !.focus = focus]
             t == [s EXCEPT !.app = a]
  <1>1. s.app \in App
    BY DEF Good, Fit, Sound, Situation
  <1>2. /\ a \in App /\ a.up = s.app.up /\ a.current = s.app.current /\ a.asked = s.app.asked
        /\ a.on = s.app.on /\ a.draft = s.app.draft
        /\ a.click = s.app.click /\ a.panel = s.app.panel
    BY <1>1 DEF App
  <1> HIDE DEF a
  <1>3. Sound(t) /\ t.app = a /\ t.store = s.store /\ t.left = s.left
    BY <1>2, Refitting DEF Good, Fit, Sound
  <1> HIDE DEF t
  <1>4. Quietly(s, t)
    BY <1>2, <1>3 DEF Quietly, Good, Fit, Loose, Together, HasItsNote
  <1>5. Loose(t)
    BY <1>2, <1>3 DEF Loose
  <1>6. QED BY <1>2, <1>3, <1>4, <1>5 DEF t, a

LEMMA StartingStays ==
    ASSUME NEW s, Good(s), Loose(s), NEW t \in StartEditing(s)
    PROVE  Quietly(s, t)
  <1>1. CASE Editable(s.app)
    <2> DEFINE a == [s.app EXCEPT !.draft = s.app.current.text, !.on = s.app.current,
                                  !.prompt = "none", !.focus = "editor"]
    <2>1. s.app \in App /\ s.app.current \in Live
      BY <1>1 DEF Editable, Good, Fit, Sound, Situation, App, Live
    <2>2. /\ a \in App /\ a.up = s.app.up /\ a.current = s.app.current /\ a.asked = s.app.asked
          /\ a.on = a.current /\ a.on # Nothing /\ a.draft # Nothing /\ a.focus = "editor"
      BY <2>1, NothingAssumption, NothingIsNoRecord DEF App, Live, Loaded
    <2>3. t = [s EXCEPT !.app = a]
      BY <1>1, <2>1 DEF StartEditing, Good, Fit, Sound, Situation, App
    <2> HIDE DEF a
    <2>4. Sound(t) /\ t.app = a /\ t.store = s.store /\ t.left = s.left
      BY <2>2, <2>3, Refitting DEF Good, Fit, Sound
    <2>5. QED BY <2>2, <2>4 DEF Quietly, Good, Fit, Loose, Together, HasItsNote
  <1>2. CASE ~Editable(s.app)
    BY <1>2, FocusingStays DEF StartEditing
  <1>3. QED BY <1>1, <1>2

LEMMA ClosingStays ==
    ASSUME NEW s, Sound(s), s.app.up, NEW t \in {CloseEditor(s), LeaveAfterAnswer(s)}
    PROVE  /\ Quietly(s, t) /\ Loose(t) /\ t.app.focus = "reader"
           /\ t.app.click = s.app.click /\ t.app.panel = s.app.panel
  <1> DEFINE c == [s.app EXCEPT !.draft = Nothing, !.on = Nothing, !.prompt = "none",
                                !.focus = "reader"]
             l == [c EXCEPT !.quit = s.app.quit \/ s.app.leaving, !.leaving = FALSE]
  <1>1. s.app \in App
    BY DEF Sound, Situation
  <1>2. /\ c \in App /\ c.up = s.app.up /\ c.current = s.app.current /\ c.asked = s.app.asked
        /\ c.on = Nothing /\ c.draft = Nothing
        /\ c.focus = "reader" /\ c.click = s.app.click /\ c.panel = s.app.panel
    BY <1>1 DEF App
  <1>3. CloseEditor(s) = [s EXCEPT !.app = c]
    BY <1>1 DEF CloseEditor, Sound, Situation, App
  <1>4. (s.app.quit \/ s.app.leaving) \in BOOLEAN
    OBVIOUS
  <1> HIDE DEF c
  <1>5. /\ l \in App /\ l.up = s.app.up /\ l.current = s.app.current /\ l.asked = s.app.asked
        /\ l.on = Nothing /\ l.draft = Nothing
        /\ l.focus = "reader" /\ l.click = s.app.click /\ l.panel = s.app.panel
    BY <1>2 DEF App
  <1>6. LeaveAfterAnswer(s) = [s EXCEPT !.app = l]
    BY <1>2, <1>3 DEF LeaveAfterAnswer, Sound, Situation, App
  <1> HIDE DEF l
  <1>7. PICK a \in {c, l} : t = [s EXCEPT !.app = a]
    BY <1>3, <1>6
  <1>8. Sound(t) /\ t.app = a /\ t.store = s.store /\ t.left = s.left
    BY <1>2, <1>5, <1>7, Refitting DEF Sound
  <1>9. QED BY <1>2, <1>5, <1>8 DEF Quietly, Good, Fit, Loose, Together, HasItsNote

\* The draft continues from what was read.
LEMMA ReseatingStays ==
    ASSUME NEW s, Sound(s), s.app.up, OnScreenIsLive(s), s.app.focus = "editor",
           s.app.asked = Nothing, NEW t \in Reseat(s)
    PROVE  /\ Quietly(s, t) /\ t.app.focus = "editor" /\ t.app.asked = Nothing
           /\ t.app.prompt = s.app.prompt /\ t.app.click = s.app.click
  <1> DEFINE draft == IF s.app.current = Nothing THEN Nothing ELSE s.app.current.text
             a == [s.app EXCEPT !.draft = draft, !.on = s.app.current]
  <1>1. s.app \in App /\ s.app.current \in Live \union {Nothing}
    BY DEF Sound, Situation, OnScreenIsLive
  <1>2. draft \in Texts \union {Nothing} /\ (draft = Nothing <=> s.app.current = Nothing)
    BY <1>1, NothingAssumption DEF Live, Loaded
  <1>3. t = [s EXCEPT !.app = a]
    BY <1>1 DEF Reseat, Sound, Situation, App
  <1> HIDE DEF draft
  <1>4. /\ a \in App /\ a.up = s.app.up /\ a.current = s.app.current /\ a.asked = Nothing
        /\ a.on = a.current /\ a.draft = draft
        /\ a.focus = "editor" /\ a.prompt = s.app.prompt /\ a.click = s.app.click
    BY <1>1, <1>2 DEF App
  <1> HIDE DEF a
  <1>5. Sound(t) /\ t.app = a /\ t.store = s.store /\ t.left = s.left
    BY <1>3, <1>4, Refitting DEF Sound
  <1>6. QED BY <1>2, <1>4, <1>5 DEF Quietly, Good, Fit, Loose, Together, HasItsNote

LEMMA RereadingStays ==
    ASSUME NEW s, Sound(s), s.app.up, s.app.focus = "editor", s.app.asked = Nothing,
           NEW n \in Notes, NEW t \in Then(ReloadNote(s, n), Reseat)
    PROVE  /\ Quietly(s, t) /\ t.app.focus = "editor" /\ t.app.asked = Nothing
           /\ t.app.prompt = s.app.prompt /\ t.app.click = s.app.click
  <1>1. PICK u \in ReloadNote(s, n) : t \in Reseat(u)
    BY DEF Then
  <1>2. Reads(s, u) /\ OnScreenIsLive(u)
    BY ReloadingReads
  <1>3. /\ Sound(u) /\ u.app.up /\ u.app.focus = "editor" /\ u.app.asked = Nothing
        /\ u.app.prompt = s.app.prompt /\ u.app.click = s.app.click
        /\ u.store = s.store /\ u.left = s.left
    BY <1>2 DEF Reads, SameButCurrent
  <1>4. QED BY <1>1, <1>2, <1>3, ReseatingStays DEF Quietly

LEMMA RereadIntoEditorStays ==
    ASSUME NEW s, Good(s), s.app.focus = "editor", s.app.asked = Nothing,
           NEW t \in RereadIntoEditor(s)
    PROVE  Quietly(s, t) /\ t.app.focus = "editor"
  <1>1. CASE s.app.current = Nothing
    BY <1>1 DEF RereadIntoEditor, Quietly
  <1>2. CASE s.app.current # Nothing
    <2>1. s.app.current.id \in Notes
      BY <1>2 DEF Good, Fit, Sound, Situation, App, Loaded
    <2>2. QED BY <1>2, <2>1, RereadingStays DEF RereadIntoEditor, Good, Fit
  <1>3. QED BY <1>1, <1>2

-----------------------------------------------------------------------------
(* The handlers that write                                                 *)

LEMMA PerformedOn ==
    ASSUME NEW s, Sound(s), NEW doc \in Loaded, doc # Nothing, Known(doc, s.store),
           NEW file, Follows(file, s.store, doc.id), NEW r \in Perform(s, doc, file)
    PROVE  OnlyOn(s, r.to, doc)
  <1>1. \/ r.to = s
        \/ r.to.store = [s.store EXCEPT ![doc.id] = file] /\ AsRead(s.store, doc)
    BY Performing
  <1>2. QED BY <1>1 DEF OnlyOn

\* A note that is written, and what is read then.
LEMMA ReadingAfter ==
    ASSUME NEW s, Good(s), Loose(s), NEW doc, NEW u, Sound(u), u.app = s.app,
           u.left = s.left, Advances(s.store, u.store), OnlyOn(s, u, doc), NEW t, Reads(u, t)
    PROVE  Works(s, t, doc) /\ Loose(t) /\ SameButCurrent(s.app, t.app)
  <1>1. Good(u) /\ Loose(u)
    BY DEF Good, Fit, Loose
  <1>2. Good(t) /\ Loose(t)
    BY <1>1, ReadingStaysGood
  <1>3. t.store = u.store /\ t.left = u.left /\ SameButCurrent(u.app, t.app)
    BY DEF Reads
  <1>4. QED BY <1>2, <1>3 DEF Works, OnlyOn

\* Ctrl+S: the draft is in the store, or it is where it was.
LEMMA SavingWorks ==
    ASSUME NEW s, Good(s), s.app.focus = "editor", s.app.asked = Nothing, NEW t \in SaveDraft(s)
    PROVE  /\ Works(s, t, s.app.current)
           /\ t.app.focus = "editor" /\ t.app.asked = Nothing /\ t.app.click = s.app.click
           /\ t.store # s.store => Pending(s.app)
           /\ Pending(s.app) =>
                \/ t.store[s.app.current.id].text = Canonical[s.app.draft]
                \/ t = s
                \/ t.app.prompt = "conflict" /\ t.app.draft = s.app.draft /\ t.app.on = s.app.on
  <1>1. CASE t = s /\ ~(Editable(s.app) /\ Pending(s.app))
    BY <1>1, QuietWorks DEF Quietly, Good, Fit
  <1>2. CASE Editable(s.app) /\ Pending(s.app)
    <2> DEFINE doc == s.app.current
               file == Rewritten(s, doc, s.app.draft)
    <2>1. /\ doc \in Loaded /\ doc # Nothing /\ Known(doc, s.store) /\ s.app.draft \in Texts
          /\ s.app \in App /\ s.store \in [Notes -> Files] /\ doc.id \in Notes
      BY <1>2 DEF Editable, Pending, Good, Fit, Sound, Situation, App, Loaded
    <2>2. Follows(file, s.store, doc.id)
      BY <2>1, MakingFollows DEF Good, Fit
    <2>3. PICK r \in Perform(s, doc, file) :
            t \in CASE r.answer = "ok" -> Then(ReloadNote(r.to, doc.id), Reseat)
                    [] r.answer = "conflict" -> {[r.to EXCEPT !.app.prompt = "conflict"]}
                    [] r.answer = "refused" -> {r.to}
      BY <1>2 DEF SaveDraft
    <2> HIDE DEF file
    <2>4. /\ Sound(r.to) /\ r.to.app = s.app /\ r.to.left = s.left
          /\ Advances(s.store, r.to.store)
          /\ r.answer \in {"ok", "refused", "conflict"}
          /\ \/ r.to = s /\ r.answer # "ok"
             \/ /\ r.to.store = [s.store EXCEPT ![doc.id] = file] /\ r.answer # "conflict"
                /\ file \in Files /\ AsRead(s.store, doc)
      BY <2>1, <2>2, Performing DEF Good, Fit
    <2>5. OnlyOn(s, r.to, doc)
      BY <2>1, <2>2, PerformedOn DEF Good, Fit
    <2>6. r.to = s \/ r.to.store[doc.id].text = Canonical[s.app.draft]
      BY <2>1, <2>4 DEF file, Rewritten
    <2>7. CASE r.answer = "ok"
      <3>1. t \in Then(ReloadNote(r.to, doc.id), Reseat)
        BY <2>3, <2>7
      <3>2. /\ Quietly(r.to, t) /\ t.app.focus = "editor" /\ t.app.asked = Nothing
            /\ t.app.click = s.app.click
        BY <2>1, <2>4, <3>1, RereadingStays DEF Good, Fit
      <3>3. Good(t) /\ t.left = s.left /\ t.store = r.to.store
        BY <2>4, <3>2 DEF Quietly
      <3>4. OnlyOn(s, t, doc)
        BY <2>5, <3>3 DEF OnlyOn
      <3>5. Works(s, t, doc)
        BY <2>4, <3>3, <3>4 DEF Works
      <3>6. t.store[doc.id].text = Canonical[s.app.draft]
        BY <2>1, <2>4, <2>7, <3>3 DEF file, Rewritten
      <3>7. QED BY <1>2, <3>2, <3>5, <3>6
    <2>8. CASE r.answer = "conflict"
      <3> DEFINE a == [s.app EXCEPT !.prompt = "conflict"]
      <3>1. t = [s EXCEPT !.app = a] /\ r.to = s
        BY <2>3, <2>4, <2>8
      <3>2. /\ a \in App /\ a.up = s.app.up /\ a.current = s.app.current /\ a.asked = Nothing
            /\ a.on = s.app.on /\ a.draft = s.app.draft
            /\ a.focus = "editor" /\ a.draft = s.app.draft /\ a.prompt = "conflict"
            /\ a.click = s.app.click
        BY <2>1 DEF App
      <3> HIDE DEF a
      <3>3. Sound(t) /\ t.app = a /\ t.store = s.store /\ t.left = s.left
        BY <3>1, <3>2, Refitting DEF Good, Fit, Sound
      <3>4. Quietly(s, t)
        BY <3>2, <3>3 DEF Quietly, Good, Fit, Loose, Together, HasItsNote
      <3>5. QED BY <3>2, <3>3, <3>4, QuietWorks DEF Good, Fit
    <2>9. CASE r.answer = "refused"
      <3>1. t = r.to
        BY <2>3, <2>9
      <3>2. Good(t)
        BY <2>4, <3>1 DEF Good, Fit
      <3>3. QED BY <1>2, <2>4, <2>5, <2>6, <3>1, <3>2 DEF Works
    <2>10. QED BY <2>4, <2>7, <2>8, <2>9
  <1>3. QED BY <1>1, <1>2 DEF SaveDraft

\* mutation_error reads, whatever the answer was.
LEMMA ErrorReads ==
    ASSUME NEW r, Sound(r.to), r.answer \in {"refused", "conflict"}, NEW doc \in Loaded,
           NEW t \in MutationError(r, doc)
    PROVE  Reads(r.to, t)
  <1>1. CASE r.answer = "refused"
    BY <1>1 DEF MutationError, Reads, SameButCurrent
  <1>2. CASE r.answer = "conflict" /\ doc.trash
    <2>1. t \in LoadSelectedTrash(r.to, TRUE)
      BY <1>2 DEF MutationError
    <2>2. QED BY <2>1, TRUE \in BOOLEAN, TrashReads
  <1>3. CASE r.answer = "conflict" /\ ~doc.trash
    <2>1. t \in ReloadNote(r.to, doc.id) /\ doc.id \in Notes
      BY <1>3 DEF MutationError, Loaded
    <2>2. QED BY <2>1, ReloadingReads
  <1>4. QED BY <1>1, <1>2, <1>3

LEMMA TogglingWorks ==
    ASSUME NEW s, Good(s), Loose(s), NEW t \in ToggleTask(s)
    PROVE  Works(s, t, s.app.current) /\ Loose(t)
  <1>1. CASE t = s
    BY <1>1, QuietWorks DEF Quietly, Good, Fit
  <1>2. CASE Editable(s.app) /\ t # s
    <2> DEFINE doc == s.app.current
               Ok(u) == ReloadNote(u, doc.id)
    <2>1. doc \in Loaded /\ doc # Nothing /\ Known(doc, s.store) /\ doc.id \in Notes /\ Sound(s)
      BY <1>2 DEF Editable, Good, Fit, Sound, Situation, App, Loaded
    <2>2. PICK text \in Texts : t \in Mutate(s, doc, Rewritten(s, doc, text), Ok)
      BY <1>2 DEF ToggleTask
    <2> DEFINE file == Rewritten(s, doc, text)
    <2>3. Follows(file, s.store, doc.id)
      BY <2>1, MakingFollows
    <2>4. PICK r \in Perform(s, doc, file) :
            t \in IF r.answer = "ok" THEN ReloadNote(r.to, doc.id) ELSE MutationError(r, doc)
      BY <2>2 DEF Mutate
    <2> HIDE DEF file, doc
    <2>5. /\ Sound(r.to) /\ r.to.app = s.app /\ r.to.left = s.left
          /\ Advances(s.store, r.to.store)
          /\ r.answer \in {"ok", "refused", "conflict"}
          /\ \/ r.to = s /\ r.answer # "ok"
             \/ /\ r.to.store = [s.store EXCEPT ![doc.id] = file] /\ r.answer # "conflict"
                /\ file \in Files /\ AsRead(s.store, doc)
      BY <2>1, <2>3, Performing
    <2>6. OnlyOn(s, r.to, doc)
      BY <2>1, <2>3, PerformedOn
    <2>7. Reads(r.to, t)
      BY <2>1, <2>4, <2>5, ErrorReads, ReloadingReads
    <2>8. QED BY <2>5, <2>6, <2>7, ReadingAfter DEF doc
  <1>3. QED BY <1>1, <1>2 DEF ToggleTask

LEMMA DiscardedIs ==
    ASSUME NEW s, Sound(s), NEW t \in Discarded(s)
    PROVE  /\ Sound(t) /\ t.store = s.store /\ t.left = s.left
           /\ t.app.on = s.app.on /\ t.app.draft = s.app.draft
           /\ t.app.asked = s.app.asked /\ t.app.up = s.app.up
  <1> DEFINE a == [s.app EXCEPT !.current = Nothing, !.panel = "notes", !.focus = "list"]
             u == [s EXCEPT !.app = a]
  <1>1. s.app \in App
    BY DEF Sound, Situation
  <1>2. /\ a \in App /\ a.up = s.app.up /\ a.current = Nothing /\ a.asked = s.app.asked
        /\ a.on = s.app.on /\ a.draft = s.app.draft
    BY <1>1 DEF App
  <1>3. t \in OnPanelSwitched(u)
    BY <1>1 DEF Discarded, Sound, Situation, App
  <1> HIDE DEF a
  <1>4. Sound(u) /\ u.app = a /\ u.store = s.store /\ u.left = s.left
    BY <1>2, Refitting DEF Sound, Known
  <1> HIDE DEF u
  <1>5. Reads(u, t)
    BY <1>3, <1>4, SwitchingReads
  <1>6. QED BY <1>2, <1>4, <1>5 DEF Reads, SameButCurrent

\* The draft and what it was opened on stay, whatever comes on screen.
LEMMA DiscardingWorks ==
    ASSUME NEW s, Fit(s), NEW doc \in Live, doc # Nothing, Known(doc, s.store),
           NEW t \in Discard(s, doc)
    PROVE  /\ Fit(t) /\ t.left = s.left /\ Advances(s.store, t.store) /\ OnlyOn(s, t, doc)
           /\ t.app.draft = s.app.draft /\ t.app.on = s.app.on
  <1> DEFINE file == Moved(s, doc, "trash")
  <1>1. doc \in Loaded /\ doc.id \in Notes /\ Sound(s)
    BY DEF Live, Loaded, Fit
  <1>2. Follows(file, s.store, doc.id)
    BY <1>1, MakingFollows
  <1>3. PICK r \in Perform(s, doc, file) :
          t \in IF r.answer = "ok" THEN Discarded(r.to) ELSE MutationError(r, doc)
    BY DEF Discard, Mutate
  <1> HIDE DEF file
  <1>4. /\ Sound(r.to) /\ r.to.app = s.app /\ r.to.left = s.left
        /\ Advances(s.store, r.to.store)
        /\ r.answer \in {"ok", "refused", "conflict"}
        /\ \/ r.to = s /\ r.answer # "ok"
           \/ /\ r.to.store = [s.store EXCEPT ![doc.id] = file] /\ r.answer # "conflict"
              /\ file \in Files /\ AsRead(s.store, doc)
    BY <1>1, <1>2, Performing
  <1>5. OnlyOn(s, r.to, doc)
    BY <1>1, <1>2, PerformedOn
  <1>6. /\ Sound(t) /\ t.store = r.to.store /\ t.left = s.left
        /\ t.app.on = s.app.on /\ t.app.draft = s.app.draft /\ t.app.up = s.app.up
    <2>1. CASE r.answer = "ok"
      BY <1>3, <1>4, <2>1, DiscardedIs
    <2>2. CASE r.answer # "ok"
      <3>1. Reads(r.to, t)
        BY <1>1, <1>3, <1>4, <2>2, ErrorReads
      <3>2. QED BY <1>4, <3>1 DEF Reads, SameButCurrent
    <2>3. QED BY <2>1, <2>2
  <1>7. Fit(t)
    BY <1>6 DEF Fit, HasItsNote
  <1>8. QED BY <1>4, <1>5, <1>6, <1>7 DEF OnlyOn

LEMMA RestoringWorks ==
    ASSUME NEW s, Good(s), Loose(s), NEW t \in RestoreSelected(s)
    PROVE  Works(s, t, s.app.current)
  <1>1. CASE t = s
    BY <1>1, QuietWorks DEF Quietly, Good, Fit
  <1>2. CASE ~(s.app.current = Nothing \/ Editable(s.app))
    <2> DEFINE doc == s.app.current
               Ok(u) == LoadSelectedTrash(u, TRUE)
               file == Moved(s, doc, "live")
    <2>1. doc \in Loaded /\ doc # Nothing /\ Known(doc, s.store) /\ doc.id \in Notes /\ Sound(s)
      BY <1>2 DEF Good, Fit, Sound, Situation, App, Loaded
    <2>2. t \in Mutate(s, doc, file, Ok)
      BY <1>2 DEF RestoreSelected
    <2>3. Follows(file, s.store, doc.id)
      BY <2>1, MakingFollows
    <2>4. PICK r \in Perform(s, doc, file) :
            t \in IF r.answer = "ok" THEN LoadSelectedTrash(r.to, TRUE) ELSE MutationError(r, doc)
      BY <2>2 DEF Mutate
    <2> HIDE DEF file, doc
    <2>5. /\ Sound(r.to) /\ r.to.app = s.app /\ r.to.left = s.left
          /\ Advances(s.store, r.to.store)
          /\ r.answer \in {"ok", "refused", "conflict"}
          /\ \/ r.to = s /\ r.answer # "ok"
             \/ /\ r.to.store = [s.store EXCEPT ![doc.id] = file] /\ r.answer # "conflict"
                /\ file \in Files /\ AsRead(s.store, doc)
      BY <2>1, <2>3, Performing
    <2>6. OnlyOn(s, r.to, doc)
      BY <2>1, <2>3, PerformedOn
    <2>7. Reads(r.to, t)
      <3>1. CASE r.answer = "ok"
        BY <2>4, <2>5, <3>1, TRUE \in BOOLEAN, TrashReads
      <3>2. CASE r.answer # "ok"
        BY <2>1, <2>4, <2>5, <3>2, ErrorReads
      <3>3. QED BY <3>1, <3>2
    <2>8. QED BY <2>5, <2>6, <2>7, ReadingAfter DEF doc
  <1>3. QED BY <1>1, <1>2 DEF RestoreSelected

LEMMA CreatingWorks ==
    ASSUME NEW s, Good(s), Loose(s), NEW t \in CreateNote(s)
    PROVE  /\ Good(t) /\ t.left = s.left /\ Advances(s.store, t.store)
           /\ \A n \in Notes : s.store[n].place # "absent" => t.store[n] = s.store[n]
  <1>1. CASE t = s
    BY <1>1, StayingAdvances DEF Good, Fit, Sound, Situation
  <1>2. CASE t # s
    <2>1. PICK n \in {m \in Notes : s.store[m].place = "absent"}, text \in Texts :
            t \in {Made(s, n, text)} \union Then(LoadNote(Made(s, n, text), n), StartEditing)
      BY <1>2 DEF CreateNote
    <2> DEFINE file == [place |-> "live", text |-> Canonical[text], rev |-> 0]
               new == [s.store EXCEPT ![n] = file]
               u == [s EXCEPT !.store = new]
    <2>2. s.store \in [Notes -> Files] /\ s.app \in App /\ s.left \in SUBSET Texting
      BY DEF Good, Fit, Sound, Situation
    <2>3. file \in Files
      BY CanonicalAssumption, NothingAssumption DEF Files
    <2>4. t = u \/ \E v \in LoadNote(u, n) : t \in StartEditing(v)
      <3>1. Made(s, n, text) = u
        BY DEF Made
      <3> HIDE DEF u
      <3>2. QED BY <2>1, <3>1 DEF Then
    <2> HIDE DEF file
    <2>5. /\ new \in [Notes -> Files]
          /\ \A m \in Notes : s.store[m].place # "absent" => new[m] = s.store[m]
      BY <2>1, <2>2, <2>3
    <2> HIDE DEF new
    <2>6. Advances(s.store, new)
      <3>1. \A x \in Nat : x <= x
        OBVIOUS
      <3>2. QED BY <2>2, <2>5, <3>1, FilesAre DEF Advances
    <2>7. u \in Situation /\ u.app = s.app /\ u.store = new /\ u.left = s.left
      BY <2>2, <2>5 DEF Situation, Good, Fit, Sound
    <2> HIDE DEF u
    <2>8. s.app.current \in Loaded \union {Nothing} /\ s.app.asked \in Loaded \union {Nothing}
      BY <2>2 DEF App, Live
    <2>9. Good(u) /\ Loose(u)
      BY <2>2, <2>5, <2>6, <2>7, <2>8, StaysKnown DEF Good, Fit, Sound, Loose
    <2>10. CASE t = u
      BY <2>5, <2>6, <2>7, <2>9, <2>10
    <2>11. ASSUME NEW v \in LoadNote(u, n), t \in StartEditing(v)
           PROVE  Good(t) /\ t.store = new /\ t.left = s.left
      <3>1. Good(v) /\ Loose(v) /\ v.store = new /\ v.left = s.left
        BY <2>7, <2>9, LoadingReads, ReadingStaysGood DEF Good, Fit, Reads
      <3>2. Quietly(v, t)
        BY <2>11, <3>1, StartingStays
      <3>3. QED BY <3>1, <3>2 DEF Quietly
    <2>12. QED BY <2>4, <2>5, <2>6, <2>10, <2>11
  <1>3. QED BY <1>1, <1>2

\* Opening a row, from whichever list.
LEMMA OpeningStays ==
    ASSUME NEW s, Good(s), Loose(s), NEW t \in Then(LoadAnyNote(s), StartEditing)
    PROVE  Quietly(s, t)
  <1>1. PICK u \in LoadAnyNote(s) : t \in StartEditing(u)
    BY DEF Then
  <1>2. Reads(s, u)
    BY AnyNoteReads DEF Good, Fit
  <1>3. Good(u) /\ Loose(u) /\ u.store = s.store /\ u.left = s.left
    BY <1>2, ReadingStaysGood DEF Reads
  <1>4. QED BY <1>1, <1>3, StartingStays DEF Quietly

LEMMA SwitchingStays ==
    ASSUME NEW s, Good(s), Loose(s), NEW panel \in {"notes", "trash"},
           NEW focus \in {"list", "search", "reader", "editor"},
           NEW t \in OnPanelSwitched([s EXCEPT !.app.panel = panel, !.app.focus = focus])
    PROVE  Quietly(s, t)
  <1> DEFINE a == [s.app EXCEPT !.panel = panel, !.focus = focus]
             u == [s EXCEPT !.app = a]
  <1>1. s.app \in App
    BY DEF Good, Fit, Sound, Situation
  <1>2. /\ a \in App /\ a.up = s.app.up /\ a.current = s.app.current /\ a.asked = s.app.asked
        /\ a.on = s.app.on /\ a.draft = s.app.draft
    BY <1>1 DEF App
  <1>3. t \in OnPanelSwitched(u)
    BY <1>1 DEF Good, Fit, Sound, Situation, App
  <1> HIDE DEF a
  <1>4. Sound(u) /\ u.app = a /\ u.store = s.store /\ u.left = s.left
    BY <1>2, Refitting DEF Good, Fit, Sound
  <1> HIDE DEF u
  <1>5. Good(u) /\ Loose(u)
    BY <1>2, <1>4 DEF Good, Fit, Loose, Together, HasItsNote
  <1>6. Reads(u, t)
    BY <1>3, <1>4, SwitchingReads
  <1>7. QED BY <1>4, <1>5, <1>6, ReadingStaysGood DEF Quietly, Reads

\* What a handler that may write does to the files and to the draft.
Leads(s, t) == Good(t) /\ t.left = s.left /\ Advances(s.store, t.store)

LEMMA QuietLeads ==
    ASSUME NEW s, Good(s), NEW t, Quietly(s, t)
    PROVE  Leads(s, t)
  BY StayingAdvances DEF Quietly, Leads, Good, Fit, Sound, Situation

LEMMA TogglingAfter ==
    ASSUME NEW s, Good(s), Loose(s),
           NEW t \in Then({s} \union LoadAnyNote(s), ToggleTask)
    PROVE  Leads(s, t)
  <1>1. PICK u \in {s} \union LoadAnyNote(s) : t \in ToggleTask(u)
    BY DEF Then
  <1>2. Good(u) /\ Loose(u) /\ u.store = s.store /\ u.left = s.left
    <2>1. CASE u = s
      BY <2>1
    <2>2. CASE u # s
      BY <1>1, <2>2, AnyNoteReads, ReadingStaysGood DEF Good, Fit, Reads
    <2>3. QED BY <2>1, <2>2
  <1>3. QED BY <1>1, <1>2, TogglingWorks DEF Works, Leads

LEMMA ClickLeads ==
    ASSUME NEW s, Good(s), Loose(s), NEW click \in Clicks, NEW t \in PerformClick(s, click)
    PROVE  Leads(s, t) /\ (click # "task" => Quietly(s, t))
  <1> DEFINE listed == [s EXCEPT !.app.focus = "list"]
  <1>1. /\ Quietly(s, listed) /\ Loose(listed)
        /\ listed.app.current = s.app.current
    BY FocusingStays
  <1>2. Good(listed) /\ listed.store = s.store /\ listed.left = s.left
    BY <1>1 DEF Quietly
  <1>3. CASE click \in {"notes", "trash"}
    <2>1. t \in OnPanelSwitched([listed EXCEPT !.app.panel = click])
      BY <1>3 DEF PerformClick
    <2> DEFINE a == [listed.app EXCEPT !.panel = click]
               u == [listed EXCEPT !.app = a]
    <2> HIDE DEF listed
    <2>2. /\ a \in App /\ a.up = listed.app.up /\ a.current = listed.app.current /\ a.asked = listed.app.asked
          /\ a.on = listed.app.on /\ a.draft = listed.app.draft
      BY <1>1, <1>2, <1>3 DEF Good, Fit, Sound, Situation, App
    <2> HIDE DEF a
    <2>3. Sound(u) /\ u.app = a /\ u.store = s.store /\ u.left = s.left
      BY <1>2, <2>2, Refitting DEF Good, Fit, Sound
    <2>4. Reads(u, t)
      BY <2>1, <2>3, SwitchingReads DEF a, u
    <2> HIDE DEF u
    <2>5. Good(u) /\ Loose(u)
      BY <1>1, <1>2, <2>2, <2>3 DEF Good, Fit, Loose, Together, HasItsNote
    <2>6. Quietly(s, t)
      BY <2>3, <2>4, <2>5, ReadingStaysGood DEF Quietly, Reads
    <2>7. QED BY <2>6, QuietLeads
  <1>4. CASE click = "search"
    <2>1. t = [s EXCEPT !.app.focus = "search"]
      BY <1>4 DEF PerformClick
    <2>2. QED BY <2>1, FocusingStays, QuietLeads
  <1>5. CASE click = "row" /\ s.app.panel = "notes"
    <2>1. t \in {listed} \union Then(LoadAnyNote(listed), StartEditing)
      BY <1>5 DEF PerformClick
    <2> HIDE DEF listed
    <2>2. Quietly(s, t)
      BY <1>1, <1>2, <2>1, OpeningStays DEF Quietly
    <2>3. QED BY <2>2, QuietLeads
  <1>6. CASE click = "row" /\ s.app.panel = "trash"
    <2>1. t \in {listed} \union
            {[u EXCEPT !.app.focus = "reader"] : u \in LoadSelectedTrash(listed, FALSE)}
      BY <1>6 DEF PerformClick
    <2> HIDE DEF listed
    <2>2. ASSUME NEW u \in LoadSelectedTrash(listed, FALSE), t = [u EXCEPT !.app.focus = "reader"]
          PROVE  Quietly(s, t)
      <3>1. Reads(listed, u)
        BY <1>2, FALSE \in BOOLEAN, TrashReads DEF Good, Fit
      <3>2. Good(u) /\ Loose(u) /\ u.store = s.store /\ u.left = s.left
        BY <1>1, <1>2, <3>1, ReadingStaysGood DEF Reads
      <3>3. QED BY <2>2, <3>2, FocusingStays DEF Quietly
    <2>3. Quietly(s, t)
      BY <1>1, <2>1, <2>2
    <2>4. QED BY <2>3, QuietLeads
  <1>7. CASE click = "task"
    <2>1. t \in Then({listed} \union LoadAnyNote(listed), ToggleTask)
      BY <1>7 DEF PerformClick
    <2> HIDE DEF listed
    <2>2. QED BY <1>1, <1>2, <1>7, <2>1, TogglingAfter DEF Leads
  <1>8. s.app.panel \in {"notes", "trash"}
    BY DEF Good, Fit, Sound, Situation, App
  <1>9. QED BY <1>3, <1>4, <1>5, <1>6, <1>7, <1>8, ClicksAssumption

LEMMA HeldLeads ==
    ASSUME NEW s, Good(s), Loose(s), NEW t \in HeldClick(s)
    PROVE  Leads(s, t) /\ (s.app.click # "task" => Quietly(s, t))
  <1>1. CASE s.app.click = Nothing
    <2>1. Quietly(s, t)
      BY <1>1 DEF HeldClick, Quietly
    <2>2. QED BY <2>1, QuietLeads
  <1>2. CASE s.app.click # Nothing
    <2> DEFINE a == [s.app EXCEPT !.click = Nothing]
               u == [s EXCEPT !.app = a]
    <2>1. s.app \in App /\ s.app.click \in Clicks
      BY <1>2 DEF Good, Fit, Sound, Situation, App
    <2>2. /\ a \in App /\ a.up = s.app.up /\ a.current = s.app.current /\ a.asked = s.app.asked
          /\ a.on = s.app.on /\ a.draft = s.app.draft
      BY <2>1 DEF App
    <2>3. t \in PerformClick(u, s.app.click)
      BY <1>2 DEF HeldClick
    <2> HIDE DEF a
    <2>4. Sound(u) /\ u.app = a /\ u.store = s.store /\ u.left = s.left
      BY <2>2, Refitting DEF Good, Fit, Sound
    <2> HIDE DEF u
    <2>5. Good(u) /\ Loose(u)
      BY <2>2, <2>4 DEF Good, Fit, Loose, Together, HasItsNote
    <2>6. QED BY <2>1, <2>3, <2>4, <2>5, ClickLeads DEF Leads, Quietly
  <1>3. QED BY <1>1, <1>2

LEMMA RequestLeads ==
    ASSUME NEW s, Good(s), NEW click \in Clicks, NEW t \in RequestClick(s, click)
    PROVE  /\ Leads(s, t) /\ (click # "task" => t.store = s.store)
           /\ s.app.focus = "editor" /\ Pending(s.app) =>
                t.app.draft = s.app.draft /\ t.app.on = s.app.on
  <1>1. CASE s.app.focus = "editor" /\ Pending(s.app)
    <2> DEFINE a == [s.app EXCEPT !.click = click, !.prompt = "pending"]
    <2>1. s.app \in App
      BY DEF Good, Fit, Sound, Situation
    <2>2. /\ a \in App /\ a.up = s.app.up /\ a.current = s.app.current /\ a.asked = s.app.asked
          /\ a.on = s.app.on /\ a.draft = s.app.draft
          /\ a.focus = s.app.focus /\ a.draft = s.app.draft
      BY <2>1 DEF App
    <2>3. t = [s EXCEPT !.app = a]
      BY <1>1, <2>1 DEF RequestClick, Good, Fit, Sound, Situation, App
    <2> HIDE DEF a
    <2>4. Sound(t) /\ t.app = a /\ t.store = s.store /\ t.left = s.left
      BY <2>2, <2>3, Refitting DEF Good, Fit, Sound
    <2>5. Quietly(s, t)
      BY <2>2, <2>4 DEF Quietly, Good, Fit, Loose, Together, HasItsNote
    <2>6. QED BY <2>2, <2>4, <2>5, QuietLeads
  <1>2. CASE ~(s.app.focus = "editor" /\ Pending(s.app))
    <2> DEFINE u == IF s.app.focus = "editor" THEN CloseEditor(s) ELSE s
    <2>1. Good(u) /\ Loose(u) /\ u.store = s.store /\ u.left = s.left
      BY ClosingStays DEF Good, Fit, Quietly, Loose, Together, HasItsNote
    <2>2. t \in PerformClick(u, click)
      BY <1>2 DEF RequestClick
    <2> HIDE DEF u
    <2>3. QED BY <1>2, <2>1, <2>2, ClickLeads DEF Leads, Quietly
  <1>3. QED BY <1>1, <1>2

\* A list that is scrolled reads at most.
LEMMA RowReads ==
    ASSUME NEW s, Good(s), Loose(s), NEW t \in {s} \union LoadAnyNote(s)
    PROVE  Quietly(s, t) /\ Loose(t)
  <1>1. CASE t = s
    BY <1>1 DEF Quietly
  <1>2. CASE t \in LoadAnyNote(s)
    BY <1>2, AnyNoteReads, ReadingStaysGood DEF Quietly, Reads, Good, Fit
  <1>3. QED BY <1>1, <1>2

LEMMA WheelStays ==
    ASSUME NEW s, Good(s), Loose(s), NEW t \in Wheeled(s)
    PROVE  Quietly(s, t)
  <1> DEFINE listed == [s EXCEPT !.app.focus = "list"]
             Row(u) == {u} \union LoadAnyNote(u)
  <1>1. Quietly(s, listed) /\ Loose(listed)
    BY FocusingStays
  <1>2. t \in IF s.app.panel = "notes" THEN Then(Then(Row(listed), Row), Row) ELSE {listed}
    BY DEF Wheeled
  <1> HIDE DEF listed
  <1>3. CASE t = listed
    BY <1>1, <1>3
  <1>4. CASE t \in Then(Then(Row(listed), Row), Row)
    <2>1. PICK v \in Then(Row(listed), Row) : t \in Row(v)
      BY <1>4 DEF Then
    <2>2. PICK u \in Row(listed) : v \in Row(u)
      BY <2>1 DEF Then
    <2>3. Quietly(listed, u) /\ Loose(u)
      BY <1>1, <2>2, RowReads DEF Quietly
    <2>4. Quietly(u, v) /\ Loose(v)
      BY <2>2, <2>3, RowReads DEF Quietly
    <2>5. Quietly(v, t)
      BY <2>1, <2>4, RowReads DEF Quietly
    <2>6. QED BY <1>1, <2>3, <2>4, <2>5 DEF Quietly
  <1>5. QED BY <1>2, <1>3, <1>4

\* The answer `p`: the draft is in a file, or still in the editor.
LEMMA PreservingStays ==
    ASSUME NEW s, Good(s), s.app.focus = "editor", s.app.asked = Nothing,
           NEW t \in PreserveAndReread(s)
    PROVE  /\ Good(t) /\ t.store = s.store
           /\ Pending(s.app) =>
                \/ [note |-> s.app.current.id, text |-> s.app.draft] \in t.left
                \/ t.app.draft = s.app.draft /\ t.app.on = s.app.on
           /\ t.app.focus = "editor"
  <1>1. CASE ~Pending(s.app)
    BY <1>1 DEF PreserveAndReread
  <1>2. CASE Pending(s.app)
    <2>1. s.app \in App /\ s.app.current \in Loaded /\ s.app.draft \in Texts
          /\ s.left \in SUBSET Texting
      BY <1>2 DEF Pending, Good, Fit, Sound, Situation, App
    <2>2. CASE t \in RereadIntoEditor(Preserved(s))
      <3> DEFINE file == [note |-> s.app.current.id, text |-> s.app.draft]
                 kept == s.left \union {file}
                 u == [s EXCEPT !.left = kept]
      <3>1. kept \in SUBSET Texting /\ file \in kept
        BY <2>1 DEF Texting, Loaded
      <3>2. t \in RereadIntoEditor(u)
        BY <2>2 DEF Preserved
      <3> HIDE DEF kept
      <3>3. u \in Situation /\ u.app = s.app /\ u.store = s.store /\ u.left = kept
        BY <3>1 DEF Good, Fit, Sound, Situation
      <3> HIDE DEF u
      <3>4. Good(u)
        BY <3>3 DEF Good, Fit, Sound
      <3>5. Quietly(u, t) /\ t.app.focus = "editor"
        BY <3>2, <3>3, <3>4, RereadIntoEditorStays
      <3>6. QED BY <3>1, <3>3, <3>5 DEF Quietly
    <2>3. CASE t = [s EXCEPT !.app.prompt = "conflict"]
      <3> DEFINE a == [s.app EXCEPT !.prompt = "conflict"]
      <3>1. /\ a \in App /\ a.up = s.app.up /\ a.current = s.app.current /\ a.asked = s.app.asked
            /\ a.on = s.app.on /\ a.draft = s.app.draft
            /\ a.focus = s.app.focus /\ a.draft = s.app.draft
        BY <2>1 DEF App
      <3>2. t = [s EXCEPT !.app = a]
        BY <2>3
      <3> HIDE DEF a
      <3>3. Sound(t) /\ t.app = a /\ t.store = s.store /\ t.left = s.left
        BY <3>1, <3>2, Refitting DEF Good, Fit, Sound
      <3>4. QED BY <3>1, <3>3 DEF Good, Fit, Loose, Together, HasItsNote
    <2>4. QED BY <1>2, <2>2, <2>3 DEF PreserveAndReread
  <1>3. QED BY <1>1, <1>2

-----------------------------------------------------------------------------
(* Steps                                                                   *)

LEMMA NowIsGood ==
    ASSUME IInv, app.up
    PROVE  Good(Now) /\ Now.app = app /\ Now.store = store /\ Now.left = {}
  BY DEF IInv, TypeOK, Now, Good, Fit, Sound, Situation

\* An event leaves one of the situations of its handler.
LEMMA Becoming ==
    ASSUME IInv, NEW t, Fit(t), app' = t.app, store' = t.store, left' = t.left,
           Advances(store, t.store),
           outside' = Nothing \/ (outside' = outside /\ t.app.focus # "editor")
    PROVE  IInv'
  <1>1. /\ t.app \in App /\ t.store \in [Notes -> Files] /\ t.left \in SUBSET Texting
        /\ store \in [Notes -> Files] /\ outside \in Session \union {Nothing}
    BY DEF Good, Fit, Sound, Situation, IInv, TypeOK
  <1>2. outside' # Nothing => outside'.doc \in Loaded /\ outside' = outside
    BY <1>1 DEF Session, Live
  <1>3. outside' # Nothing => Known(outside'.doc, store)
    BY <1>2 DEF IInv
  <1>4. outside' # Nothing => t.app.focus # "editor" /\ Known(outside'.doc, store')
    BY <1>1, <1>2, <1>3, StaysKnown
  <1>5. TypeOK'
    BY <1>1 DEF TypeOK
  <1>6. QED BY <1>4, <1>5 DEF IInv, Fit, Sound, HasItsNote

\* A step after which the state is sound and the draft no further from its note.
Stays == IInv' /\ (Together(app) => Together(app'))

LEMMA Staying ==
    ASSUME IInv, NEW t, Good(t), app' = t.app, store' = t.store, left' = t.left,
           Advances(store, t.store),
           outside' = Nothing \/ (outside' = outside /\ t.app.focus # "editor")
    PROVE  Stays
  BY Becoming DEF Good, Stays, Together

LEMMA KeyedIs ==
    ASSUME NEW S, Keyed(S)
    PROVE  \E s \in S : \E t \in Preview(s) : app' = t.app /\ store' = t.store /\ left' = t.left
  BY DEF Keyed, Becomes, Then

\* A key whose handler leads somewhere; the preview comes last.
LEMMA KeyedKeepsIInv ==
    ASSUME IInv, app.up, NEW S, Keyed(S), outside' = Nothing, \A s \in S : Leads(Now, s)
    PROVE  /\ Stays
           /\ \E s \in S : store' = s.store
  <1>1. PICK s \in S : \E t \in Preview(s) : app' = t.app /\ store' = t.store /\ left' = t.left
    BY KeyedIs
  <1>2. PICK t \in Preview(s) : app' = t.app /\ store' = t.store /\ left' = t.left
    BY <1>1
  <1>3. Good(s) /\ Advances(store, s.store)
    BY NowIsGood DEF Leads
  <1>4. Good(t) /\ t.store = s.store
    BY <1>3, PreviewStaysGood
  <1>5. QED BY <1>2, <1>3, <1>4, Staying

LEMMA KeyedQuietly ==
    ASSUME IInv, app.up, NEW S, Keyed(S), outside' = Nothing, \A s \in S : Quietly(Now, s)
    PROVE  Stays /\ store' = store
  <1>1. \A s \in S : Leads(Now, s) /\ s.store = store
    BY NowIsGood, QuietLeads DEF Quietly
  <1>2. QED BY <1>1, KeyedKeepsIInv

LEMMA KeyIs ==
    ASSUME IInv, NEW focus, Key(focus), UNCHANGED outside
    PROVE  /\ app.focus = focus /\ app.asked = Nothing /\ outside' = Nothing
           /\ focus # "editor" => Loose(Now)
  BY NowIsGood DEF Key, Running, Loose, Together

\* The keys that only move about and read.
LEMMA MovingKeepsIInv ==
    ASSUME IInv, app.up,
           SwitchPanel \/ Select \/ OpenRow \/ EditShown \/ Search \/ SearchEnds \/ Back \/ Quit
    PROVE  Stays /\ store' = store
  <1> DEFINE s == Now
  <1>1. Good(s) /\ s.app = app
    BY NowIsGood
  <1>2. /\ Loose(s) /\ outside' = Nothing
    <2>1. PICK focus \in {"list", "reader", "search"} : Key(focus) /\ UNCHANGED outside
      BY DEF SwitchPanel, Select, OpenRow, EditShown, Search, SearchEnds, Back, Quit
    <2>2. QED BY <2>1, KeyIs
  <1> HIDE DEF s
  <1>3. Quietly(s, s)
    BY <1>1 DEF Quietly
  <1>4. \A focus \in {"list", "search", "reader"} : Quietly(s, [s EXCEPT !.app.focus = focus])
    BY <1>1, <1>2, FocusingStays
  <1>5. CASE SwitchPanel
    <2>1. PICK panel \in {"notes", "trash"} :
            Keyed(OnPanelSwitched([s EXCEPT !.app.panel = panel, !.app.focus = "list"]))
      BY <1>5 DEF SwitchPanel, s
    <2>2. \A t \in OnPanelSwitched([s EXCEPT !.app.panel = panel, !.app.focus = "list"]) : Quietly(s, t)
      BY <1>1, <1>2, SwitchingStays
    <2>3. QED BY <1>2, <2>1, <2>2, KeyedQuietly DEF s
  <1>6. CASE Select
    <2>1. \A t \in LoadAnyNote(s) : Quietly(s, t)
      BY <1>1, <1>2, AnyNoteReads, ReadingStaysGood DEF Quietly, Reads, Good, Fit
    <2>2. \A t \in IF app.focus = "list" /\ app.panel = "notes" THEN LoadAnyNote(s) ELSE {s} :
            Quietly(s, t)
      BY <1>3, <2>1
    <2>3. QED BY <1>2, <1>6, <2>2, KeyedQuietly DEF Select, s
  <1>7. \A t \in Then(LoadAnyNote(s), StartEditing) : Quietly(s, t)
    BY <1>1, <1>2, OpeningStays
  <1>8. CASE OpenRow
    <2>1. \A t \in IF app.panel = "notes" THEN Then(LoadAnyNote(s), StartEditing)
                   ELSE {[s EXCEPT !.app.focus = "reader"]} : Quietly(s, t)
      BY <1>4, <1>7
    <2>2. QED BY <1>2, <1>8, <2>1, KeyedQuietly DEF OpenRow, s
  <1>9. CASE EditShown
    <2>1. \A t \in StartEditing(s) : Quietly(s, t)
      BY <1>1, <1>2, StartingStays
    <2>2. QED BY <1>2, <1>9, <2>1, KeyedQuietly DEF EditShown, s
  <1>10. CASE Search
    <2>1. \A t \in {[s EXCEPT !.app.focus = "search"]} : Quietly(s, t)
      BY <1>4
    <2>2. QED BY <1>2, <1>10, <2>1, KeyedQuietly DEF Search, s
  <1>11. CASE SearchEnds
    <2>1. \A t \in {[s EXCEPT !.app.focus = "list"]} \union Then(LoadAnyNote(s), StartEditing) :
            Quietly(s, t)
      BY <1>4, <1>7
    <2>2. QED BY <1>2, <1>11, <2>1, KeyedQuietly DEF SearchEnds, s
  <1>12. CASE Back
    <2>1. \A t \in {[s EXCEPT !.app.focus = "list"]} : Quietly(s, t)
      BY <1>4
    <2>2. QED BY <1>2, <1>12, <2>1, KeyedQuietly DEF Back, s
  <1>13. CASE Quit
    <2> DEFINE a == [s.app EXCEPT !.quit = TRUE]
               t == [s EXCEPT !.app = a]
    <2>1. /\ a \in App /\ a.up = s.app.up /\ a.current = s.app.current /\ a.asked = s.app.asked
          /\ a.on = s.app.on /\ a.draft = s.app.draft
      BY <1>1, <1>2 DEF Good, Fit, Sound, Situation, App
    <2> HIDE DEF a
    <2>2. Sound(t) /\ t.app = a /\ t.store = s.store /\ t.left = s.left
      BY <1>1, <2>1, Refitting DEF Good, Fit, Sound
    <2> HIDE DEF t
    <2>3. Quietly(s, t)
      BY <1>1, <1>2, <2>1, <2>2 DEF Quietly, Good, Fit, Loose, Together, HasItsNote
    <2>4. \A u \in {t} : Quietly(s, u)
      BY <2>3
    <2>5. Keyed({t})
      BY <1>13 DEF Quit, s, a, t
    <2>6. QED BY <1>2, <2>4, <2>5, KeyedQuietly DEF s
  <1>14. QED BY <1>5, <1>6, <1>8, <1>9, <1>10, <1>11, <1>12, <1>13

\* What a step has written, if anything: doc, as it was read.
Written(doc) ==
  \/ store' = store
  \/ /\ doc # Nothing /\ AsRead(store, doc)
     /\ \E file : store' = [store EXCEPT ![doc.id] = file]

LEMMA WrittenIs ==
    ASSUME IInv, app.up, NEW t, NEW doc, OnlyOn(Now, t, doc), store' = t.store
    PROVE  Written(doc)
  BY NowIsGood DEF OnlyOn, Written

LEMMA CtrlCKeepsIInv ==
    ASSUME IInv, app.up, CtrlC
    PROVE  Stays /\ store' = store /\ app'.draft = app.draft /\ app'.on = app.on
  <1>1. app \in App /\ store \in [Notes -> Files]
    BY DEF IInv, TypeOK
  <1>2. /\ app' \in App /\ app'.up = app.up /\ app'.current = app.current /\ app'.asked = app.asked
        /\ app'.on = app.on /\ app'.focus = app.focus /\ app'.draft = app.draft
    BY <1>1 DEF CtrlC, App
  <1>3. left' = {} /\ UNCHANGED <<store, outside>>
    BY DEF CtrlC
  <1>4. QED BY <1>2, <1>3 DEF Stays, IInv, TypeOK, Together, HasItsNote

LEMMA AskDiscardKeepsIInv ==
    ASSUME IInv, app.up, AskDiscard
    PROVE  Stays /\ store' = store
  <1>1. app \in App
    BY DEF IInv, TypeOK
  <1>2. app.current \in Live
    BY <1>1 DEF AskDiscard, Editable, App, Live
  <1>3. /\ app' \in App /\ app'.up = app.up /\ app'.current = app.current /\ app'.asked = app.current
        /\ app'.on = app.on /\ app'.draft = app.draft /\ app'.focus = app.focus
    BY <1>1, <1>2 DEF AskDiscard, App
  <1>4. left' = {} /\ UNCHANGED <<store, outside>>
    BY DEF AskDiscard
  <1>5. QED BY <1>3, <1>4 DEF Stays, IInv, TypeOK, Together, HasItsNote

LEMMA AnswerDiscardKeepsIInv ==
    ASSUME IInv, app.up, AnswerDiscard
    PROVE  /\ IInv' /\ Written(app.asked)
           /\ app'.draft = app.draft /\ app'.on = app.on
  <1> DEFINE a == [app EXCEPT !.asked = Nothing]
             s == [Now EXCEPT !.app = a]
  <1>1. /\ app \in App /\ app.asked \in Live /\ app.asked # Nothing /\ outside' = Nothing
        /\ Known(app.asked, store)
    BY DEF IInv, TypeOK, App, AnswerDiscard, Running
  <1>2. PICK t \in {s} \union Discard(s, app.asked) :
          app' = t.app /\ store' = t.store /\ left' = t.left
    BY NowIsGood DEF AnswerDiscard, Becomes
  <1>3. /\ a \in App /\ a.up = app.up /\ a.current = app.current /\ a.asked = Nothing
        /\ a.on = app.on /\ a.draft = app.draft
    BY <1>1 DEF App
  <1> HIDE DEF a
  <1>4. Fit(Now) /\ Now.app = app /\ Now.store = store /\ Known(Nothing, store)
    BY NowIsGood DEF Known, Good
  <1>5. Sound(s) /\ s.app = a /\ s.store = store
    BY <1>3, <1>4, Refitting DEF Fit, Sound
  <1> HIDE DEF s
  <1>6. Fit(s)
    BY <1>3, <1>4, <1>5 DEF Fit, HasItsNote
  <1>7. /\ Fit(t) /\ Advances(store, t.store) /\ OnlyOn(s, t, app.asked)
        /\ t.app.draft = app.draft /\ t.app.on = app.on
    <2>1. CASE t = s
      BY <1>3, <1>5, <1>6, <2>1, StayingAdvances DEF Fit, Sound, Situation, OnlyOn
    <2>2. CASE t # s
      BY <1>1, <1>2, <1>3, <1>5, <1>6, <2>2, DiscardingWorks
    <2>3. QED BY <2>1, <2>2
  <1>8. IInv'
    BY <1>1, <1>2, <1>7, Becoming
  <1>9. Written(app.asked)
    BY <1>2, <1>5, <1>7 DEF OnlyOn, Written
  <1>10. QED BY <1>2, <1>7, <1>8, <1>9

LEMMA CreateKeepsIInv ==
    ASSUME IInv, app.up, Create
    PROVE  /\ Stays
           /\ \A n \in Notes : store[n].place # "absent" => store'[n] = store[n]
  <1>1. Loose(Now) /\ outside' = Nothing /\ Keyed(CreateNote(Now))
    BY KeyIs DEF Create
  <1>2. \A s \in CreateNote(Now) :
          /\ Leads(Now, s)
          /\ \A n \in Notes : store[n].place # "absent" => s.store[n] = store[n]
    BY <1>1, NowIsGood, CreatingWorks DEF Leads
  <1>3. QED BY <1>1, <1>2, KeyedKeepsIInv

LEMMA ToggleKeepsIInv ==
    ASSUME IInv, app.up, Toggle
    PROVE  Stays /\ (app.focus # "list" => Written(app.current))
  <1>1. Loose(Now) /\ outside' = Nothing
    <2>1. PICK focus \in {"list", "reader"} : Key(focus) /\ UNCHANGED outside
      BY DEF Toggle
    <2>2. QED BY <2>1, KeyIs
  <1>2. \A s \in Then({Now} \union LoadAnyNote(Now), ToggleTask) : Leads(Now, s)
    BY <1>1, NowIsGood, TogglingAfter
  <1>3. \A s \in ToggleTask(Now) : Leads(Now, s) /\ OnlyOn(Now, s, app.current)
    BY <1>1, NowIsGood, TogglingWorks DEF Works, Leads
  <1>4. CASE app.focus = "list" /\ Keyed(Then({Now} \union LoadAnyNote(Now), ToggleTask))
    BY <1>1, <1>2, <1>4, KeyedKeepsIInv
  <1>5. CASE Keyed(ToggleTask(Now))
    <2>1. Stays /\ \E s \in ToggleTask(Now) : store' = s.store
      BY <1>1, <1>3, <1>5, KeyedKeepsIInv
    <2>2. QED BY <1>3, <2>1, WrittenIs
  <1>6. QED BY <1>4, <1>5 DEF Toggle, Key

LEMMA RestoreKeepsIInv ==
    ASSUME IInv, app.up, Restore
    PROVE  Stays /\ Written(app.current)
  <1>1. Loose(Now) /\ outside' = Nothing /\ Keyed(RestoreSelected(Now))
    BY KeyIs DEF Restore
  <1>2. \A s \in RestoreSelected(Now) : Leads(Now, s) /\ OnlyOn(Now, s, app.current)
    BY <1>1, NowIsGood, RestoringWorks DEF Works, Leads
  <1>3. Stays /\ \E s \in RestoreSelected(Now) : store' = s.store
    BY <1>1, <1>2, KeyedKeepsIInv
  <1>4. QED BY <1>2, <1>3, WrittenIs

LEMMA TypeKeepsIInv ==
    ASSUME IInv, app.up, Type
    PROVE  Stays /\ store' = store
  <1>1. app \in App
    BY DEF IInv, TypeOK
  <1>2. /\ app' \in App /\ app'.up = app.up /\ app'.current = app.current /\ app'.asked = app.asked
        /\ app'.on = app.on /\ app'.focus = app.focus
        /\ app.draft # Nothing /\ app'.draft # Nothing
    <2>1. PICK text \in Texts : app' = [app EXCEPT !.draft = text]
      BY DEF Type
    <2>2. text # Nothing
      BY NothingAssumption
    <2>3. QED BY <1>1, <2>1, <2>2 DEF Type, App
  <1>3. left' = {} /\ UNCHANGED <<store, outside>>
    BY DEF Type
  <1>4. QED BY <1>2, <1>3 DEF Stays, IInv, TypeOK, Together, HasItsNote

LEMMA SaveKeepsIInv ==
    ASSUME IInv, app.up, Save
    PROVE  /\ Stays /\ Written(app.current)
           /\ store' # store => Pending(app)
           /\ Pending(app) =>
                \/ store'[app.current.id].text = Canonical[app.draft]
                \/ app'.draft = app.draft /\ app'.on = app.on
  <1>1. app.focus = "editor" /\ app.asked = Nothing /\ outside' = Nothing
    BY KeyIs DEF Save, Typing
  <1>2. PICK t \in SaveDraft(Now) : app' = t.app /\ store' = t.store /\ left' = t.left
    BY DEF Save, Becomes
  <1>3. /\ Works(Now, t, app.current) /\ (t.store # store => Pending(app))
        /\ Pending(app) =>
             \/ t.store[app.current.id].text = Canonical[app.draft]
             \/ t = Now
             \/ t.app.draft = app.draft /\ t.app.on = app.on
    BY <1>1, NowIsGood, SavingWorks
  <1>4. Stays
    BY <1>1, <1>2, <1>3, NowIsGood, Staying DEF Works
  <1>5. Written(app.current)
    BY <1>2, <1>3, WrittenIs DEF Works
  <1>6. QED BY <1>2, <1>3, <1>4, <1>5, NowIsGood

\* A question that is taken down before it is answered.
LEMMA TakenIs ==
    ASSUME IInv, app.up, NEW prompt, Asking(prompt), UNCHANGED outside
    PROVE  /\ Good(Taken) /\ Taken.store = store /\ Taken.left = {}
           /\ Taken.app.focus = "editor" /\ Taken.app.asked = Nothing
           /\ Taken.app.prompt = "none" /\ Taken.app.click = app.click
           /\ Taken.app.draft = app.draft /\ Taken.app.current = app.current
           /\ Taken.app.on = app.on /\ outside' = Nothing
  <1> DEFINE a == [Now.app EXCEPT !.prompt = "none"]
             t == [Now EXCEPT !.app = a]
  <1>1. app.focus = "editor" /\ app.asked = Nothing /\ outside' = Nothing
    BY KeyIs DEF Asking
  <1>2. /\ a \in App /\ a.up = Now.app.up /\ a.current = app.current /\ a.asked = Nothing
        /\ a.on = app.on
        /\ a.focus = "editor" /\ a.draft = app.draft /\ a.prompt = "none" /\ a.click = app.click
    BY <1>1, NowIsGood DEF Good, Fit, Sound, Situation, App
  <1>3. Taken = t
    BY DEF Taken
  <1> HIDE DEF a
  <1>4. Sound(t) /\ t.app = a /\ t.store = store /\ t.left = {}
    BY <1>1, <1>2, NowIsGood, Refitting DEF Good, Fit, Sound
  <1> HIDE DEF t
  <1>5. Good(t)
    BY <1>2, <1>4, NowIsGood DEF Good, Fit, Loose, Together, HasItsNote
  <1>6. QED BY <1>1, <1>2, <1>3, <1>4, <1>5

\* Esc closes what needs no answer.
LEMMA EscapeKeepsIInv ==
    ASSUME IInv, app.up, Escape
    PROVE  /\ Stays /\ store' = store
           /\ Pending(app) => app'.draft = app.draft /\ app'.on = app.on
  <1>1. /\ app.focus = "editor" /\ app.asked = Nothing /\ outside' = Nothing
        /\ Good(Now) /\ Now.app = app /\ Now.store = store
    BY KeyIs, NowIsGood DEF Escape, Typing
  <1>2. CASE Pending(app)
    <2> DEFINE a == [Now.app EXCEPT !.prompt = "pending"]
               s == [Now EXCEPT !.app = a]
    <2>1. /\ a \in App /\ a.up = Now.app.up /\ a.current = app.current /\ a.asked = app.asked
          /\ a.on = app.on
          /\ a.focus = "editor" /\ a.draft = app.draft
      BY <1>1 DEF Good, Fit, Sound, Situation, App
    <2>2. Keyed({s})
      BY <1>2 DEF Escape
    <2> HIDE DEF a
    <2>3. Sound(s) /\ s.app = a /\ s.store = store /\ s.left = Now.left
      BY <1>1, <2>1, Refitting DEF Good, Fit, Sound
    <2> HIDE DEF s
    <2>4. Quietly(Now, s)
      BY <1>1, <2>1, <2>3 DEF Quietly, Good, Fit, Loose, Together, HasItsNote
    <2>5. Stays /\ store' = store
      <3>1. \A u \in {s} : Quietly(Now, u)
        BY <2>4
      <3>2. QED BY <1>1, <2>2, <3>1, KeyedQuietly
    <2>6. PICK t \in Preview(s) : app' = t.app
      BY <2>2, KeyedIs
    <2>7. t = s
      BY <2>1, <2>3, <2>6, PreviewReads
    <2>8. QED BY <2>1, <2>3, <2>5, <2>6, <2>7
  <1>3. CASE ~Pending(app)
    <2>1. Keyed({CloseEditor(Now)})
      BY <1>3 DEF Escape
    <2>2. \A s \in {CloseEditor(Now)} : Quietly(Now, s)
      BY <1>1, ClosingStays DEF Good, Fit
    <2>3. QED BY <1>1, <1>3, <2>1, <2>2, KeyedQuietly
  <1>4. QED BY <1>2, <1>3

\* What is not saved keeps the program running.
LEMMA StayingLeads ==
    ASSUME NEW s, Good(s)
    PROVE  /\ Leads(s, [s EXCEPT !.app.leaving = FALSE])
           /\ [s EXCEPT !.app.leaving = FALSE].store = s.store
           /\ [s EXCEPT !.app.leaving = FALSE].app.focus = s.app.focus
           /\ [s EXCEPT !.app.leaving = FALSE].app.draft = s.app.draft
           /\ [s EXCEPT !.app.leaving = FALSE].app.on = s.app.on
  <1> DEFINE a == [s.app EXCEPT !.leaving = FALSE]
             t == [s EXCEPT !.app = a]
  <1>1. s.app \in App
    BY DEF Good, Fit, Sound, Situation
  <1>2. /\ a \in App /\ a.up = s.app.up /\ a.current = s.app.current /\ a.asked = s.app.asked
        /\ a.on = s.app.on /\ a.draft = s.app.draft
        /\ a.focus = s.app.focus /\ a.draft = s.app.draft
    BY <1>1 DEF App
  <1> HIDE DEF a
  <1>3. Sound(t) /\ t.app = a /\ t.store = s.store /\ t.left = s.left
    BY <1>2, Refitting DEF Good, Fit, Sound
  <1> HIDE DEF t
  <1>4. Quietly(s, t)
    BY <1>2, <1>3 DEF Quietly, Good, Fit, Loose, Together, HasItsNote
  <1>5. Leads(s, t)
    BY <1>4, QuietLeads
  <1>6. QED BY <1>2, <1>3, <1>5 DEF t, a

\* The answer `s`: saved, still open, or given up as by `d`.
LEMMA AnswerSaveKeepsIInv ==
    ASSUME IInv, app.up, AnswerSave
    PROVE  /\ Stays
           /\ app.click # "task" => Written(app.current) /\ (store' # store => Pending(app))
           /\ Pending(app) =>
                \/ store'[app.current.id].text = Canonical[app.draft]
                \/ app.click = "task"
                \/ AnswerDrop
                \/ app'.draft = app.draft /\ app'.on = app.on
  <1> DEFINE Leave(s) == IF s.app.prompt = "none" THEN HeldClick(LeaveAfterAnswer(s))
                         ELSE {[s EXCEPT !.app.leaving = FALSE]}
  <1>1. /\ Good(Taken) /\ Taken.store = store /\ Taken.left = {}
        /\ Taken.app.focus = "editor" /\ Taken.app.asked = Nothing
        /\ Taken.app.prompt = "none" /\ Taken.app.click = app.click
        /\ Taken.app.draft = app.draft /\ Taken.app.current = app.current
        /\ Taken.app.on = app.on /\ outside' = Nothing
    BY TakenIs DEF AnswerSave
  <1>2. Asking("pending") /\ Keyed(Then(SaveDraft(Taken), Leave)) /\ UNCHANGED outside
    BY DEF AnswerSave
  <1>3. PICK v \in Then(SaveDraft(Taken), Leave) :
          \E t \in Preview(v) : app' = t.app /\ store' = t.store /\ left' = t.left
    BY <1>2, KeyedIs
  <1>4. PICK t \in Preview(v) : app' = t.app /\ store' = t.store /\ left' = t.left
    BY <1>3
  <1>5. PICK u \in SaveDraft(Taken) : v \in Leave(u)
    BY DEF Then
  <1>6. /\ Works(Taken, u, Taken.app.current)
        /\ u.app.focus = "editor" /\ u.app.asked = Nothing /\ u.app.click = Taken.app.click
        /\ u.store # store => Pending(app)
        /\ Pending(app) =>
             \/ u.store[app.current.id].text = Canonical[app.draft]
             \/ u = Taken
             \/ u.app.prompt = "conflict" /\ u.app.draft = app.draft /\ u.app.on = app.on
    <2>1. Pending(Taken.app) = Pending(app)
      BY <1>1 DEF Pending
    <2>2. /\ Works(Taken, u, Taken.app.current)
          /\ u.app.focus = "editor" /\ u.app.asked = Nothing /\ u.app.click = Taken.app.click
          /\ u.store # Taken.store => Pending(Taken.app)
          /\ Pending(Taken.app) =>
               \/ u.store[Taken.app.current.id].text = Canonical[Taken.app.draft]
               \/ u = Taken
               \/ /\ u.app.prompt = "conflict" /\ u.app.draft = Taken.app.draft
                  /\ u.app.on = Taken.app.on
      BY <1>1, <1>5, SavingWorks
    <2>3. QED BY <1>1, <2>1, <2>2
  <1>7. /\ Leads(u, v) /\ (app.click # "task" => v.store = u.store)
        /\ u.app.prompt # "none" =>
             v.app.focus = "editor" /\ v.app.draft = u.app.draft /\ v.app.on = u.app.on
    <2>1. CASE u.app.prompt = "none"
      <3>1. Sound(u) /\ u.app.up /\ Good(u)
        BY <1>6 DEF Works, Good, Fit
      <3>2. /\ Quietly(u, LeaveAfterAnswer(u)) /\ Loose(LeaveAfterAnswer(u))
            /\ LeaveAfterAnswer(u).app.click = app.click
        BY <1>1, <1>6, <3>1, ClosingStays
      <3>3. v \in HeldClick(LeaveAfterAnswer(u))
        BY <1>5, <2>1
      <3>4. /\ Leads(LeaveAfterAnswer(u), v)
            /\ app.click # "task" => Quietly(LeaveAfterAnswer(u), v)
        BY <3>2, <3>3, HeldLeads DEF Quietly
      <3>5. QED BY <2>1, <3>2, <3>4 DEF Leads, Quietly
    <2>2. CASE u.app.prompt # "none"
      <3>1. v = [u EXCEPT !.app.leaving = FALSE]
        BY <1>5, <2>2
      <3>2. Good(u)
        BY <1>6 DEF Works
      <3>3. QED BY <1>6, <2>2, <3>1, <3>2, StayingLeads
    <2>3. QED BY <2>1, <2>2
  <1>8. /\ Good(t) /\ t.store = v.store /\ (v.app.focus = "editor" => t = v)
    BY <1>7, PreviewStaysGood DEF Leads
  <1>9. Advances(store, t.store)
    <2>1. Advances(store, u.store) /\ Advances(u.store, v.store)
      BY <1>1, <1>6, <1>7 DEF Works, Leads
    <2>2. store \in [Notes -> Files] /\ u.store \in [Notes -> Files] /\ v.store \in [Notes -> Files]
      BY <1>1, <1>6, <1>7 DEF Works, Leads, Good, Fit, Sound, Situation
    <2>3. QED BY <1>8, <2>1, <2>2, AdvancingOn
  <1>10. Stays
    BY <1>1, <1>4, <1>8, <1>9, Staying
  <1>11. ASSUME app.click # "task"
         PROVE  Written(app.current) /\ (store' # store => Pending(app))
    <2>1. store' = u.store
      BY <1>4, <1>7, <1>8, <1>11
    <2>2. OnlyOn(Taken, u, app.current)
      BY <1>1, <1>6 DEF Works
    <2>3. QED BY <1>1, <1>6, <2>1, <2>2 DEF OnlyOn, Written
  <1>12. ASSUME Pending(app), app.click # "task"
         PROVE  \/ store'[app.current.id].text = Canonical[app.draft]
                \/ AnswerDrop
                \/ app'.draft = app.draft /\ app'.on = app.on
    <2>2. CASE u.store[app.current.id].text = Canonical[app.draft]
      BY <1>4, <1>7, <1>8, <1>12, <2>2
    <2>3. CASE u = Taken
      <3>1. v \in HeldClick(LeaveAfterAnswer(Taken))
        BY <1>1, <1>5, <2>3
      <3>2. Keyed(HeldClick(LeaveAfterAnswer(Taken)))
        BY <1>4, <3>1 DEF Keyed, Becomes, Then
      <3>3. QED BY <1>2, <3>2 DEF AnswerDrop
    <2>4. CASE u.app.prompt = "conflict" /\ u.app.draft = app.draft /\ u.app.on = app.on
      <3>1. t = v /\ v.app.draft = app.draft /\ v.app.on = app.on
        BY <1>7, <1>8, <2>4
      <3>2. QED BY <1>4, <3>1
    <2>5. QED BY <1>6, <1>12, <2>2, <2>3, <2>4
  <1>13. QED BY <1>10, <1>11, <1>12

LEMMA AnswerDropKeepsIInv ==
    ASSUME IInv, app.up, AnswerDrop
    PROVE  Stays /\ (app.click # "task" => store' = store)
  <1>1. /\ Good(Taken) /\ Taken.store = store /\ Taken.left = {}
        /\ Taken.app.click = app.click /\ outside' = Nothing
    BY TakenIs DEF AnswerDrop
  <1>2. Keyed(HeldClick(LeaveAfterAnswer(Taken)))
    BY DEF AnswerDrop
  <1> DEFINE s == LeaveAfterAnswer(Taken)
  <1>3. Quietly(Taken, s) /\ Loose(s) /\ s.app.click = app.click
    BY <1>1, ClosingStays DEF Good, Fit
  <1> HIDE DEF s
  <1>4. \A v \in HeldClick(s) : Leads(s, v) /\ (app.click # "task" => Quietly(s, v))
    BY <1>3, HeldLeads DEF Quietly
  <1>5. \A v \in HeldClick(s) : Leads(Now, v) /\ (app.click # "task" => v.store = store)
    BY <1>1, <1>3, <1>4, NowIsGood DEF Leads, Quietly
  <1>6. Stays /\ \E v \in HeldClick(s) : store' = v.store
    BY <1>1, <1>2, <1>5, KeyedKeepsIInv DEF s
  <1>7. QED BY <1>5, <1>6

LEMMA AnswerPreserveKeepsIInv ==
    ASSUME IInv, app.up, AnswerPreserve
    PROVE  /\ Stays /\ store' = store
           /\ Pending(app) =>
                \/ [note |-> app.current.id, text |-> app.draft] \in left'
                \/ app'.draft = app.draft /\ app'.on = app.on
  <1>1. /\ Good(Taken) /\ Taken.store = store
        /\ Taken.app.focus = "editor" /\ Taken.app.asked = Nothing
        /\ Taken.app.draft = app.draft /\ Taken.app.on = app.on
        /\ Taken.app.current = app.current
        /\ outside' = Nothing
    BY TakenIs DEF AnswerPreserve
  <1>2. PICK u \in PreserveAndReread(Taken) :
          \E t \in Preview(u) : app' = t.app /\ store' = t.store /\ left' = t.left
    BY KeyedIs DEF AnswerPreserve
  <1>3. PICK t \in Preview(u) : app' = t.app /\ store' = t.store /\ left' = t.left
    BY <1>2
  <1>4. Pending(Taken.app) = Pending(app)
    BY <1>1 DEF Pending
  <1>5. /\ Good(u) /\ u.store = store
        /\ Pending(app) =>
             \/ [note |-> app.current.id, text |-> app.draft] \in u.left
             \/ u.app.draft = app.draft /\ u.app.on = app.on
        /\ u.app.focus = "editor"
    BY <1>1, <1>4, PreservingStays
  <1>6. Good(t) /\ t.store = store
    BY <1>5, PreviewStaysGood
  <1>7. Stays
    <2>1. Advances(store, t.store)
      BY <1>6, StayingAdvances DEF Good, Fit, Sound, Situation
    <2>2. QED BY <1>1, <1>3, <1>6, <2>1, Staying
  <1>8. t = u
    BY <1>5, PreviewStaysGood
  <1>9. QED BY <1>3, <1>5, <1>6, <1>7, <1>8

LEMMA AnswerRereadKeepsIInv ==
    ASSUME IInv, app.up, AnswerReread
    PROVE  Stays /\ store' = store
  <1>1. /\ Good(Taken) /\ Taken.store = store /\ Taken.left = {}
        /\ Taken.app.focus = "editor" /\ Taken.app.asked = Nothing /\ outside' = Nothing
    BY TakenIs DEF AnswerReread
  <1>2. \A t \in RereadIntoEditor(Taken) : Quietly(Now, t)
    BY <1>1, RereadIntoEditorStays, NowIsGood DEF Quietly
  <1>3. QED BY <1>1, <1>2, KeyedQuietly DEF AnswerReread

LEMMA AnswerResumeKeepsIInv ==
    ASSUME IInv, app.up, AnswerResume
    PROVE  Stays /\ store' = store /\ app'.draft = app.draft /\ app'.on = app.on
  <1>1. /\ Good(Taken) /\ Taken.store = store /\ Taken.left = {}
        /\ Taken.app.focus = "editor"
        /\ Taken.app.draft = app.draft /\ Taken.app.on = app.on /\ outside' = Nothing
    BY TakenIs DEF AnswerResume
  <1> DEFINE a == [Taken.app EXCEPT !.leaving = FALSE, !.click = Nothing]
             s == [Taken EXCEPT !.app = a]
  <1>2. Taken.app \in App
    BY <1>1 DEF Good, Fit, Sound, Situation
  <1>3. /\ a \in App /\ a.up = Taken.app.up /\ a.current = Taken.app.current
        /\ a.asked = Taken.app.asked
        /\ a.on = Taken.app.on /\ a.focus = "editor" /\ a.draft = app.draft
    BY <1>1, <1>2 DEF App
  <1>4. Keyed({s})
    <2>1. s = [Taken EXCEPT !.app.leaving = FALSE, !.app.click = Nothing]
      BY <1>1, <1>2 DEF Good, Fit, Sound, Situation, App
    <2>2. QED BY <2>1 DEF AnswerResume
  <1> HIDE DEF a
  <1>5. Sound(s) /\ s.app = a /\ s.store = store /\ s.left = {}
    BY <1>1, <1>3, Refitting DEF Good, Fit, Sound
  <1> HIDE DEF s
  <1>6. Quietly(Now, s)
    BY <1>1, <1>3, <1>5, NowIsGood DEF Quietly, Good, Fit, Loose, Together, HasItsNote
  <1>7. \A u \in {s} : Quietly(Now, u)
    BY <1>6
  <1>8. Stays /\ store' = store
    BY <1>1, <1>4, <1>7, KeyedQuietly
  <1>9. PICK t \in Preview(s) : app' = t.app
    BY <1>4, KeyedIs
  <1>10. t = s
    BY <1>3, <1>5, <1>9, PreviewReads
  <1>11. QED BY <1>1, <1>3, <1>5, <1>8, <1>9, <1>10

LEMMA ClickOnKeepsIInv ==
    ASSUME IInv, app.up, NEW click \in Clicks, ClickOn(click)
    PROVE  /\ Stays /\ (click # "task" => store' = store)
           /\ app.focus = "editor" /\ Pending(app) => app'.draft = app.draft /\ app'.on = app.on
  <1>1. PICK t \in RequestClick(Now, click) : app' = t.app /\ store' = t.store /\ left' = t.left
    BY DEF ClickOn, Becomes
  <1>2. /\ Leads(Now, t) /\ (click # "task" => t.store = store)
        /\ app.focus = "editor" /\ Pending(app) => t.app.draft = app.draft /\ t.app.on = app.on
    BY NowIsGood, RequestLeads
  <1>3. outside' = Nothing
    BY DEF ClickOn, Running
  <1>4. Stays
    BY <1>1, <1>2, <1>3, NowIsGood, Staying DEF Leads
  <1>5. QED BY <1>1, <1>2, <1>4

\* The wheel asks about unsaved text, or closes the editor and reads.
LEMMA WheelListKeepsIInv ==
    ASSUME IInv, app.up, WheelList
    PROVE  /\ Stays /\ store' = store
           /\ app.focus = "editor" /\ Pending(app) => app'.draft = app.draft /\ app'.on = app.on
  <1>1. Good(Now) /\ Now.app = app /\ Now.store = store /\ outside' = Nothing
    BY NowIsGood DEF WheelList, Running
  <1>2. PICK t \in IF app.focus = "editor" /\ Pending(app)
                   THEN {[Now EXCEPT !.app.prompt = "pending"]}
                   ELSE Wheeled(IF app.focus = "editor" THEN CloseEditor(Now) ELSE Now) :
          app' = t.app /\ store' = t.store /\ left' = t.left
    BY DEF WheelList, Becomes
  <1>3. /\ Quietly(Now, t)
        /\ app.focus = "editor" /\ Pending(app) => t.app.draft = app.draft /\ t.app.on = app.on
    <2>1. CASE app.focus = "editor" /\ Pending(app)
      <3> DEFINE a == [Now.app EXCEPT !.prompt = "pending"]
      <3>1. /\ a \in App /\ a.up = app.up /\ a.current = app.current /\ a.asked = app.asked
            /\ a.on = app.on /\ a.draft = app.draft /\ a.focus = app.focus
        BY <1>1 DEF Good, Fit, Sound, Situation, App
      <3>2. t = [Now EXCEPT !.app = a]
        BY <1>2, <2>1
      <3> HIDE DEF a
      <3>3. Sound(t) /\ t.app = a /\ t.store = Now.store /\ t.left = Now.left
        BY <1>1, <3>1, <3>2, Refitting DEF Good, Fit, Sound
      <3>4. QED BY <1>1, <3>1, <3>3 DEF Quietly, Good, Fit, Together, HasItsNote
    <2>2. CASE ~(app.focus = "editor" /\ Pending(app))
      <3> DEFINE u == IF app.focus = "editor" THEN CloseEditor(Now) ELSE Now
      <3>1. Quietly(Now, u) /\ Loose(u)
        BY <1>1, ClosingStays DEF Good, Fit, Quietly, Loose, Together
      <3>2. t \in Wheeled(u)
        BY <1>2, <2>2
      <3> HIDE DEF u
      <3>3. QED BY <2>2, <3>1, <3>2, WheelStays DEF Quietly
    <2>3. QED BY <2>1, <2>2
  <1>4. Stays
    BY <1>1, <1>2, <1>3, QuietLeads, Staying DEF Leads
  <1>5. QED BY <1>1, <1>2, <1>3, <1>4 DEF Quietly

LEMMA WheelReaderKeepsIInv ==
    ASSUME IInv, app.up, WheelReader
    PROVE  Stays /\ store' = store
  <1>1. /\ Good(Now) /\ Loose(Now) /\ Now.app = app /\ Now.store = store /\ outside' = Nothing
    BY NowIsGood DEF WheelReader, Running, Loose, Together
  <1>2. PICK t \in {[Now EXCEPT !.app.focus = "reader"]} :
          app' = t.app /\ store' = t.store /\ left' = t.left
    BY DEF WheelReader, Becomes
  <1>3. Quietly(Now, t)
    BY <1>1, <1>2, FocusingStays
  <1>4. QED BY <1>1, <1>2, <1>3, QuietLeads, Staying DEF Leads, Quietly

LEMMA OpenOutsideKeepsIInv ==
    ASSUME IInv, app.up, OpenOutside
    PROVE  Stays /\ store' = store
  <1>1. app.focus # "editor" /\ app.current \in Live /\ Known(app.current, store)
    <2>1. Key("reader") /\ outside = Nothing
      BY DEF OpenOutside, Key, Running
    <2>2. app.focus # "editor"
      BY <2>1 DEF Key
    <2>3. app.current \in Live
      BY DEF OpenOutside, Editable, IInv, TypeOK, App, Live
    <2>4. QED BY <2>2, <2>3 DEF IInv
  <1>2. outside' = [doc |-> app.current, text |-> app.current.text]
    BY DEF OpenOutside
  <1>3. outside' \in Session /\ outside'.doc = app.current
    BY <1>1, <1>2 DEF Session, Live, Loaded
  <1>4. left' = {} /\ UNCHANGED <<store, app>>
    BY DEF OpenOutside
  <1>5. QED BY <1>1, <1>3, <1>4 DEF Stays, IInv, TypeOK, Together, HasItsNote

LEMMA TypeOutsideKeepsIInv ==
    ASSUME IInv, app.up, TypeOutside
    PROVE  Stays /\ store' = store /\ outside' # Nothing
  <1>1. outside \in Session /\ outside # Nothing
    BY DEF TypeOutside, IInv, TypeOK
  <1>2. PICK text \in Texts : outside' = [outside EXCEPT !.text = text]
    BY DEF TypeOutside
  <1>3. outside' \in Session /\ outside'.doc = outside.doc
    BY <1>1, <1>2 DEF Session
  <1>4. left' = {} /\ UNCHANGED <<store, app>>
    BY DEF TypeOutside
  <1>5. outside' # Nothing
    BY <1>3, NothingIsNoRecord
  <1>6. QED BY <1>1, <1>3, <1>4, <1>5 DEF Stays, IInv, TypeOK, Together, HasItsNote

\* The text of the external editor, left in its file.
LEMMA LeavingBehind ==
    ASSUME IInv, app.up, outside # Nothing, NEW s, Sound(s)
    PROVE  /\ Sound(LeftBehind(s)) /\ LeftBehind(s).app = s.app /\ LeftBehind(s).store = s.store
           /\ [note |-> outside.doc.id, text |-> outside.text] \in LeftBehind(s).left
  <1> DEFINE file == [note |-> outside.doc.id, text |-> outside.text]
             kept == s.left \union {file}
             t == [s EXCEPT !.left = kept]
  <1>1. outside.doc \in Loaded /\ outside.text \in Texts
    BY DEF IInv, TypeOK, Session, Live
  <1>2. kept \in SUBSET Texting /\ file \in kept
    BY <1>1 DEF Texting, Loaded, Sound, Situation
  <1>3. LeftBehind(s) = t
    BY DEF LeftBehind
  <1> HIDE DEF kept
  <1>4. t \in Situation /\ t.app = s.app /\ t.store = s.store /\ t.left = kept
    BY <1>2 DEF Sound, Situation
  <1> HIDE DEF t
  <1>5. Sound(t)
    BY <1>4 DEF Sound
  <1>6. QED BY <1>2, <1>3, <1>4, <1>5

\* finish: the text is in the store or in a file, unless it is the old one.
LEMMA CloseOutsideKeepsIInv ==
    ASSUME IInv, app.up, CloseOutside
    PROVE  /\ Stays /\ Written(outside.doc)
           /\ \/ Canonical[outside.text] = Canonical[outside.doc.text]
              \/ store'[outside.doc.id].text = Canonical[outside.text]
              \/ [note |-> outside.doc.id, text |-> outside.text] \in left'
  <1> DEFINE doc == outside.doc
             file == Rewritten(Now, doc, outside.text)
             kept == [note |-> outside.doc.id, text |-> outside.text]
  <1>1. /\ outside # Nothing /\ outside' = Nothing /\ app.focus # "editor"
        /\ doc \in Loaded /\ Known(doc, store) /\ outside.text \in Texts /\ doc.id \in Notes
    BY DEF CloseOutside, IInv, TypeOK, Session, Live, Loaded
  <1>2. Good(Now) /\ Loose(Now) /\ Now.app = app /\ Now.store = store /\ store \in [Notes -> Files]
    BY <1>1, NowIsGood DEF IInv, TypeOK, Loose, Together
  <1>3. PICK s \in Finish(Now) :
          \E t \in Preview(s) : app' = t.app /\ store' = t.store /\ left' = t.left
    BY KeyedIs DEF CloseOutside
  <1>4. PICK t \in Preview(s) : app' = t.app /\ store' = t.store /\ left' = t.left
    BY <1>3
  <1>5. /\ Good(s) /\ Loose(s) /\ Advances(store, s.store) /\ OnlyOn(Now, s, doc)
        /\ \/ Canonical[outside.text] = Canonical[doc.text]
           \/ s.store[doc.id].text = Canonical[outside.text]
           \/ kept \in s.left
    <2>1. CASE Canonical[outside.text] = Canonical[doc.text]
      <3>1. s = Now
        BY <2>1 DEF Finish
      <3>2. QED BY <1>1, <1>2, <2>1, <3>1, StayingAdvances DEF OnlyOn
    <2>2. CASE Canonical[outside.text] # Canonical[doc.text] /\ doc # Nothing
      <3>1. PICK r \in Perform(Now, doc, file) :
              s \in CASE r.answer = "ok" -> ReloadNote(r.to, doc.id)
                      [] r.answer = "conflict" -> ReloadNote(LeftBehind(r.to), doc.id)
                      [] r.answer = "refused" -> {LeftBehind(r.to)}
        BY <2>2 DEF Finish
      <3>2. Follows(file, store, doc.id)
        BY <1>1, <1>2, <2>2, MakingFollows DEF Good, Fit
      <3>3. \A n \in Notes : file.text = Canonical[outside.text]
        BY DEF Rewritten
      <3> HIDE DEF file, doc, kept
      <3>4. /\ Sound(r.to) /\ r.to.app = Now.app /\ r.to.left = Now.left
            /\ Advances(Now.store, r.to.store)
            /\ r.answer \in {"ok", "refused", "conflict"}
            /\ \/ r.to = Now /\ r.answer # "ok"
               \/ /\ r.to.store = [Now.store EXCEPT ![doc.id] = file] /\ r.answer # "conflict"
                  /\ file \in Files /\ AsRead(Now.store, doc)
        BY <1>1, <1>2, <2>2, <3>2, Performing DEF Good, Fit
      <3>5. OnlyOn(Now, r.to, doc)
        BY <1>1, <1>2, <2>2, <3>2, PerformedOn DEF Good, Fit
      <3>6. /\ Sound(LeftBehind(r.to)) /\ LeftBehind(r.to).app = r.to.app
            /\ LeftBehind(r.to).store = r.to.store /\ kept \in LeftBehind(r.to).left
        BY <1>1, <3>4, LeavingBehind DEF kept
      <3>7. CASE r.answer = "ok"
        <4>1. Reads(r.to, s)
          BY <1>1, <3>1, <3>4, <3>7, ReloadingReads
        <4>2. Good(r.to) /\ Loose(r.to)
          BY <1>1, <1>2, <3>4 DEF Good, Fit, Loose
        <4>3. Good(s) /\ Loose(s) /\ s.store = r.to.store
          BY <4>1, <4>2, ReadingStaysGood DEF Reads
        <4>4. s.store[doc.id].text = Canonical[outside.text]
          BY <1>1, <1>2, <3>3, <3>4, <3>7, <4>3
        <4>5. QED BY <1>2, <3>4, <3>5, <4>3, <4>4 DEF OnlyOn
      <3>8. Good(LeftBehind(r.to)) /\ Loose(LeftBehind(r.to))
        BY <1>1, <1>2, <3>4, <3>6 DEF Good, Fit, Loose
      <3>9. CASE r.answer = "conflict"
        <4>1. Reads(LeftBehind(r.to), s)
          BY <1>1, <3>1, <3>6, <3>9, ReloadingReads
        <4>2. Good(s) /\ Loose(s) /\ s.store = r.to.store /\ s.left = LeftBehind(r.to).left
          BY <3>6, <3>8, <4>1, ReadingStaysGood DEF Reads
        <4>3. QED BY <1>2, <3>4, <3>5, <3>6, <4>2 DEF OnlyOn
      <3>10. CASE r.answer = "refused"
        <4>1. s = LeftBehind(r.to)
          BY <3>1, <3>10
        <4>2. QED BY <1>2, <3>4, <3>5, <3>6, <3>8, <4>1 DEF OnlyOn
      <3>11. QED BY <3>4, <3>7, <3>9, <3>10
    <2>3. doc # Nothing
      BY <1>1, NothingIsNoRecord
    <2>4. QED BY <2>1, <2>2, <2>3
  <1>6. Good(t) /\ t.store = s.store /\ t.left = s.left
    BY <1>5, PreviewStaysGood
  <1>7. Stays
    BY <1>1, <1>4, <1>5, <1>6, Staying
  <1>8. Written(outside.doc)
    BY <1>4, <1>5, <1>6, WrittenIs
  <1>9. QED BY <1>4, <1>5, <1>6, <1>7, <1>8

LEMMA FailOutsideKeepsIInv ==
    ASSUME IInv, app.up, FailOutside
    PROVE  /\ Stays /\ store' = store
           /\ [note |-> outside.doc.id, text |-> outside.text] \in left'
  <1>1. outside # Nothing /\ outside' = Nothing
    BY DEF FailOutside
  <1> DEFINE s == LeftBehind(Now)
             kept == [note |-> outside.doc.id, text |-> outside.text]
  <1>2. Good(Now) /\ Now.app = app /\ Now.store = store
    BY NowIsGood
  <1>3. Sound(s) /\ s.app = app /\ s.store = store /\ kept \in s.left
    BY <1>1, <1>2, LeavingBehind DEF Good, Fit
  <1>4. PICK quit \in BOOLEAN : Becomes({[s EXCEPT !.app.quit = quit]})
    BY DEF FailOutside
  <1> HIDE DEF s, kept
  <1> DEFINE a == [s.app EXCEPT !.quit = quit]
             t == [s EXCEPT !.app = a]
  <1>5. app' = t.app /\ store' = t.store /\ left' = t.left
    BY <1>4 DEF Becomes
  <1>6. s.app \in App
    BY <1>3 DEF Sound, Situation
  <1>7. /\ a \in App /\ a.up = s.app.up /\ a.current = app.current /\ a.asked = app.asked
        /\ a.on = app.on /\ a.draft = app.draft /\ a.focus = app.focus
    BY <1>1, <1>3, <1>6 DEF App
  <1> HIDE DEF a
  <1>8. Sound(t) /\ t.app = a /\ t.store = store /\ t.left = s.left
    BY <1>3, <1>7, Refitting DEF Sound
  <1> HIDE DEF t
  <1>9. Good(t)
    BY <1>2, <1>3, <1>7, <1>8 DEF Good, Fit, Loose, Together, HasItsNote
  <1>10. Advances(store, t.store)
    BY <1>2, <1>8, StayingAdvances DEF Good, Fit, Sound, Situation
  <1>11. Stays
    BY <1>1, <1>5, <1>9, <1>10, Staying
  <1>12. QED BY <1>3, <1>5, <1>8, <1>11 DEF kept

\* The program as it is when it does not run, and when it begins to.
Empty(a) ==
  a \in App /\ a.current = Nothing /\ a.asked = Nothing /\ a.on = Nothing /\ a.draft = Nothing

LEMMA ClosedIsEmpty ==
    /\ Empty(Closed)
    /\ Empty([Closed EXCEPT !.up = TRUE]) /\ [Closed EXCEPT !.up = TRUE].up
    /\ Empty([Closed EXCEPT !.told = TRUE]) /\ [Closed EXCEPT !.told = TRUE].told
  <1>1. Empty(Closed)
    BY DEF Empty, App, Closed
  <1>2. Empty([Closed EXCEPT !.up = TRUE])
    BY DEF Empty, App, Closed
  <1>3. Empty([Closed EXCEPT !.told = TRUE])
    BY DEF Empty, App, Closed
  <1>4. [Closed EXCEPT !.told = TRUE].told /\ [Closed EXCEPT !.up = TRUE].up
    BY DEF Closed
  <1>5. QED BY <1>1, <1>2, <1>3, <1>4

LEMMA EmptyIsGood ==
    ASSUME NEW s, Sound(s), NEW a, Empty(a)
    PROVE  /\ [s EXCEPT !.app = a].app = a
           /\ [s EXCEPT !.app = a].store = s.store /\ [s EXCEPT !.app = a].left = s.left
           /\ [s EXCEPT !.app = a].left \in SUBSET Texting
           /\ a.up => Good([s EXCEPT !.app = a])
  <1>1. a \in App /\ a.current = Nothing /\ a.asked = Nothing /\ a.on = Nothing /\ a.draft = Nothing
    BY DEF Empty
  <1> DEFINE t == [s EXCEPT !.app = a]
  <1>2. Known(Nothing, s.store)
    BY DEF Known
  <1>3. Sound(t) /\ t.app = a /\ t.store = s.store /\ t.left = s.left
    BY <1>1, <1>2, Refitting
  <1> HIDE DEF t
  <1>4. a.up => Good(t)
    BY <1>1, <1>3 DEF Good, Fit, Loose, Together, HasItsNote
  <1>5. t.left \in SUBSET Texting
    BY <1>3 DEF Sound, Situation
  <1>6. QED BY <1>3, <1>4, <1>5 DEF t

LEMMA StartKeepsIInv ==
    ASSUME IInv, Start
    PROVE  Stays /\ store' = store /\ app.on = Nothing
  <1> DEFINE a == [Closed EXCEPT !.up = TRUE]
             s == [Now EXCEPT !.app = a]
  <1>1. PICK t \in LoadAnyNote(s) \union {s} : app' = t.app /\ store' = t.store /\ left' = t.left
    BY DEF Start, Becomes
  <1>2. Empty(a) /\ a.up
    BY ClosedIsEmpty
  <1> HIDE DEF a
  <1>3. Sound(Now) /\ Now.store = store /\ app.on = Nothing /\ outside' = Nothing
    BY DEF Start, IInv, TypeOK, Now, Sound, Situation
  <1>4. Good(s) /\ s.app = a /\ s.store = Now.store
    BY <1>2, <1>3, EmptyIsGood
  <1>5. s.store = store /\ Loose(s)
    BY <1>2, <1>3, <1>4 DEF Empty, Loose
  <1> HIDE DEF s
  <1>6. Good(t) /\ t.store = store
    <2>1. CASE t = s
      BY <1>4, <1>5, <2>1
    <2>2. CASE t \in LoadAnyNote(s)
      <3>1. Reads(s, t)
        BY <1>4, <2>2, AnyNoteReads DEF Good, Fit
      <3>2. QED BY <1>4, <1>5, <3>1, ReadingStaysGood DEF Reads
    <2>3. QED BY <1>1, <2>1, <2>2
  <1>7. Advances(store, t.store)
    BY <1>6, StayingAdvances DEF Good, Fit, Sound, Situation
  <1>8. Stays
    BY <1>1, <1>3, <1>6, <1>7, Staying
  <1>9. QED BY <1>1, <1>3, <1>6, <1>8

\* run, after its loop: the draft is in a file, or the reader was told.
LEMMA SettlingWorks ==
    ASSUME NEW s, Sound(s)
    PROVE  /\ Sound(Settled(s)) /\ Settled(s).store = s.store
           /\ Pending(s.app) =>
                [note |-> s.app.current.id, text |-> s.app.draft] \in Settled(s).left
  <1>1. CASE ~Pending(s.app)
    BY <1>1 DEF Settled
  <1>2. CASE Pending(s.app)
    <2> DEFINE file == [note |-> s.app.current.id, text |-> s.app.draft]
               kept == s.left \union {file}
               t == [s EXCEPT !.left = kept]
    <2>1. s \in Situation /\ s.app \in App /\ s.left \in SUBSET Texting
      BY DEF Sound, Situation
    <2>2. s.app.current \in Loaded /\ s.app.draft \in Texts
      BY <1>2, <2>1 DEF Pending, App
    <2>3. kept \in SUBSET Texting /\ file \in kept
      BY <2>1, <2>2 DEF Texting, Loaded
    <2>4. Settled(s) = t
      BY <1>2 DEF Settled, Preserved
    <2> HIDE DEF kept
    <2>5. t \in Situation /\ t.app = s.app /\ t.store = s.store /\ t.left = kept
      BY <2>1, <2>3 DEF Situation
    <2> HIDE DEF t
    <2>6. Sound(t)
      BY <2>5 DEF Sound
    <2>7. QED BY <2>3, <2>4, <2>5, <2>6
  <1>3. QED BY <1>1, <1>2

LEMMA ExitKeepsIInv ==
    ASSUME IInv, Exit
    PROVE  /\ Stays /\ store' = store
           /\ Pending(app) =>
                [note |-> app.current.id, text |-> app.draft] \in left' \/ app'.told
  <1> DEFINE file == [note |-> app.current.id, text |-> app.draft]
             settled == Settled(Now)
             told == [Closed EXCEPT !.told = TRUE]
  <1>1. Good(Now) /\ Now.app = app /\ Now.store = store
    BY NowIsGood DEF Exit
  <1>2. /\ Sound(Now) /\ Sound(settled) /\ settled.store = store
        /\ Pending(app) => file \in settled.left
    BY <1>1, SettlingWorks DEF Good, Fit
  <1>3. PICK t \in {[settled EXCEPT !.app = Closed], [Now EXCEPT !.app = told]} :
          app' = t.app /\ store' = t.store /\ left' = t.left
    BY DEF Exit, Becomes
  <1>4. Empty(Closed) /\ Empty(told) /\ told.told
    BY ClosedIsEmpty
  <1> HIDE DEF settled, file, told
  <1>5. /\ t.store = store /\ t.left \in SUBSET Texting /\ Empty(t.app)
        /\ Pending(app) => file \in t.left \/ t.app.told
    <2>1. CASE t = [settled EXCEPT !.app = Closed]
      BY <1>2, <1>4, <2>1, EmptyIsGood
    <2>2. CASE t = [Now EXCEPT !.app = told]
      BY <1>1, <1>2, <1>4, <2>2, EmptyIsGood
    <2>3. QED BY <1>3, <2>1, <2>2
  <1>6. outside' = Nothing /\ store \in [Notes -> Files]
    BY DEF Exit, IInv, TypeOK
  <1>7. Stays
    BY <1>3, <1>5, <1>6 DEF Empty, Stays, IInv, TypeOK, Together, HasItsNote, Known
  <1>8. QED BY <1>3, <1>5, <1>7 DEF file

LEMMA AnotherProcessKeepsIInv ==
    ASSUME IInv, AnotherProcess
    PROVE  Stays
  <1>1. /\ store \in [Notes -> Files] /\ app \in App /\ outside \in Session \union {Nothing}
        /\ left' = {} /\ UNCHANGED <<app, outside>>
    BY DEF IInv, TypeOK, AnotherProcess
  <1>2. PICK n \in Notes : \E file \in Files :
          Follows(file, store, n) /\ store' = [store EXCEPT ![n] = file]
    <2>1. PICK n \in Notes :
            \/ /\ store[n].place = "live"
               /\ store[n].rev < MaxRevision
               /\ \E t \in Texts : store' = [store EXCEPT ![n].text = Canonical[t], ![n].rev = @ + 1]
            \/ store[n].place = "live" /\ store' = [store EXCEPT ![n].place = "trash"]
            \/ store[n].place = "trash" /\ store' = [store EXCEPT ![n].place = "live"]
      BY DEF AnotherProcess
    <2>2. /\ store[n] \in Files /\ store[n].rev \in Nat /\ store[n].rev \in 0..MaxRevision
          /\ store[n].text \in Texts
      BY <1>1, FilesAre DEF Files
    <2>3. ASSUME NEW t \in Texts, store[n].rev < MaxRevision, store[n].place = "live",
                 store' = [store EXCEPT ![n].text = Canonical[t], ![n].rev = @ + 1]
          PROVE  \E file \in Files : Follows(file, store, n) /\ store' = [store EXCEPT ![n] = file]
      <3> DEFINE file == [place |-> "live", text |-> Canonical[t], rev |-> store[n].rev + 1]
      <3>1. file \in Files
        BY <2>2, <2>3, NothingAssumption, CanonicalAssumption DEF Files
      <3>2. Follows(file, store, n)
        BY DEF Follows
      <3>3. store' = [store EXCEPT ![n] = file]
        BY <1>1, <2>2, <2>3 DEF Files
      <3>4. QED BY <3>1, <3>2, <3>3
    <2>4. ASSUME NEW place \in {"live", "trash"}, store' = [store EXCEPT ![n].place = place]
          PROVE  \E file \in Files : Follows(file, store, n) /\ store' = [store EXCEPT ![n] = file]
      <3> DEFINE file == [store[n] EXCEPT !.place = place]
      <3>1. file \in Files /\ file.place = place /\ file.rev = store[n].rev
            /\ file.text = store[n].text
        BY <2>2 DEF Files
      <3>2. Follows(file, store, n)
        BY <3>1 DEF Follows
      <3>3. QED BY <2>4, <3>1, <3>2
    <2>5. QED BY <2>1, <2>3, <2>4
  <1>3. PICK file \in Files : Follows(file, store, n) /\ store' = [store EXCEPT ![n] = file]
    BY <1>2
  <1>4. store' \in [Notes -> Files] /\ Advances(store, store')
    BY <1>1, <1>3, FollowingAdvances
  <1>5. /\ app.current \in Loaded \union {Nothing} /\ app.asked \in Loaded \union {Nothing}
        /\ outside # Nothing => outside.doc \in Loaded
    BY <1>1 DEF App, Live, Session
  <1>6. Known(app.current, store') /\ Known(app.asked, store')
        /\ (outside # Nothing => Known(outside.doc, store'))
    BY <1>1, <1>4, <1>5, StaysKnown DEF IInv
  <1>7. QED BY <1>1, <1>4, <1>6 DEF Stays, IInv, TypeOK, Together, HasItsNote

-----------------------------------------------------------------------------
(* Every step                                                              *)

LEMMA InitIInv == Init => IInv
  <1> SUFFICES ASSUME Init PROVE IInv
    OBVIOUS
  <1>1. store \in [Notes -> Files]
    BY CanonicalAssumption, NothingAssumption DEF Init, Files
  <1>2. Empty(app)
    BY ClosedIsEmpty DEF Init
  <1>3. outside = Nothing /\ left \in SUBSET Texting
    BY DEF Init
  <1>4. QED BY <1>1, <1>2, <1>3 DEF IInv, TypeOK, Empty, Known, Loose, Together, HasItsNote

\* An event is handled by a program that runs.
LEMMA EventsNeedAProgram ==
    ASSUME IInv,
           Keyboard \/ Click \/ WheelList \/ WheelReader \/ OpenOutside \/ TypeOutside \/ CloseOutside \/ FailOutside
    PROVE  app.up
  <1>1. CASE Running
    BY <1>1 DEF Running
  <1>2. CASE outside # Nothing
    BY <1>2 DEF IInv
  <1>3. CASE \E focus \in {"list", "reader", "search", "editor"} : Key(focus)
    BY <1>3 DEF Key, Running
  <1>4. CASE Keyboard \/ Click \/ WheelList \/ WheelReader
    BY <1>1, <1>3, <1>4
       DEF Keyboard, CtrlC, AnswerDiscard, SwitchPanel, Select, OpenRow, Create, Toggle, Restore,
           AskDiscard, EditShown, Search, SearchEnds, Back, Quit, Type, Save, Escape, Typing,
           Asking, AnswerSave, AnswerDrop, AnswerPreserve, AnswerReread, AnswerResume, Click,
           ClickOn, WheelList, WheelReader
  <1>5. CASE OpenOutside \/ TypeOutside \/ CloseOutside \/ FailOutside
    BY <1>2, <1>3, <1>5 DEF OpenOutside, TypeOutside, CloseOutside, FailOutside
  <1>6. QED BY <1>4, <1>5

\* Every step but the answer to a discard keeps a draft with its note.
LEMMA NextStays ==
    ASSUME IInv, Next
    PROVE  Stays \/ (IInv' /\ AnswerDiscard)
  <1>1. CASE Keyboard
    <2> app.up
      BY <1>1, EventsNeedAProgram
    <2>1. QED
      BY <1>1, CtrlCKeepsIInv, AnswerDiscardKeepsIInv, MovingKeepsIInv, CreateKeepsIInv,
         ToggleKeepsIInv, RestoreKeepsIInv, AskDiscardKeepsIInv, TypeKeepsIInv, SaveKeepsIInv,
         EscapeKeepsIInv, AnswerSaveKeepsIInv, AnswerDropKeepsIInv, AnswerPreserveKeepsIInv,
         AnswerRereadKeepsIInv, AnswerResumeKeepsIInv DEF Keyboard
  <1>2. CASE Click \/ WheelList \/ WheelReader
    <2> app.up
      BY <1>2, EventsNeedAProgram
    <2>1. QED BY <1>2, ClickOnKeepsIInv, WheelListKeepsIInv, WheelReaderKeepsIInv DEF Click
  <1>3. CASE OpenOutside \/ TypeOutside \/ CloseOutside \/ FailOutside
    <2> app.up
      BY <1>3, EventsNeedAProgram
    <2>1. QED
      BY <1>3, OpenOutsideKeepsIInv, TypeOutsideKeepsIInv, CloseOutsideKeepsIInv,
         FailOutsideKeepsIInv
  <1>4. CASE Start \/ Exit \/ AnotherProcess
    BY <1>4, StartKeepsIInv, ExitKeepsIInv, AnotherProcessKeepsIInv
  <1>5. QED BY <1>1, <1>2, <1>3, <1>4 DEF Next

LEMMA NextKeepsIInv == IInv /\ [Next]_vars => IInv'
  <1>1. IInv /\ Next => IInv'
    BY NextStays DEF Stays
  <1>2. IInv /\ UNCHANGED vars => IInv'
    BY DEF vars, IInv, TypeOK, HasItsNote, Known
  <1>3. QED BY <1>1, <1>2

-----------------------------------------------------------------------------
(* The theorems                                                            *)

\* The state a handler of the terminal editor relies on holds in every
\* reachable state: what is on screen and what is asked about was read from the
\* store, and the external editor never runs over the terminal's own
\* (noteit-tui/src/app.rs: handle_key, handle_mouse, open_editor; editor.rs).
THEOREM TerminalInvariant == Spec => []IInv
  <1>1. QED BY InitIInv, NextKeepsIInv, PTL DEF Spec

\* Every field has its type: only a note of notes/ is under a draft, about to
\* be discarded or with the external editor (app.rs: App; editor.rs: EditorSession).
THEOREM TerminalTypes == Spec => []TypeOK
  <1>1. IInv => TypeOK
    BY DEF IInv
  <1>2. QED BY <1>1, TerminalInvariant, PTL

\* No key, click, wheel, preview or reading parts a draft from the note, and the
\* reading of it, that it was opened on, whatever other processes write: a
\* discard confirmed over an editor that a click opened meanwhile is the only
\* step that does (app.rs: start_editing, reseat_draft, handle_key, handle_mouse,
\* the answer to a discard).
THEOREM DraftsStayOnTheirNotes == Spec => DraftOnItsNote
  <1> DEFINE Kept == Together(app) => Together(app') \/ (AnswerDiscard /\ app.focus = "editor")
  <1>1. ASSUME IInv, Next PROVE Kept
    <2>1. CASE Stays
      BY <2>1 DEF Stays
    <2>2. CASE AnswerDiscard /\ app.focus # "editor"
      <3>1. app.up
        BY <2>2 DEF AnswerDiscard, Running
      <3>2. app'.draft = app.draft
        BY <1>1, <2>2, <3>1, AnswerDiscardKeepsIInv
      <3>3. QED BY <2>2, <3>2 DEF Together
    <2>3. QED BY <1>1, <2>1, <2>2, NextStays
  <1>2. IInv /\ [Next]_vars => [Kept]_vars
    BY <1>1
  <1>3. QED BY <1>2, TerminalInvariant, PTL DEF Spec, DraftOnItsNote

\* Text that is not saved, in the editor and not the text of the note on screen:
\* it stays, or is where DraftKept says.
LEMMA DraftInFront ==
    ASSUME IInv, Next, app.focus = "editor", Pending(app)
    PROVE  \/ app'.draft = app.draft /\ app'.on = app.on
           \/ Found(app.current.id)
           \/ Type \/ AnswerDrop \/ AnswerReread
           \/ AnswerSave /\ app.click = "task"
           \/ app'.told
  <1> app.up /\ outside = Nothing
    BY DEF IInv, HasItsNote, Pending
  <1>1. CASE CtrlC \/ Escape \/ AnswerResume \/ AnswerDiscard
    BY <1>1, CtrlCKeepsIInv, EscapeKeepsIInv, AnswerResumeKeepsIInv, AnswerDiscardKeepsIInv
  <1>2. CASE Click \/ WheelList
    BY <1>2, ClickOnKeepsIInv, WheelListKeepsIInv DEF Click
  <1>3. CASE Save
    BY <1>3, SaveKeepsIInv DEF Found
  <1>4. CASE AnswerPreserve
    BY <1>4, AnswerPreserveKeepsIInv DEF Found
  <1>5. CASE AnswerSave
    BY <1>5, AnswerSaveKeepsIInv DEF Found
  <1>6. CASE Type \/ AnswerDrop \/ AnswerReread
    BY <1>6
  <1>7. CASE Exit
    BY <1>7, ExitKeepsIInv DEF Found
  <1>8. CASE AnotherProcess
    BY <1>8 DEF AnotherProcess
  <1>9. ~(\/ SwitchPanel \/ Select \/ OpenRow \/ Create \/ Toggle \/ Restore \/ AskDiscard
          \/ EditShown \/ Search \/ SearchEnds \/ Back \/ Quit \/ OpenOutside)
    <2>1. \A focus \in {"list", "reader", "search"} : ~Key(focus)
      BY DEF Key
    <2>2. QED BY <2>1 DEF SwitchPanel, Select, OpenRow, Create, Toggle, Restore, AskDiscard,
                          EditShown, Search, SearchEnds, Back, Quit, OpenOutside
  <1>10. ~(TypeOutside \/ CloseOutside \/ FailOutside)
    BY DEF TypeOutside, CloseOutside, FailOutside
  <1>11. ~(Start \/ WheelReader)
    BY DEF Start, WheelReader
  <1>12. QED BY <1>1, <1>2, <1>3, <1>4, <1>5, <1>6, <1>7, <1>8, <1>9, <1>10, <1>11
             DEF Next, Keyboard

LEMMA StepKeepsDraft ==
    ASSUME IInv, Next
    PROVE  DraftKept
  <1> SUFFICES ASSUME Unsaved PROVE DraftKept
    BY DEF DraftKept
  <1>1. CASE Together(app)
    <2>1. app.focus = "editor" /\ app.current = app.on
      BY <1>1 DEF Together, Unsaved
    <2>2. Pending(app)
      BY <2>1 DEF Unsaved, Pending, IInv, HasItsNote
    <2>3. QED BY <2>1, <2>2, DraftInFront DEF DraftKept
  <1>2. CASE ~Together(app)
    <2>1. CASE app.focus = "editor" /\ Pending(app)
      BY <1>2, <2>1, DraftInFront DEF DraftKept
    <2>2. QED BY <1>2, <2>1 DEF DraftKept
  <1>3. QED BY <1>1, <1>2

LEMMA StepKeepsOutside ==
    ASSUME IInv, Next
    PROVE  OutsideKept
  <1> SUFFICES ASSUME outside # Nothing, outside' = Nothing PROVE OutsideKept
    BY DEF OutsideKept
  <1> app.up
    BY DEF IInv
  <1>1. CASE CloseOutside
    BY <1>1, CloseOutsideKeepsIInv DEF OutsideKept
  <1>2. CASE FailOutside
    BY <1>2, FailOutsideKeepsIInv DEF OutsideKept
  <1>3. ~TypeOutside
    BY TypeOutsideKeepsIInv
  <1>4. ~(Keyboard \/ Click \/ WheelList \/ WheelReader \/ OpenOutside)
    <2>1. ~Running
      BY DEF Running
    <2>2. QED
      BY <2>1
         DEF Keyboard, CtrlC, AnswerDiscard, SwitchPanel, Select, OpenRow, Create, Toggle, Restore,
             AskDiscard, EditShown, Search, SearchEnds, Back, Quit, Type, Save, Escape, Typing,
             Asking, AnswerSave, AnswerDrop, AnswerPreserve, AnswerReread, AnswerResume, Click,
             ClickOn, WheelList, WheelReader, OpenOutside, Key
  <1>5. ~(Start \/ Exit \/ AnotherProcess)
    BY DEF Start, Exit, AnotherProcess
  <1>6. QED BY <1>1, <1>2, <1>3, <1>4, <1>5 DEF Next

\* No text is lost but by what the reader answered or was told, as long as the
\* draft is with its note, and after a discard has parted them as long as the
\* editor still has it and it says something else than the note on screen
\* (app.rs: save_draft, answer_prompt, run); nor is the external editor's
\* (editor.rs: EditorSession; app.rs: open_editor).
THEOREM NoTextIsLost == Spec => TextKept
  <1>1. IInv /\ [Next]_vars => [DraftKept /\ OutsideKept]_vars
    BY StepKeepsDraft, StepKeepsOutside
  <1>2. QED BY <1>1, TerminalInvariant, PTL DEF Spec, TextKept

\* A step that writes a reading replaces that reading, and nothing else.
LEMMA WrittenWasThere ==
    ASSUME IInv, NEW doc, Written(doc), NEW n \in Notes, store'[n] # store[n]
    PROVE  WasThere(n) = doc
  <1>1. /\ AsRead(store, doc)
        /\ \E file : store' = [store EXCEPT ![doc.id] = file]
    BY DEF Written
  <1>2. n = doc.id
    BY <1>1 DEF IInv, TypeOK
  <1>3. QED BY <1>1, <1>2 DEF AsRead, WasThere

LEMMA StepSeesWhatItWrites ==
    ASSUME IInv, Next, NEW n \in Notes, store[n].place # "absent", store'[n] # store[n],
           ~AnotherProcess, ~ReadsFirst
    PROVE  ShownFor(n)
  <1>1. CASE Keyboard
    <2> app.up
      BY <1>1, EventsNeedAProgram
    <2>1. CASE Save \/ AnswerSave
      <3>1. /\ Written(app.current) /\ (store' # store => Pending(app))
        BY <2>1, SaveKeepsIInv, AnswerSaveKeepsIInv DEF ReadsFirst
      <3>2. WasThere(n) = app.current /\ app.draft # Nothing
        BY <3>1, WrittenWasThere DEF Pending
      <3>3. QED BY <2>1, <3>2 DEF ShownFor, Together
    <2>2. CASE Toggle
      BY <2>2, ToggleKeepsIInv, WrittenWasThere DEF ShownFor, ReadsFirst
    <2>3. CASE Restore
      BY <2>3, RestoreKeepsIInv, WrittenWasThere DEF ShownFor
    <2>4. CASE AnswerDiscard
      BY <2>4, AnswerDiscardKeepsIInv, WrittenWasThere DEF ShownFor
    <2>5. ~Create
      BY CreateKeepsIInv
    <2>6. ~AnswerDrop
      BY AnswerDropKeepsIInv DEF ReadsFirst
    <2>7. QED
      BY <1>1, <2>1, <2>2, <2>3, <2>4, <2>5, <2>6, CtrlCKeepsIInv, MovingKeepsIInv,
         AskDiscardKeepsIInv, TypeKeepsIInv, EscapeKeepsIInv, AnswerPreserveKeepsIInv,
         AnswerRereadKeepsIInv, AnswerResumeKeepsIInv DEF Keyboard
  <1>2. CASE CloseOutside
    <2>1. app.up
      BY <1>2, EventsNeedAProgram
    <2>2. QED BY <1>2, <2>1, CloseOutsideKeepsIInv, WrittenWasThere DEF ShownFor
  <1>3. ~(OpenOutside \/ TypeOutside \/ FailOutside)
    BY EventsNeedAProgram, OpenOutsideKeepsIInv, TypeOutsideKeepsIInv, FailOutsideKeepsIInv
  <1>4. ~(Click \/ WheelList \/ WheelReader)
    BY EventsNeedAProgram, ClickOnKeepsIInv, WheelListKeepsIInv, WheelReaderKeepsIInv
       DEF Click, ReadsFirst
  <1>5. ~(Start \/ Exit)
    BY StartKeepsIInv, ExitKeepsIInv
  <1>6. QED BY <1>1, <1>2, <1>3, <1>4, <1>5 DEF Next

\* A draft replaces the reading it was opened on, and a discard, a task of the
\* reader, a restoration and the external editor the reading their reader saw; a
\* draft that a discard has parted from its note replaces what was read since
\* (app.rs: save_draft, toggle_task, mutation_error, the answers to a discard;
\* editor.rs: finish), whatever other processes write in between.
THEOREM NothingIsReplacedUnseen == Spec => NothingUnseen
  <1> DEFINE Seen == \A n \in Notes :
               store[n].place # "absent" /\ store'[n] # store[n] =>
                 AnotherProcess \/ ShownFor(n) \/ ReadsFirst
  <1>1. ASSUME IInv, Next PROVE Seen
    BY <1>1, StepSeesWhatItWrites
  <1>2. IInv /\ [Next]_vars => [Seen]_vars
    BY <1>1 DEF vars
  <1>3. QED BY <1>2, TerminalInvariant, PTL DEF Spec, NothingUnseen

=============================================================================
