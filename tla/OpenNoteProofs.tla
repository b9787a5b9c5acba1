---------------------------- MODULE OpenNoteProofs ----------------------------
(***************************************************************************)
(* What is proved of OpenNote for every set of notes and every bound, in   *)
(* six parts.                                                              *)
(*   - Its types.                                                          *)
(*   - The claims on the coordinator: hiding and quitting never overlap an *)
(*     external write, the host's document describes the file, and no      *)
(*     write reverts an appearance change.                                 *)
(*   - What may be on its way between a page and the host: what a queue    *)
(*     says (In), the strengthening (Barrier, RequestsToldApart), and what *)
(*     any step does to one note, seen from its page (PageStep) or from    *)
(*     the host (HostStep). The proofs below use these two relations and   *)
(*     no action: EveryStep shows that each step is of one of them.        *)
(*   - What the texts carry: what was written (WrittenCarried), what was   *)
(*     typed (TypedIsHeld), and where a mark may be (MarksAccounted).      *)
(*   - What a discard takes away.                                          *)
(*   - What a page answered with when its window closes: the order of its  *)
(*     answers (AnswersAccounted), and what a hide or a quit waits for     *)
(*     (BatchCounted, BatchSaved).                                         *)
(***************************************************************************)
EXTENDS OpenNote, FiniteSetTheorems, TLAPS

-----------------------------------------------------------------------------
(* Its types. The page's own operators keep them.                          *)

(* A new page is well typed, whatever its phase.                           *)
LEMMA PageInType ==
    ASSUME NEW phase \in Phases
    PROVE  PageIn(phase) \in Pages
  BY DEF PageIn, Pages, NoRequest, RequestIds, Bodies, Deferred

(* A message built from typed parts is a message.                          *)
LEMMA MessageType ==
    ASSUME NEW types, NEW type \in types, NEW req \in RequestIds \cup {NoRequest},
           NEW gen \in Nat, NEW text \in Bodies
    PROVE  Message(type, req, gen, text) \in Messages(types)
  BY DEF Message, Messages

(* The edits held in a queue are edits.                                    *)
LEMMA InsertedType ==
    ASSUME NEW queue \in Seq(Deferred), NEW item
    PROVE  Inserted(queue) \in Bodies /\ Before(queue, CloseAction) \in Bodies
  BY DEF Inserted, Before, Deferred, Bodies, CloseAction, Marks

(* Releasing a page leaves a page.                                         *)
LEMMA ReleasedType ==
    ASSUME NEW p \in Pages
    PROVE  Released(p) \in Pages
  <1>1. p.text \cup Inserted(p.queue) \in Bodies
    BY InsertedType DEF Pages, Bodies
  <1>2. EditsLast(p.queue) \in BOOLEAN
    BY DEF EditsLast
  <1>3. <<>> \in Seq(Deferred)
    OBVIOUS
  <1>4. "idle" \in Phases /\ NoRequest \in RequestIds \cup {NoRequest}
    BY DEF Phases
  <1> QED
    BY <1>1, <1>2, <1>3, <1>4 DEF Released, Pages

(* Two sequences over a set make a sequence over it.                       *)
LEMMA ConcatType ==
    ASSUME NEW S, NEW a \in Seq(S), NEW b \in Seq(S)
    PROVE  a \o b \in Seq(S)
  OBVIOUS

(* What goes out on a channel of typed messages leaves it typed.           *)
LEMMA SendType ==
    ASSUME NEW types, NEW channels \in [Notes -> Seq(Messages(types))],
           NEW n \in Notes, NEW messages \in Seq(Messages(types))
    PROVE  [channels EXCEPT ![n] = @ \o messages] \in [Notes -> Seq(Messages(types))]
  OBVIOUS

(* So does taking the oldest message, and that message is typed.           *)
LEMMA ReceiveType ==
    ASSUME NEW types, NEW channels \in [Notes -> Seq(Messages(types))],
           NEW n \in Notes, channels[n] # <<>>
    PROVE  /\ [channels EXCEPT ![n] = Tail(@)] \in [Notes -> Seq(Messages(types))]
           /\ Head(channels[n]) \in Messages(types)
           /\ Head(channels[n]).req \in RequestIds \cup {NoRequest}
           /\ Head(channels[n]).gen \in Nat
           /\ Head(channels[n]).text \in Bodies
  <1>1. Head(channels[n]) \in Messages(types) /\ Tail(channels[n]) \in Seq(Messages(types))
    OBVIOUS
  <1> QED
    BY <1>1 DEF Messages

(* The close a released page sends is a message of the page.               *)
LEMMA HeldCloseType ==
    ASSUME NEW p \in Pages
    PROVE  HeldClose(p) \in Seq(Messages(ToHostTypes))
  <1>1. p.text \cup Before(p.queue, CloseAction) \in Bodies
    BY InsertedType DEF Pages, Bodies
  <1>2. "save_and_close" \in ToHostTypes /\ p.gen \in Nat
    BY DEF ToHostTypes, Pages
  <1>3. Message("save_and_close", NoRequest, p.gen, p.text \cup Before(p.queue, CloseAction))
            \in Messages(ToHostTypes)
    BY <1>1, <1>2, MessageType
  <1> QED
    BY <1>3 DEF HeldClose

-----------------------------------------------------------------------------
(* The actions of the page keep its types.                                 *)

(* What the page does with a message of the host keeps PageTypeOK.         *)
LEMMA PageHearsType ==
    ASSUME PageTypeOK, NEW n \in Notes, PageHears(n)
    PROVE  PageTypeOK'
  <1> USE DEF PageTypeOK
  <1> DEFINE m == Head(toPage[n])
  <1>p. /\ page[n] \in Pages
        /\ page[n].text \in Bodies
        /\ page[n].gen \in Nat
        /\ page[n].req \in RequestIds \cup {NoRequest}
    BY DEF Pages
  <1>r. toPage[n] # <<>>
    BY DEF PageHears, LoadNote, AnswerFlush, Begin, Apply, Abort, Receive
  <1>m. /\ [toPage EXCEPT ![n] = Tail(@)] \in [Notes -> Seq(Messages(ToPageTypes))]
        /\ m.req \in RequestIds \cup {NoRequest}
        /\ m.gen \in Nat
        /\ m.text \in Bodies
    BY <1>r, ReceiveType
  <1>t. toPage' \in [Notes -> Seq(Messages(ToPageTypes))]
    BY <1>m DEF PageHears, LoadNote, AnswerFlush, Begin, Apply, Abort, Receive
  <1>u. UNCHANGED <<nextMark, typed>>
    BY DEF PageHears, LoadNote, AnswerFlush, Begin, Apply, Abort
  <1>c. \A x \in Messages(ToHostTypes) : <<x>> \in Seq(Messages(ToHostTypes))
    OBVIOUS
  <1>e. {} \in Bodies
    BY DEF Bodies
  <1> HIDE DEF m
  <1>s. ASSUME NEW messages \in Seq(Messages(ToHostTypes)), Send(n, messages)
        PROVE  toHost' \in [Notes -> Seq(Messages(ToHostTypes))]
    BY <1>s, SendType DEF Send
  <1>1. CASE LoadNote(n)
    <2>1. PageIn("idle") \in Pages
      BY PageInType DEF Phases
    <2>2. [PageIn("idle") EXCEPT !.gen = m.gen, !.text = m.text] \in Pages
      BY <2>1, <1>m DEF Pages
    <2>3. page' = [page EXCEPT ![n] = [PageIn("idle") EXCEPT !.gen = m.gen, !.text = m.text]]
      BY <1>1 DEF LoadNote, m
    <2>4. UNCHANGED toHost
      BY <1>1 DEF LoadNote
    <2> QED
      BY <2>2, <2>3, <2>4, <1>t, <1>u
  <1>2. CASE AnswerFlush(n)
    <2>1. CASE UNCHANGED <<page, toHost>>
      BY <2>1, <1>t, <1>u
    <2>2. CASE ~UNCHANGED <<page, toHost>>
      <3>1. /\ page' = [page EXCEPT ![n].dirty = FALSE]
            /\ Send(n, <<Message("flush_response", m.req, page[n].gen, page[n].text)>>)
        BY <1>2, <2>2 DEF AnswerFlush, m
      <3>2. [page[n] EXCEPT !.dirty = FALSE] \in Pages
        BY <1>p DEF Pages
      <3>3. Message("flush_response", m.req, page[n].gen, page[n].text) \in Messages(ToHostTypes)
        BY <1>p, <1>m, MessageType DEF ToHostTypes
      <3>4. toHost' \in [Notes -> Seq(Messages(ToHostTypes))]
        BY <3>1, <3>3, <1>c, <1>s
      <3> QED
        BY <3>1, <3>2, <3>4, <1>t, <1>u
    <2> QED
      BY <2>1, <2>2
  <1>3. CASE Begin(n)
    <2>1. CASE UNCHANGED <<page, toHost>>
      BY <2>1, <1>t, <1>u
    <2>2. CASE ~UNCHANGED <<page, toHost>>
      <3>1. /\ page' = [page EXCEPT ![n] = [page[n] EXCEPT !.phase = "syncing", !.req = m.req,
                                                           !.dirty = FALSE]]
            /\ Send(n, <<Message("external_write_ready", m.req, m.gen, page[n].text)>>)
        BY <1>3, <2>2 DEF Begin, m
      <3>2. [page[n] EXCEPT !.phase = "syncing", !.req = m.req, !.dirty = FALSE] \in Pages
        BY <1>p, <1>m DEF Pages, Phases
      <3>3. Message("external_write_ready", m.req, m.gen, page[n].text) \in Messages(ToHostTypes)
        BY <1>p, <1>m, MessageType DEF ToHostTypes
      <3>4. toHost' \in [Notes -> Seq(Messages(ToHostTypes))]
        BY <3>1, <3>3, <1>c, <1>s
      <3> QED
        BY <3>1, <3>2, <3>4, <1>t, <1>u
    <2> QED
      BY <2>1, <2>2
  <1>4. CASE Apply(n)
    <2> DEFINE p == [page[n] EXCEPT !.text = m.text, !.gen = m.gen]
               Refused == <<Message("external_write_apply_failed", m.req, 0, {})>>
               Acked == <<Message("external_write_applied", m.req, m.gen, {})>>
    <2>1. p \in Pages /\ [page[n] EXCEPT !.phase = "unsynchronised"] \in Pages
      BY <1>p, <1>m DEF Pages, Phases
    <2>2. Refused \in Seq(Messages(ToHostTypes)) /\ Acked \in Seq(Messages(ToHostTypes))
      <3>1. /\ Message("external_write_apply_failed", m.req, 0, {}) \in Messages(ToHostTypes)
            /\ Message("external_write_applied", m.req, m.gen, {}) \in Messages(ToHostTypes)
        BY <1>m, <1>e, MessageType DEF ToHostTypes
      <3> QED
        BY <3>1, <1>c
    <2>3. Released(p) \in Pages /\ HeldClose(p) \in Seq(Messages(ToHostTypes))
      BY <2>1, ReleasedType, HeldCloseType
    <2>4. \/ UNCHANGED <<page, toHost>>
          \/ Send(n, Refused) /\ UNCHANGED page
          \/ Send(n, Refused) /\ page' = [page EXCEPT ![n].phase = "unsynchronised"]
          \/ Send(n, HeldClose(p) \o Acked) /\ page' = [page EXCEPT ![n] = Released(p)]
      BY <1>4 DEF Apply, Adopted, m
    <2> HIDE DEF p, Refused, Acked
    <2>5. HeldClose(p) \o Acked \in Seq(Messages(ToHostTypes))
      BY <2>2, <2>3
    <2>6. toHost' \in [Notes -> Seq(Messages(ToHostTypes))]
      BY <2>2, <2>4, <2>5, <1>s
    <2>7. page' \in [Notes -> Pages]
      BY <2>1, <2>3, <2>4
    <2> QED
      BY <2>6, <2>7, <1>t, <1>u
  <1>5. CASE Abort(n)
    <2>1. Released(page[n]) \in Pages /\ HeldClose(page[n]) \in Seq(Messages(ToHostTypes))
      BY <1>p, ReleasedType, HeldCloseType
    <2>2. \/ UNCHANGED <<page, toHost>>
          \/ page' = [page EXCEPT ![n] = Released(page[n])] /\ Send(n, HeldClose(page[n]))
      BY <1>5 DEF Abort
    <2>3. toHost' \in [Notes -> Seq(Messages(ToHostTypes))]
      BY <2>1, <2>2, <1>s
    <2> QED
      BY <2>1, <2>2, <2>3, <1>t, <1>u
  <1> QED
    BY <1>1, <1>2, <1>3, <1>4, <1>5 DEF PageHears

(* Everything the page and its reader do keeps PageTypeOK.                 *)
LEMMA PageStepType ==
    ASSUME PageTypeOK, PageAssumption, NEW n \in Notes,
           \/ Type(n) \/ DeferEdit(n) \/ Autosave(n) \/ SaveAndClose(n) \/ ChangePaper(n)
           \/ PageHears(n) \/ SlowNotice(n)
    PROVE  PageTypeOK'
  <1> USE DEF PageTypeOK
  <1>p. /\ page[n] \in Pages
        /\ page[n].text \in Bodies
        /\ page[n].gen \in Nat
        /\ page[n].req \in RequestIds \cup {NoRequest}
        /\ page[n].queue \in Seq(Deferred)
    BY DEF Pages
  <1>m. nextMark \in Marks => /\ nextMark + 1 \in 1 .. MaxMarks + 1
                              /\ {nextMark} \in Bodies
                              /\ nextMark \in Deferred
    BY DEF PageAssumption, Marks, Bodies, Deferred
  <1>f. \A types : \A type \in types : \A req \in RequestIds \cup {NoRequest} :
            Message(type, req, page[n].gen, page[n].text) \in Messages(types)
    BY <1>p, MessageType
  <1>c. \A types : \A m \in Messages(types) : <<m>> \in Seq(Messages(types))
    OBVIOUS
  <1>1. CASE Type(n)
    <2>1. [page[n] EXCEPT !.text = @ \cup {nextMark}, !.dirty = TRUE] \in Pages
      BY <1>1, <1>p, <1>m DEF Type, Mark, Pages, Bodies
    <2>2. page' \in [Notes -> Pages]
      BY <1>1, <2>1 DEF Type
    <2>3. typed' \in [Notes -> Bodies] /\ nextMark' \in 1 .. MaxMarks + 1
      BY <1>1, <1>m DEF Type, Mark, Bodies
    <2> QED
      BY <1>1, <2>2, <2>3 DEF Type
  <1>2. CASE DeferEdit(n)
    <2>1. [page[n] EXCEPT !.queue = Append(@, nextMark)] \in Pages
      <3>1. Append(page[n].queue, nextMark) \in Seq(Deferred)
        BY <1>2, <1>p, <1>m DEF DeferEdit, Mark
      <3> QED
        BY <3>1 DEF Pages
    <2>2. page' \in [Notes -> Pages]
      BY <1>2, <2>1 DEF DeferEdit
    <2>3. typed' \in [Notes -> Bodies] /\ nextMark' \in 1 .. MaxMarks + 1
      BY <1>2, <1>m DEF DeferEdit, Mark, Bodies
    <2> QED
      BY <1>2, <2>2, <2>3 DEF DeferEdit
  <1>3. CASE Autosave(n)
    <2>1. [page[n] EXCEPT !.dirty = FALSE] \in Pages
      BY <1>p DEF Pages
    <2>2. "content_changed" \in ToHostTypes
      BY DEF ToHostTypes
    <2>3. (IF Active(n) THEN <<>>
           ELSE <<Message("content_changed", NoRequest, page[n].gen, page[n].text)>>)
              \in Seq(Messages(ToHostTypes))
      BY <2>2, <1>f, <1>c
    <2>4. page' \in [Notes -> Pages]
      BY <1>3, <2>1 DEF Autosave
    <2>5. toHost' \in [Notes -> Seq(Messages(ToHostTypes))]
      BY <1>3, <2>3, SendType DEF Autosave, Send
    <2> QED
      BY <1>3, <2>4, <2>5 DEF Autosave
  <1>4. CASE SaveAndClose(n)
    <2>1. /\ [page[n] EXCEPT !.dirty = FALSE] \in Pages
          /\ [page[n] EXCEPT !.queue = Append(@, CloseAction)] \in Pages
      <3>1. Append(page[n].queue, CloseAction) \in Seq(Deferred)
        BY <1>p DEF Deferred
      <3> QED
        BY <3>1, <1>p DEF Pages
    <2>2. "save_and_close" \in ToHostTypes
      BY DEF ToHostTypes
    <2>3. <<Message("save_and_close", NoRequest, page[n].gen, page[n].text)>>
              \in Seq(Messages(ToHostTypes))
      BY <2>2, <1>f, <1>c
    <2>4. page' \in [Notes -> Pages]
      BY <1>4, <2>1 DEF SaveAndClose
    <2>5. toHost' \in [Notes -> Seq(Messages(ToHostTypes))]
      <3>1. [toHost EXCEPT ![n] =
                @ \o <<Message("save_and_close", NoRequest, page[n].gen, page[n].text)>>]
                    \in [Notes -> Seq(Messages(ToHostTypes))]
        BY <2>3, SendType
      <3> QED
        BY <1>4, <3>1 DEF SaveAndClose, Send
    <2> QED
      BY <1>4, <2>4, <2>5 DEF SaveAndClose
  <1>5. CASE ChangePaper(n)
    <2>1. "paper_changed" \in ToHostTypes /\ {} \in Bodies
      BY DEF ToHostTypes, Bodies
    <2>2. Message("paper_changed", NoRequest, 0, {}) \in Messages(ToHostTypes)
      BY <2>1, MessageType
    <2>3. toHost' \in [Notes -> Seq(Messages(ToHostTypes))]
      BY <1>5, <2>2, <1>c, SendType DEF ChangePaper, Send
    <2> QED
      BY <1>5, <2>3 DEF ChangePaper
  <1>6. CASE PageHears(n)
    BY <1>6, PageHearsType
  <1>7. CASE SlowNotice(n)
    <2>1. [page[n] EXCEPT !.phase = "slow"] \in Pages
      BY <1>p DEF Pages, Phases
    <2> QED
      BY <1>7, <2>1 DEF SlowNotice
  <1> QED
    BY <1>1, <1>2, <1>3, <1>4, <1>5, <1>6, <1>7
-----------------------------------------------------------------------------
(* The actions of the host keep its types.                                 *)

(* A turn of the main loop keeps the types of the window and its channels. *)
LEMMA TurnType ==
    ASSUME WindowTypeOK, NEW heard, NEW gone,
           \A n \in Notes : n \in heard => toHost[n] # <<>>,
           NEW told \in [Notes -> Seq(Messages(ToPageTypes))],
           Turn(heard, gone, told)
    PROVE  /\ win' \in [Notes -> {"none", "loading", "loaded"}]
           /\ page' \in [Notes -> Pages]
           /\ toHost' \in [Notes -> Seq(Messages(ToHostTypes))]
           /\ toPage' \in [Notes -> Seq(Messages(ToPageTypes))]
  <1> USE DEF WindowTypeOK, PageTypeOK
  <1>1. PageIn("absent") \in Pages
    BY PageInType DEF Phases
  <1>2. win' \in [Notes -> {"none", "loading", "loaded"}]
    BY DEF Turn
  <1>3. page' \in [Notes -> Pages]
    BY <1>1 DEF Turn
  <1>4. \A n \in Notes : n \in heard => Tail(toHost[n]) \in Seq(Messages(ToHostTypes))
    OBVIOUS
  <1>5. toHost' \in [Notes -> Seq(Messages(ToHostTypes))]
    <2>1. \A S : <<>> \in Seq(S)
      OBVIOUS
    <2> QED
      BY <1>4, <2>1 DEF Turn
  <1>6. \A n \in Notes : toPage[n] \o told[n] \in Seq(Messages(ToPageTypes))
    <2>1. \A n \in Notes : /\ toPage[n] \in Seq(Messages(ToPageTypes))
                           /\ told[n] \in Seq(Messages(ToPageTypes))
      OBVIOUS
    <2> QED
      BY <2>1, ConcatType
  <1>7. toPage' \in [Notes -> Seq(Messages(ToPageTypes))]
    <2>1. \A S : <<>> \in Seq(S)
      OBVIOUS
    <2> QED
      BY <1>6, <2>1 DEF Turn
  <1> QED
    BY <1>2, <1>3, <1>5, <1>7

(* What a host says to one page, or to none, is typed.                     *)
LEMMA TellType ==
    ASSUME NEW n \in Notes, NEW message \in Messages(ToPageTypes)
    PROVE  /\ Tell(n, message) \in [Notes -> Seq(Messages(ToPageTypes))]
           /\ Silence \in [Notes -> Seq(Messages(ToPageTypes))]
  <1>1. <<message>> \in Seq(Messages(ToPageTypes))
    OBVIOUS
  <1>2. Silence \in [Notes -> Seq(Messages(ToPageTypes))]
    BY DEF Silence
  <1> QED
    BY <1>1, <1>2 DEF Tell

(* A page message taken by the host is typed.                              *)
LEMMA HearsType ==
    ASSUME WindowTypeOK, NEW n \in Notes, NEW type, Hears(n, type)
    PROVE  /\ \A i \in Notes : i \in {n} => toHost[i] # <<>>
           /\ Head(toHost[n]).req \in RequestIds \cup {NoRequest}
           /\ Head(toHost[n]).gen \in Nat
           /\ Head(toHost[n]).text \in Bodies
           /\ [toHost EXCEPT ![n] = Tail(@)] \in [Notes -> Seq(Messages(ToHostTypes))]
  BY ReceiveType DEF WindowTypeOK, PageTypeOK, Hears

(* Writing a document keeps the types of the file and of the host's copy.  *)
LEMMA SaveType ==
    ASSUME WindowTypeOK, NEW n \in Notes, NEW d \in Documents, NEW ok
    PROVE  /\ SaveDocument(n, d, ok) => /\ file' \in [Notes -> Documents]
                                        /\ live' \subseteq Notes
           /\ CommitOnceWritten(n, d, ok) => /\ file' \in [Notes -> Documents]
                                             /\ live' \subseteq Notes
                                             /\ doc' \in [Notes -> Documents]
  <1> USE DEF WindowTypeOK
  <1>1. SaveDocument(n, d, ok) => file' \in [Notes -> Documents] /\ live' \subseteq Notes
    <2>1. [file EXCEPT ![n] = d] \in [Notes -> Documents] /\ live \cup {n} \subseteq Notes
      OBVIOUS
    <2> QED
      BY <2>1 DEF SaveDocument
  <1>2. CommitOnceWritten(n, d, ok) => doc' \in [Notes -> Documents]
    <2>1. [doc EXCEPT ![n] = d] \in [Notes -> Documents]
      OBVIOUS
    <2> QED
      BY <2>1 DEF CommitOnceWritten
  <1> QED
    BY <1>1, <1>2 DEF CommitOnceWritten

(* So does saving a body.                                                  *)
LEMMA SaveContentType ==
    ASSUME WindowTypeOK, NEW n \in Notes, NEW text \in Bodies, NEW ok, SaveContent(n, text, ok)
    PROVE  /\ file' \in [Notes -> Documents]
           /\ live' \subseteq Notes
           /\ doc' \in [Notes -> Documents]
  <1>1. doc[n] \in Documents
    BY DEF WindowTypeOK
  <1>2. [doc[n] EXCEPT !.body = text] \in Documents
    BY <1>1 DEF Documents
  <1> QED
    BY <1>2, SaveType DEF SaveContent, WindowTypeOK

(* OpenWindow keeps the types.                                             *)
LEMMA OpenWindowType ==
    ASSUME WindowTypeOK, NEW n \in Notes, OpenWindow(n)
    PROVE  WindowTypeOK'
  <1> USE DEF WindowTypeOK, PageTypeOK
  <1>1. PageIn("loading") \in Pages /\ {} \in Bodies
    BY PageInType DEF Phases, Bodies
  <1>2. <<Message("ready", NoRequest, 0, {})>> \in Seq(Messages(ToHostTypes))
    <2>1. Message("ready", NoRequest, 0, {}) \in Messages(ToHostTypes)
      BY <1>1, MessageType DEF ToHostTypes
    <2> QED
      BY <2>1
  <1>3. /\ page' \in [Notes -> Pages]
        /\ toHost' \in [Notes -> Seq(Messages(ToHostTypes))]
        /\ win' \in [Notes -> {"none", "loading", "loaded"}]
    BY <1>1, <1>2 DEF OpenWindow
  <1>4. /\ doc' \in [Notes -> Documents]
        /\ hostGen' \in [Notes -> Nat]
        /\ typed' \in [Notes -> Bodies]
        /\ reported' \in [Notes -> Bodies]
    BY <1>1 DEF OpenWindow
  <1> QED
    BY <1>3, <1>4 DEF OpenWindow, lifecycleVars, LifecycleTypeOK

(* Ready keeps the types.                                                  *)
LEMMA ReadyType ==
    ASSUME WindowTypeOK, NEW n \in Notes, Ready(n)
    PROVE  WindowTypeOK'
  <1> USE DEF WindowTypeOK, PageTypeOK
  <1>1. toHost' \in [Notes -> Seq(Messages(ToHostTypes))]
    BY HearsType DEF Ready
  <1>2. Message("load_note", NoRequest, hostGen[n], doc[n].body) \in Messages(ToPageTypes)
    BY MessageType DEF ToPageTypes, Documents
  <1>3. /\ toPage' \in [Notes -> Seq(Messages(ToPageTypes))]
        /\ win' \in [Notes -> {"none", "loading", "loaded"}]
    BY <1>2 DEF Ready
  <1> QED
    BY <1>1, <1>3 DEF Ready, lifecycleVars, LifecycleTypeOK

(* ContentChanged keeps the types.                                         *)
LEMMA ContentChangedType ==
    ASSUME WindowTypeOK, NEW n \in Notes, ContentChanged(n)
    PROVE  WindowTypeOK'
  <1> USE DEF WindowTypeOK, PageTypeOK
  <1>1. PICK type : Hears(n, type)
    BY DEF ContentChanged
  <1>2. Silence \in [Notes -> Seq(Messages(ToPageTypes))]
    BY DEF Silence
  <1>3. /\ win' \in [Notes -> {"none", "loading", "loaded"}]
        /\ page' \in [Notes -> Pages]
        /\ toHost' \in [Notes -> Seq(Messages(ToHostTypes))]
        /\ toPage' \in [Notes -> Seq(Messages(ToPageTypes))]
    BY <1>1, <1>2, HearsType, TurnType DEF ContentChanged
  <1>4. /\ file' \in [Notes -> Documents]
        /\ live' \subseteq Notes
        /\ doc' \in [Notes -> Documents]
    BY <1>1, HearsType, SaveContentType DEF ContentChanged
  <1> QED
    BY <1>3, <1>4 DEF ContentChanged, lifecycleVars, LifecycleTypeOK

(* PaperChanged keeps the types.                                           *)
LEMMA PaperChangedType ==
    ASSUME WindowTypeOK, NEW n \in Notes, PaperChanged(n)
    PROVE  WindowTypeOK'
  <1> USE DEF WindowTypeOK, PageTypeOK
  <1>1. PICK type : Hears(n, type)
    BY DEF PaperChanged
  <1>2. Silence \in [Notes -> Seq(Messages(ToPageTypes))]
    BY DEF Silence
  <1>3. /\ win' \in [Notes -> {"none", "loading", "loaded"}]
        /\ page' \in [Notes -> Pages]
        /\ toHost' \in [Notes -> Seq(Messages(ToHostTypes))]
        /\ toPage' \in [Notes -> Seq(Messages(ToPageTypes))]
    BY <1>1, <1>2, HearsType, TurnType DEF PaperChanged
  <1>4. [doc[n] EXCEPT !.look = @ + 1] \in Documents
    <2>1. doc[n] \in Documents
      OBVIOUS
    <2> HIDE DEF WindowTypeOK, PageTypeOK
    <2> QED
      BY <2>1 DEF Documents
  <1>5. /\ file' \in [Notes -> Documents]
        /\ live' \subseteq Notes
        /\ doc' \in [Notes -> Documents]
    BY <1>4, SaveType DEF PaperChanged
  <1> QED
    BY <1>3, <1>5 DEF PaperChanged, lifecycleVars, LifecycleTypeOK
(* The text of an answer joins the history of its note.                    *)
LEMMA ReportsType ==
    ASSUME WindowTypeOK, NEW n \in Notes, NEW type, Hears(n, type), Reports(n)
    PROVE  reported' \in [Notes -> Bodies]
  <1>1. Head(toHost[n]).text \in Bodies /\ reported[n] \in Bodies
    BY HearsType DEF WindowTypeOK
  <1>2. reported[n] \cup Head(toHost[n]).text \in Bodies
    BY <1>1 DEF Bodies
  <1> QED
    BY <1>2 DEF Reports, WindowTypeOK

(* SaveAndCloseAsked keeps the types.                                      *)
LEMMA SaveAndCloseAskedType ==
    ASSUME WindowTypeOK, NEW n \in Notes, SaveAndCloseAsked(n)
    PROVE  WindowTypeOK'
  <1>1. Hears(n, "save_and_close")
    BY DEF SaveAndCloseAsked
  <1>2. Silence \in [Notes -> Seq(Messages(ToPageTypes))]
    BY DEF Silence
  <1>3. PICK closes \in BOOLEAN : Turn({n}, IF closes THEN {n} ELSE {}, Silence)
    BY DEF SaveAndCloseAsked
  <1>4. /\ win' \in [Notes -> {"none", "loading", "loaded"}]
        /\ page' \in [Notes -> Pages]
        /\ toHost' \in [Notes -> Seq(Messages(ToHostTypes))]
        /\ toPage' \in [Notes -> Seq(Messages(ToPageTypes))]
    BY <1>1, <1>2, <1>3, HearsType, TurnType
  <1>5. \/ UNCHANGED <<file, live, doc>>
        \/ \E ok \in Outcomes : SaveContent(n, Head(toHost[n]).text, ok)
    BY DEF SaveAndCloseAsked
  <1>6. /\ file' \in [Notes -> Documents]
        /\ live' \subseteq Notes
        /\ doc' \in [Notes -> Documents]
    BY <1>1, <1>5, HearsType, SaveContentType DEF WindowTypeOK
  <1>7. Reports(n) \/ UNCHANGED reported
    BY DEF SaveAndCloseAsked
  <1>8. reported' \in [Notes -> Bodies]
    BY <1>1, <1>7, ReportsType DEF WindowTypeOK
  <1>9. UNCHANGED <<nextMark, typed, lifecycleVars, trashed, hostGen, pendingWrite, pendingAck,
                    flushes, batch, task, nextReq, running, written, refused>>
    BY DEF SaveAndCloseAsked
  <1> QED
    BY <1>4, <1>6, <1>8, <1>9 DEF WindowTypeOK, PageTypeOK, LifecycleTypeOK, lifecycleVars

(* A flush request goes out typed.                                         *)
LEMMA RequestFlushType ==
    ASSUME WindowTypeOK, NEW notes, NEW why \in {"trash", "batch"}, RequestFlush(notes, why),
           nextReq \in RequestIds
    PROVE  /\ flushes' \in [Notes -> SUBSET Flushes]
           /\ toPage' \in [Notes -> Seq(Messages(ToPageTypes))]
  <1>1. [req |-> nextReq, why |-> why] \in Flushes
    BY DEF Flushes
  <1>2. flushes' \in [Notes -> SUBSET Flushes]
    BY <1>1 DEF RequestFlush, WindowTypeOK
  <1>3. Message("request_flush", nextReq, 0, {}) \in Messages(ToPageTypes)
    BY MessageType DEF ToPageTypes, Bodies
  <1>4. \A i \in Notes : Append(toPage[i], Message("request_flush", nextReq, 0, {}))
                              \in Seq(Messages(ToPageTypes))
    BY <1>3 DEF WindowTypeOK, PageTypeOK
  <1>5. toPage' \in [Notes -> Seq(Messages(ToPageTypes))]
    BY <1>4 DEF RequestFlush, WindowTypeOK, PageTypeOK
  <1> QED
    BY <1>2, <1>5

(* TrashNote keeps the types.                                              *)
LEMMA TrashNoteType ==
    ASSUME WindowTypeOK, PageAssumption, NEW n \in Notes, TrashNote(n)
    PROVE  WindowTypeOK'
  <1>1. nextReq \in RequestIds /\ nextReq' \in 1 .. MaxRequests + 1
    BY DEF TrashNote, NewRequest, RequestIds, PageAssumption
  <1>2. /\ flushes' \in [Notes -> SUBSET Flushes]
        /\ toPage' \in [Notes -> Seq(Messages(ToPageTypes))]
    BY <1>1, RequestFlushType DEF TrashNote
  <1>3. UNCHANGED <<page, toHost, nextMark, typed, lifecycleVars, file, live, trashed, win, doc,
                    hostGen, pendingWrite, pendingAck, batch, task, running, reported, written,
                    refused>>
    BY DEF TrashNote
  <1> QED
    BY <1>1, <1>2, <1>3 DEF WindowTypeOK, PageTypeOK, LifecycleTypeOK, lifecycleVars

(* StartFlushAll keeps the types.                                          *)
LEMMA StartFlushAllType ==
    ASSUME WindowTypeOK, PageAssumption, NEW operation \in LifecycleOperation,
           StartFlushAll(operation)
    PROVE  WindowTypeOK'
  <1>1. UNCHANGED <<page, toHost, nextMark, typed, file, live, trashed, win, doc, hostGen,
                    pendingWrite, pendingAck, task, reported, written, refused>>
    BY DEF StartFlushAll
  <1>2. CASE running' = FALSE /\ UNCHANGED <<lifecycleVars, nextReq, flushes, toPage, batch>>
    BY <1>1, <1>2 DEF WindowTypeOK, PageTypeOK, LifecycleTypeOK, lifecycleVars
  <1>3. CASE /\ BeginLifecycle(operation)
             /\ NewRequest
             /\ RequestFlush(Windows, "batch")
             /\ batch' = [remaining |-> Cardinality(Windows), failed |-> FALSE]
             /\ UNCHANGED running
    <2>1. nextReq \in RequestIds /\ nextReq' \in 1 .. MaxRequests + 1
      BY <1>3 DEF NewRequest, RequestIds, PageAssumption
    <2>2. /\ flushes' \in [Notes -> SUBSET Flushes]
          /\ toPage' \in [Notes -> Seq(Messages(ToPageTypes))]
      BY <1>3, <2>1, RequestFlushType
    <2>3. LifecycleTypeOK'
      BY <1>3 DEF BeginLifecycle, WindowTypeOK, LifecycleTypeOK
    <2>4. batch' \in Batches
      <3>1. Cardinality(Windows) \in Nat
        BY FS_Subset, FS_CardinalityType DEF Windows, PageAssumption
      <3> QED
        BY <1>3, <3>1 DEF Batches
    <2> QED
      BY <1>1, <1>3, <2>1, <2>2, <2>3, <2>4 DEF WindowTypeOK, PageTypeOK
  <1> QED
    BY <1>2, <1>3 DEF StartFlushAll
(* The callback of a flush keeps the types of all it touches.              *)
LEMMA FlushSettledType ==
    ASSUME WindowTypeOK, NEW n \in Notes, NEW flush, NEW ok \in BOOLEAN,
           NEW nowLive \in SUBSET Notes, NEW heard, NEW told \in [Notes -> Seq(Messages(ToPageTypes))],
           \A i \in Notes : i \in heard => toHost[i] # <<>>,
           FlushSettled(n, flush, ok, nowLive, heard, told)
    PROVE  /\ flushes' \in [Notes -> SUBSET Flushes]
           /\ trashed' \subseteq Notes
           /\ live' \subseteq Notes
           /\ batch' \in Batches
           /\ LifecycleTypeOK'
           /\ running' \in BOOLEAN
           /\ win' \in [Notes -> {"none", "loading", "loaded"}]
           /\ page' \in [Notes -> Pages]
           /\ toHost' \in [Notes -> Seq(Messages(ToHostTypes))]
           /\ toPage' \in [Notes -> Seq(Messages(ToPageTypes))]
  <1>1. flushes' \in [Notes -> SUBSET Flushes]
    BY DEF FlushSettled, WindowTypeOK
  <1>2. PICK gone : Turn(heard, gone, told)
    BY DEF FlushSettled
  <1>3. /\ win' \in [Notes -> {"none", "loading", "loaded"}]
        /\ page' \in [Notes -> Pages]
        /\ toHost' \in [Notes -> Seq(Messages(ToHostTypes))]
        /\ toPage' \in [Notes -> Seq(Messages(ToPageTypes))]
    BY <1>2, TurnType
  <1>4. CASE flush.why = "trash"
    <2>1. /\ \E moves \in Outcomes : CommitTrash(n, nowLive, ok /\ moves)
          /\ UNCHANGED <<batch, lifecycleVars, running>>
      BY <1>4 DEF FlushSettled
    <2>2. trashed' \subseteq Notes /\ live' \subseteq Notes
      BY <2>1 DEF CommitTrash, WindowTypeOK
    <2> QED
      BY <1>1, <1>3, <2>1, <2>2 DEF WindowTypeOK, LifecycleTypeOK, lifecycleVars
  <1>5. CASE flush.why = "batch"
    <2>1. PICK persisted \in Outcomes :
             /\ batch' = Record(ok).batch
             /\ IF Record(ok).ends THEN FinishLifecycle(active) ELSE UNCHANGED lifecycleVars
             /\ running' = (running /\ ~(Record(ok).commits /\ persisted /\ active = "Quit"))
             /\ live' = nowLive
             /\ UNCHANGED trashed
      BY <1>5 DEF FlushSettled
    <2>2. batch' \in Batches
      BY <2>1 DEF Record, Batches, WindowTypeOK
    <2>3. LifecycleTypeOK'
      BY <2>1 DEF FinishLifecycle, LifecycleTypeOK, WindowTypeOK, lifecycleVars
    <2>4. trashed' \subseteq Notes /\ live' \subseteq Notes /\ running' \in BOOLEAN
      BY <2>1 DEF WindowTypeOK
    <2> QED
      BY <1>1, <1>3, <2>2, <2>3, <2>4
  <1> QED
    BY <1>4, <1>5 DEF FlushSettled

(* FlushResponse keeps the types.                                          *)
LEMMA FlushResponseType ==
    ASSUME WindowTypeOK, NEW n \in Notes, FlushResponse(n)
    PROVE  WindowTypeOK'
  <1> DEFINE m == Head(toHost[n])
             waiting == {f \in flushes[n] : f.req = m.req}
             saves == doc[n].body # m.text
             d == [doc[n] EXCEPT !.body = m.text]
  <1>1. Hears(n, "flush_response")
    BY DEF FlushResponse
  <1>2. Silence \in [Notes -> Seq(Messages(ToPageTypes))]
    BY DEF Silence
  <1>3. d \in Documents
    <2>1. doc[n] \in Documents /\ m.text \in Bodies
      BY <1>1, HearsType DEF WindowTypeOK
    <2> QED
      BY <2>1 DEF Documents
  <1>4. UNCHANGED <<nextMark, typed, hostGen, pendingWrite, pendingAck, task, nextReq,
                    written, refused>>
    BY DEF FlushResponse
  <1>5. CASE /\ Turn({n}, {}, Silence)
             /\ UNCHANGED <<file, live, trashed, doc, flushes, batch, lifecycleVars, running,
                            reported>>
    <2>1. /\ win' \in [Notes -> {"none", "loading", "loaded"}]
          /\ page' \in [Notes -> Pages]
          /\ toHost' \in [Notes -> Seq(Messages(ToHostTypes))]
          /\ toPage' \in [Notes -> Seq(Messages(ToPageTypes))]
      BY <1>1, <1>2, <1>5, HearsType, TurnType
    <2> QED
      BY <1>4, <1>5, <2>1 DEF WindowTypeOK, PageTypeOK, LifecycleTypeOK, lifecycleVars
  <1>6. CASE \E flush \in waiting :
                /\ FlushSettled(n, flush, FALSE, live, {n}, Silence)
                /\ UNCHANGED <<file, doc, reported>>
    <2>1. live \in SUBSET Notes /\ FALSE \in BOOLEAN
      BY DEF WindowTypeOK
    <2> QED
      BY <1>1, <1>2, <1>4, <1>6, <2>1, HearsType, FlushSettledType DEF WindowTypeOK, PageTypeOK
  <1>7. CASE \E flush \in waiting, ok \in Outcomes :
                /\ file' = IF saves /\ ok THEN [file EXCEPT ![n] = d] ELSE file
                /\ doc' = IF saves /\ ok THEN [doc EXCEPT ![n] = d] ELSE doc
                /\ FlushSettled(n, flush, ok \/ ~saves,
                                IF saves /\ ok THEN live \cup {n} ELSE live, {n}, Silence)
                /\ Reports(n)
    <2>1. reported' \in [Notes -> Bodies]
      BY <1>1, <1>7, ReportsType
    <2>2. file' \in [Notes -> Documents] /\ doc' \in [Notes -> Documents]
      BY <1>3, <1>7 DEF WindowTypeOK
    <2>3. PICK flush \in waiting, ok \in Outcomes :
             FlushSettled(n, flush, ok \/ ~saves,
                          IF saves /\ ok THEN live \cup {n} ELSE live, {n}, Silence)
      BY <1>7
    <2>4. /\ (IF saves /\ ok THEN live \cup {n} ELSE live) \in SUBSET Notes
          /\ (ok \/ ~saves) \in BOOLEAN
      BY DEF WindowTypeOK
    <2> HIDE DEF saves
    <2>5. /\ flushes' \in [Notes -> SUBSET Flushes]
          /\ trashed' \subseteq Notes
          /\ live' \subseteq Notes
          /\ batch' \in Batches
          /\ LifecycleTypeOK'
          /\ running' \in BOOLEAN
          /\ win' \in [Notes -> {"none", "loading", "loaded"}]
          /\ page' \in [Notes -> Pages]
          /\ toHost' \in [Notes -> Seq(Messages(ToHostTypes))]
          /\ toPage' \in [Notes -> Seq(Messages(ToPageTypes))]
      BY <1>1, <1>2, <2>3, <2>4, HearsType, FlushSettledType
    <2> QED
      BY <1>4, <2>1, <2>2, <2>5 DEF WindowTypeOK, PageTypeOK
  <1> QED
    <2> HIDE DEF m, d, saves, waiting
    <2>1. \/ /\ waiting = {}
             /\ Turn({n}, {}, Silence)
             /\ UNCHANGED <<file, live, trashed, doc, flushes, batch, lifecycleVars, running,
                            reported>>
          \/ \E flush \in waiting :
                /\ ~AcceptsGeneration(n, m.gen)
                /\ FlushSettled(n, flush, FALSE, live, {n}, Silence)
                /\ UNCHANGED <<file, doc, reported>>
          \/ \E flush \in waiting, ok \in Outcomes :
                /\ AcceptsGeneration(n, m.gen)
                /\ file' = IF saves /\ ok THEN [file EXCEPT ![n] = d] ELSE file
                /\ doc' = IF saves /\ ok THEN [doc EXCEPT ![n] = d] ELSE doc
                /\ FlushSettled(n, flush, ok \/ ~saves,
                                IF saves /\ ok THEN live \cup {n} ELSE live, {n}, Silence)
                /\ Reports(n)
      BY Zenon DEF FlushResponse, m, d, saves, waiting
    <2> QED
      BY <1>5, <1>6, <1>7, <2>1

(* ExpireFlush keeps the types.                                            *)
LEMMA ExpireFlushType ==
    ASSUME WindowTypeOK, NEW n \in Notes, ExpireFlush(n)
    PROVE  WindowTypeOK'
  <1>1. Silence \in [Notes -> Seq(Messages(ToPageTypes))]
    BY DEF Silence
  <1>2. live \in SUBSET Notes /\ FALSE \in BOOLEAN
    BY DEF WindowTypeOK
  <1>3. PICK flush, heard : heard = {} /\ FlushSettled(n, flush, FALSE, live, heard, Silence)
    BY DEF ExpireFlush
  <1>4. UNCHANGED <<nextMark, typed, file, doc, hostGen, pendingWrite, pendingAck, task,
                    nextReq, reported, written, refused>>
    BY DEF ExpireFlush
  <1>5. /\ flushes' \in [Notes -> SUBSET Flushes]
        /\ trashed' \subseteq Notes
        /\ live' \subseteq Notes
        /\ batch' \in Batches
        /\ LifecycleTypeOK'
        /\ running' \in BOOLEAN
        /\ win' \in [Notes -> {"none", "loading", "loaded"}]
        /\ page' \in [Notes -> Pages]
        /\ toHost' \in [Notes -> Seq(Messages(ToHostTypes))]
        /\ toPage' \in [Notes -> Seq(Messages(ToPageTypes))]
    <2>1. \A i \in Notes : i \in heard => toHost[i] # <<>>
      BY <1>3
    <2> QED
      BY <1>1, <1>2, <1>3, <2>1, FlushSettledType
  <1> QED
    BY <1>4, <1>5 DEF WindowTypeOK, PageTypeOK
-----------------------------------------------------------------------------
(* The actions of the authority keep the types.                            *)

(* What a task that only moves on holds.                                   *)
LEMMA TaskType ==
    ASSUME WindowTypeOK, NEW stage \in Stages, NEW text \in Bodies, NEW ok \in BOOLEAN
    PROVE  /\ [task EXCEPT !.stage = stage] \in Tasks
           /\ [task EXCEPT !.stage = stage, !.ok = ok] \in Tasks
           /\ [task EXCEPT !.stage = stage, !.text = text, !.ok = ok] \in Tasks
           /\ task.note \in Notes
           /\ task.req \in RequestIds \cup {NoRequest}
           /\ task.mark \in Marks \cup {0}
           /\ task.text \in Bodies
  <1>1. task \in Tasks
    BY DEF WindowTypeOK
  <1> QED
    BY <1>1 DEF Tasks

(* No task is a task.                                                      *)
LEMMA NoTaskType ==
    ASSUME PageAssumption
    PROVE  NoTask \in Tasks
  <1>1. (CHOOSE n \in Notes : TRUE) \in Notes
    BY DEF PageAssumption
  <1>2. EmptyDocument \in Documents /\ {} \in Bodies
    BY DEF EmptyDocument, Documents, Bodies
  <1> QED
    BY <1>1, <1>2 DEF NoTask, Tasks, Stages, Kinds

(* A mutation makes a document of a document.                              *)
LEMMA MutatedType ==
    ASSUME WindowTypeOK, NEW base \in Documents
    PROVE  Mutated(task, base) \in Documents
  <1>1. task.kind \in {"append", "replace"} => {task.mark} \in Bodies
    BY DEF Bodies, WindowTypeOK, BringsText
  <1>2. base.body \in Bodies
    BY DEF Documents
  <1>3. task.kind = "append" => base.body \cup {task.mark} \in Bodies
    BY <1>1, <1>2 DEF Bodies
  <1> QED
    BY <1>1, <1>2, <1>3 DEF Mutated, Documents

(* Submit keeps the types.                                                 *)
LEMMA SubmitType ==
    ASSUME WindowTypeOK, PageAssumption, NEW n \in Notes, NEW kind \in Kinds, Submit(n, kind)
    PROVE  WindowTypeOK'
  <1>1. nextReq \in RequestIds /\ nextReq' \in 1 .. MaxRequests + 1
    BY DEF Submit, NewRequest, RequestIds, PageAssumption
  <1>2. nextMark' \in 1 .. MaxMarks + 1
    BY DEF Submit, WindowTypeOK, PageTypeOK, PageAssumption, Marks
  <1>3. file[n] \in Documents
    BY DEF WindowTypeOK
  <1>4. (IF kind \in {"append", "replace"} THEN nextMark ELSE 0) \in Marks \cup {0}
    BY DEF Submit
  <1>5. task' \in Tasks
    BY <1>1, <1>3, <1>4, NoTaskType DEF Submit, Tasks, Stages
  <1>6. UNCHANGED <<page, toPage, toHost, typed, lifecycleVars, file, live, trashed, win, doc,
                    hostGen, pendingWrite, pendingAck, flushes, batch, running, reported, written,
                    refused>>
    BY DEF Submit
  <1>7. BringsText(task)' => task'.mark \in Marks
    BY DEF Submit, BringsText, NoTask
  <1> QED
    BY <1>1, <1>2, <1>5, <1>6, <1>7 DEF WindowTypeOK, PageTypeOK, LifecycleTypeOK, lifecycleVars
(* A task keeps its mark and its kind, or is over.                         *)
LEMMA BringsTextKept ==
    ASSUME WindowTypeOK, \/ task' = task \/ Finished
                         \/ task'.kind = task.kind /\ task'.mark = task.mark
    PROVE  BringsText(task)' => task'.mark \in Marks
  BY DEF WindowTypeOK, BringsText, Finished, NoTask

(* The histories a committed mutation moves on stay typed.                 *)
LEMMA RecordedType ==
    ASSUME WindowTypeOK, NEW n \in Notes, Recorded(n)
    PROVE  /\ written' \in [Notes -> Bodies]
           /\ typed' \in [Notes -> Bodies]
           /\ reported' \in [Notes -> Bodies]
  <1>1. BringsText(task) => {task.mark} \in Bodies
    BY DEF WindowTypeOK, Bodies
  <1>2. {} \in Bodies /\ (BringsText(task) => written[n] \cup {task.mark} \in Bodies)
    BY <1>1 DEF WindowTypeOK, Bodies
  <1>3. written' \in [Notes -> Bodies]
    BY <1>1, <1>2 DEF Recorded, BringsText, WindowTypeOK
  <1>4. typed' \in [Notes -> Bodies] /\ reported' \in [Notes -> Bodies]
    BY <1>2 DEF Recorded, WindowTypeOK, PageTypeOK
  <1> QED
    BY <1>3, <1>4

(* So does the history of the refused.                                     *)
LEMMA RefuseType ==
    ASSUME WindowTypeOK, Refuse
    PROVE  refused' \in Bodies
  <1>1. task.mark \in Marks \cup {0} /\ refused \in Bodies
    BY DEF WindowTypeOK, Tasks
  <1> QED
    BY <1>1 DEF Refuse, Bodies, Marks

(* MutateDirectly keeps the types.                                         *)
LEMMA MutateDirectlyType ==
    ASSUME WindowTypeOK, PageAssumption, NEW n \in Notes, MutateDirectly(n)
    PROVE  WindowTypeOK'
  <1> DEFINE base == IF win[n] = "none" THEN file[n] ELSE doc[n]
             candidate == Mutated(task, base)
             allowed == n \in live /\ RevisionMatches(task, base)
  <1>1. base \in Documents /\ candidate \in Documents
    <2>1. base \in Documents
      BY DEF WindowTypeOK
    <2> HIDE DEF base
    <2> QED
      BY <2>1, MutatedType
  <1>2. /\ task' = NoTask
        /\ UNCHANGED <<page, toPage, toHost, nextMark, win, pendingWrite, pendingAck, flushes,
                       batch, nextReq, running, lifecycleVars, trashed>>
    BY DEF MutateDirectly, Finished, Unanswered
  <1>3. task' \in Tasks /\ (BringsText(task)' => task'.mark \in Marks)
    BY <1>2, NoTaskType, BringsTextKept DEF Finished
  <1>4. \/ Refuse /\ UNCHANGED <<typed, file, live, doc, hostGen, reported, written>>
        \/ UNCHANGED <<typed, file, live, doc, hostGen, reported, written, refused>>
        \/ \E ok \in Outcomes :
                   /\ SaveDocument(n, candidate, ok)
                   /\ \/ Recorded(n) /\ UNCHANGED refused
                      \/ Refuse /\ UNCHANGED <<typed, reported, written>>
                   /\ \/ /\ doc' = [doc EXCEPT ![n] = candidate]
                         /\ hostGen' = [hostGen EXCEPT ![n] = @ + 1]
                      \/ UNCHANGED <<doc, hostGen>>
    BY Zenon DEF MutateDirectly
  <1> HIDE DEF base, candidate, allowed
  <1>5. /\ file' \in [Notes -> Documents]
        /\ live' \subseteq Notes
    BY <1>1, <1>4, SaveType DEF WindowTypeOK
  <1>6. /\ doc' \in [Notes -> Documents]
        /\ hostGen' \in [Notes -> Nat]
    BY <1>1, <1>4 DEF WindowTypeOK
  <1>7. /\ written' \in [Notes -> Bodies]
        /\ typed' \in [Notes -> Bodies]
        /\ reported' \in [Notes -> Bodies]
        /\ refused' \in Bodies
    BY <1>4, RecordedType, RefuseType DEF WindowTypeOK, PageTypeOK
  <1> QED
    BY <1>2, <1>3, <1>5, <1>6, <1>7 DEF WindowTypeOK, PageTypeOK, LifecycleTypeOK, lifecycleVars
(* A claim on the coordinator, taken or given back, is a count.            *)
LEMMA ClaimType ==
    ASSUME WindowTypeOK, BeginExternalWrite \/ FinishExternalWrite \/ UNCHANGED lifecycleVars
    PROVE  LifecycleTypeOK'
  BY DEF WindowTypeOK, LifecycleTypeOK, BeginExternalWrite, FinishExternalWrite, lifecycleVars

(* AskSnapshot keeps the types.                                            *)
LEMMA AskSnapshotType ==
    ASSUME WindowTypeOK, PageAssumption, NEW n \in Notes, AskSnapshot(n)
    PROVE  WindowTypeOK'
  <1>1. UNCHANGED <<page, toHost, nextMark, typed, file, live, trashed, win, doc, hostGen,
                    pendingAck, flushes, batch, nextReq, running, reported, written>>
    BY DEF AskSnapshot
  <1>2. CASE /\ BeginExternalWrite
             /\ pendingWrite' = [pendingWrite EXCEPT ![n] = task.req]
             /\ toPage' = [toPage EXCEPT ![n] =
                    Append(@, Message("begin_external_write", task.req, hostGen[n], {}))]
             /\ task' = [task EXCEPT !.stage = "snapshot"]
             /\ UNCHANGED refused
    <2>1. task.req \in RequestIds \cup {NoRequest} /\ task' \in Tasks
      BY <1>2, TaskType DEF Stages, Bodies
    <2>2. pendingWrite' \in [Notes -> RequestIds \cup {NoRequest}]
      BY <1>2, <2>1 DEF WindowTypeOK
    <2>3. Message("begin_external_write", task.req, hostGen[n], {}) \in Messages(ToPageTypes)
      BY <2>1, MessageType DEF ToPageTypes, Bodies, WindowTypeOK
    <2>4. toPage' \in [Notes -> Seq(Messages(ToPageTypes))]
      BY <1>2, <2>3 DEF WindowTypeOK, PageTypeOK
    <2>5. BringsText(task)' => task'.mark \in Marks
      BY <1>2, BringsTextKept DEF WindowTypeOK, Tasks
    <2>6. LifecycleTypeOK'
      BY <1>2, ClaimType
    <2> QED
      BY <1>1, <1>2, <2>1, <2>2, <2>4, <2>5, <2>6 DEF WindowTypeOK, PageTypeOK
  <1>3. CASE /\ Finished
             /\ Refuse
             /\ UNCHANGED <<lifecycleVars, pendingWrite, toPage>>
    <2>1. task' \in Tasks /\ (BringsText(task)' => task'.mark \in Marks)
      BY <1>3, NoTaskType, BringsTextKept DEF Finished
    <2>2. refused' \in Bodies /\ LifecycleTypeOK'
      BY <1>3, RefuseType, ClaimType
    <2> QED
      BY <1>1, <1>3, <2>1, <2>2 DEF WindowTypeOK, PageTypeOK
  <1> QED
    BY <1>2, <1>3 DEF AskSnapshot

(* DiscardDirectly keeps the types.                                        *)
LEMMA DiscardDirectlyType ==
    ASSUME WindowTypeOK, PageAssumption, NEW n \in Notes, DiscardDirectly(n)
    PROVE  WindowTypeOK'
  <1>1. PICK gone, heard : heard = {} /\ Turn(heard, gone, Silence)
    BY DEF DiscardDirectly
  <1>2. \E ok : CommitTrash(n, live, ok)
    BY DEF DiscardDirectly
  <1>3. /\ Finished
        /\ UNCHANGED <<nextMark, typed, lifecycleVars, file, doc, hostGen, pendingWrite,
                       pendingAck, flushes, batch, nextReq, running, reported, written, refused>>
    BY DEF DiscardDirectly
  <1>4. Silence \in [Notes -> Seq(Messages(ToPageTypes))]
    BY DEF Silence
  <1>5. /\ win' \in [Notes -> {"none", "loading", "loaded"}]
        /\ page' \in [Notes -> Pages]
        /\ toHost' \in [Notes -> Seq(Messages(ToHostTypes))]
        /\ toPage' \in [Notes -> Seq(Messages(ToPageTypes))]
    <2>1. \A i \in Notes : i \in heard => toHost[i] # <<>>
      BY <1>1
    <2> QED
      BY <1>1, <1>4, <2>1, TurnType
  <1>6. trashed' \subseteq Notes /\ live' \subseteq Notes
    BY <1>2 DEF CommitTrash, WindowTypeOK
  <1>7. task' \in Tasks /\ (BringsText(task)' => task'.mark \in Marks)
    BY <1>3, NoTaskType, BringsTextKept DEF Finished
  <1> QED
    BY <1>3, <1>5, <1>6, <1>7 DEF WindowTypeOK, PageTypeOK, LifecycleTypeOK, lifecycleVars

(* SnapshotReady keeps the types.                                          *)
LEMMA SnapshotReadyType ==
    ASSUME WindowTypeOK, NEW n \in Notes, SnapshotReady(n)
    PROVE  WindowTypeOK'
  <1>1. Hears(n, "external_write_ready") /\ Turn({n}, {}, Silence)
    BY DEF SnapshotReady
  <1>2. Silence \in [Notes -> Seq(Messages(ToPageTypes))]
    BY DEF Silence
  <1>3. /\ win' \in [Notes -> {"none", "loading", "loaded"}]
        /\ page' \in [Notes -> Pages]
        /\ toHost' \in [Notes -> Seq(Messages(ToHostTypes))]
        /\ toPage' \in [Notes -> Seq(Messages(ToPageTypes))]
    BY <1>1, <1>2, HearsType, TurnType
  <1>4. UNCHANGED <<nextMark, typed, lifecycleVars, file, live, trashed, doc, hostGen, pendingAck,
                    flushes, batch, nextReq, running, reported, written, refused>>
    BY DEF SnapshotReady
  <1>5. \/ UNCHANGED <<pendingWrite, task>>
        \/ /\ pendingWrite' = [pendingWrite EXCEPT ![n] = NoRequest]
           /\ task' = [task EXCEPT !.stage = "resumed", !.text = Head(toHost[n]).text, !.ok = TRUE]
    BY DEF SnapshotReady
  <1>6. pendingWrite' \in [Notes -> RequestIds \cup {NoRequest}]
    BY <1>5 DEF WindowTypeOK
  <1>7. task' \in Tasks
    <2>1. Head(toHost[n]).text \in Bodies /\ "resumed" \in Stages /\ TRUE \in BOOLEAN
      BY <1>1, HearsType DEF Stages
    <2>2. [task EXCEPT !.stage = "resumed", !.text = Head(toHost[n]).text, !.ok = TRUE] \in Tasks
      <3>1. task \in Tasks
        BY DEF WindowTypeOK
      <3> QED
        BY <2>1, <3>1 DEF Tasks
    <2> QED
      BY <1>5, <2>2 DEF WindowTypeOK
  <1>8. BringsText(task)' => task'.mark \in Marks
    BY <1>5, BringsTextKept DEF WindowTypeOK, Tasks
  <1> QED
    BY <1>3, <1>4, <1>6, <1>7, <1>8 DEF WindowTypeOK, PageTypeOK, LifecycleTypeOK, lifecycleVars

(* SnapshotTimeout keeps the types.                                        *)
LEMMA SnapshotTimeoutType ==
    ASSUME WindowTypeOK, NEW n \in Notes, SnapshotTimeout(n)
    PROVE  WindowTypeOK'
  <1> DEFINE told == Tell(n, Message("abort_external_write", pendingWrite[n], 0, {}))
  <1>1. Message("abort_external_write", pendingWrite[n], 0, {}) \in Messages(ToPageTypes)
    BY MessageType DEF ToPageTypes, Bodies, WindowTypeOK
  <1>2. told \in [Notes -> Seq(Messages(ToPageTypes))]
    BY <1>1, TellType
  <1>3. PICK heard : heard = {} /\ Turn(heard, {}, told)
    BY DEF SnapshotTimeout
  <1> HIDE DEF told
  <1>4. /\ win' \in [Notes -> {"none", "loading", "loaded"}]
        /\ page' \in [Notes -> Pages]
        /\ toHost' \in [Notes -> Seq(Messages(ToHostTypes))]
        /\ toPage' \in [Notes -> Seq(Messages(ToPageTypes))]
    <2>1. \A i \in Notes : i \in heard => toHost[i] # <<>>
      BY <1>3
    <2> QED
      BY <1>2, <1>3, <2>1, TurnType
  <1>5. /\ pendingWrite' = [pendingWrite EXCEPT ![n] = NoRequest]
        /\ task' = [task EXCEPT !.stage = "resumed", !.ok = FALSE]
        /\ UNCHANGED <<nextMark, typed, lifecycleVars, file, live, trashed, doc, hostGen,
                       pendingAck, flushes, batch, nextReq, running, reported, written, refused>>
    BY DEF SnapshotTimeout
  <1>6. pendingWrite' \in [Notes -> RequestIds \cup {NoRequest}] /\ task' \in Tasks
    BY <1>5, TaskType DEF Stages, Bodies, WindowTypeOK
  <1>7. BringsText(task)' => task'.mark \in Marks
    BY <1>5, BringsTextKept DEF WindowTypeOK, Tasks
  <1> QED
    BY <1>4, <1>5, <1>6, <1>7 DEF WindowTypeOK, PageTypeOK, LifecycleTypeOK, lifecycleVars
(* Letting go of a window keeps the types.                                 *)
LEMMA LetGoType ==
    ASSUME WindowTypeOK, NEW n \in Notes, NEW closes, NEW told \in Seq(Messages(ToPageTypes)),
           LetGo(n, closes, told)
    PROVE  /\ win' \in [Notes -> {"none", "loading", "loaded"}]
        /\ page' \in [Notes -> Pages]
        /\ toHost' \in [Notes -> Seq(Messages(ToHostTypes))]
        /\ toPage' \in [Notes -> Seq(Messages(ToPageTypes))]
  <1>1. PageIn("absent") \in Pages
    BY PageInType DEF Phases
  <1>2. win' \in [Notes -> {"none", "loading", "loaded"}]
    BY DEF LetGo, WindowTypeOK
  <1>3. page' \in [Notes -> Pages]
    BY <1>1 DEF LetGo, WindowTypeOK, PageTypeOK
  <1>4. toHost' \in [Notes -> Seq(Messages(ToHostTypes))]
    <2>1. <<>> \in Seq(Messages(ToHostTypes))
      OBVIOUS
    <2> QED
      BY <2>1 DEF LetGo, WindowTypeOK, PageTypeOK
  <1>5. toPage' \in [Notes -> Seq(Messages(ToPageTypes))]
    <2>1. <<>> \in Seq(Messages(ToPageTypes))
      OBVIOUS
    <2>2. toPage[n] \in Seq(Messages(ToPageTypes))
      BY DEF WindowTypeOK, PageTypeOK
    <2>3. toPage[n] \o told \in Seq(Messages(ToPageTypes))
      BY <2>2, ConcatType
    <2> QED
      BY <2>1, <2>3 DEF LetGo, WindowTypeOK, PageTypeOK
  <1> QED
    BY <1>2, <1>3, <1>4, <1>5

(* The abort of a task, alone or not sent, is typed.                       *)
LEMMA AbortWriteType ==
    ASSUME WindowTypeOK, NEW n
    PROVE  /\ <<AbortWrite(n)>> \in Seq(Messages(ToPageTypes))
           /\ <<>> \in Seq(Messages(ToPageTypes))
  <1>1. task.req \in RequestIds \cup {NoRequest}
    BY DEF WindowTypeOK, Tasks
  <1>2. AbortWrite(n) \in Messages(ToPageTypes)
    BY <1>1, MessageType DEF AbortWrite, ToPageTypes, Bodies
  <1> QED
    BY <1>2

(* Giving up a write keeps the types of all it touches.                    *)
LEMMA GiveUpType ==
    ASSUME WindowTypeOK, PageAssumption, NEW n \in Notes, NEW tells, GiveUp(n, tells),
           refused' \in Bodies,
           UNCHANGED <<nextMark, pendingWrite, flushes, batch, nextReq, running>>
    PROVE  WindowTypeOK'
  <1>1. PICK told \in Seq(Messages(ToPageTypes)) : LetGo(n, FALSE, told)
    BY AbortWriteType DEF GiveUp
  <1>2. /\ win' \in [Notes -> {"none", "loading", "loaded"}]
        /\ page' \in [Notes -> Pages]
        /\ toHost' \in [Notes -> Seq(Messages(ToHostTypes))]
        /\ toPage' \in [Notes -> Seq(Messages(ToPageTypes))]
    BY <1>1, LetGoType
  <1>3. task' \in Tasks /\ (BringsText(task)' => task'.mark \in Marks)
    BY NoTaskType, BringsTextKept DEF GiveUp, Finished
  <1>4. LifecycleTypeOK'
    BY ClaimType DEF GiveUp
  <1>5. UNCHANGED <<typed, file, live, trashed, doc, hostGen, pendingAck, reported, written>>
    BY DEF GiveUp
  <1> QED
    BY <1>2, <1>3, <1>4, <1>5 DEF WindowTypeOK, PageTypeOK

(* ResumeMutation keeps the types.                                         *)
LEMMA ResumeMutationType ==
    ASSUME WindowTypeOK, PageAssumption, NEW n \in Notes, ResumeMutation(n)
    PROVE  WindowTypeOK'
  <1> DEFINE base == LiveBase(n, task.text)
             candidate == Mutated(task, base)
             message == Message("apply_external_document", task.req, hostGen[n] + 1, candidate.body)
  <1>1. candidate \in Documents
    <2>1. doc[n] \in Documents /\ task.text \in Bodies
      BY DEF WindowTypeOK, Tasks
    <2>2. base \in Documents
      BY <2>1 DEF LiveBase, Documents
    <2> HIDE DEF base
    <2> QED
      BY <2>2, MutatedType
  <1>2. UNCHANGED <<nextMark, pendingWrite, flushes, batch, nextReq, running>>
    BY DEF ResumeMutation
  <1>3. \/ \E tells \in BOOLEAN : GiveUp(n, tells) /\ Refuse
        \/ \E tells \in BOOLEAN : GiveUp(n, tells) /\ UNCHANGED refused
        \/ /\ CommitOnceWritten(n, candidate, TRUE)
           /\ Recorded(n)
           /\ hostGen' = [hostGen EXCEPT ![n] = @ + 1]
           /\ pendingAck' = [pendingAck EXCEPT ![n] = task.req]
           /\ task' = [task EXCEPT !.stage = "ack"]
           /\ Turn({}, {}, Tell(n, message))
           /\ UNCHANGED <<lifecycleVars, trashed, refused>>
    <2>1. task.ok \in BOOLEAN
      BY DEF WindowTypeOK, Tasks
    <2> QED
      BY <2>1 DEF ResumeMutation
  <1> HIDE DEF base, candidate
  <1>4. CASE \E tells \in BOOLEAN : GiveUp(n, tells) /\ Refuse
    BY <1>2, <1>4, GiveUpType, RefuseType
  <1>5. CASE \E tells \in BOOLEAN : GiveUp(n, tells) /\ UNCHANGED refused
    BY <1>2, <1>5, GiveUpType DEF WindowTypeOK
  <1>6. CASE /\ CommitOnceWritten(n, candidate, TRUE)
             /\ Recorded(n)
             /\ hostGen' = [hostGen EXCEPT ![n] = @ + 1]
             /\ pendingAck' = [pendingAck EXCEPT ![n] = task.req]
             /\ task' = [task EXCEPT !.stage = "ack"]
             /\ Turn({}, {}, Tell(n, message))
             /\ UNCHANGED <<lifecycleVars, trashed, refused>>
    <2>1. /\ file' \in [Notes -> Documents]
          /\ live' \subseteq Notes
          /\ doc' \in [Notes -> Documents]
      BY <1>1, <1>6, SaveType
    <2>2. /\ written' \in [Notes -> Bodies]
          /\ typed' \in [Notes -> Bodies]
          /\ reported' \in [Notes -> Bodies]
      BY <1>6, RecordedType
    <2>3. task.req \in RequestIds \cup {NoRequest} /\ task' \in Tasks
      BY <1>6, TaskType DEF Stages, Bodies
    <2>4. hostGen' \in [Notes -> Nat] /\ pendingAck' \in [Notes -> RequestIds \cup {NoRequest}]
      BY <1>6, <2>3 DEF WindowTypeOK
    <2>5. message \in Messages(ToPageTypes)
      <3>1. candidate.body \in Bodies
        BY <1>1 DEF Documents
      <3>2. hostGen[n] + 1 \in Nat
        BY DEF WindowTypeOK
      <3>3. "apply_external_document" \in ToPageTypes
        BY DEF ToPageTypes
      <3> QED
        BY <2>3, <3>1, <3>2, <3>3, MessageType
    <2> HIDE DEF message
    <2>6. PICK heard : heard = {} /\ Turn(heard, {}, Tell(n, message))
      BY <1>6
    <2>7. /\ win' \in [Notes -> {"none", "loading", "loaded"}]
        /\ page' \in [Notes -> Pages]
        /\ toHost' \in [Notes -> Seq(Messages(ToHostTypes))]
        /\ toPage' \in [Notes -> Seq(Messages(ToPageTypes))]
      <3>1. \A i \in Notes : i \in heard => toHost[i] # <<>>
        BY <2>6
      <3> QED
        BY <2>5, <2>6, <3>1, TellType, TurnType
    <2>8. BringsText(task)' => task'.mark \in Marks
      BY <1>6, BringsTextKept DEF WindowTypeOK, Tasks
    <2> QED
      BY <1>2, <1>6, <2>1, <2>2, <2>3, <2>4, <2>7, <2>8
         DEF WindowTypeOK, PageTypeOK, LifecycleTypeOK, lifecycleVars
  <1> QED
    BY <1>3, <1>4, <1>5, <1>6

(* ResumeDiscard keeps the types.                                          *)
LEMMA ResumeDiscardType ==
    ASSUME WindowTypeOK, PageAssumption, NEW n \in Notes, ResumeDiscard(n)
    PROVE  WindowTypeOK'
  <1>1. \E ok : CommitTrash(n, live, ok)
    BY DEF ResumeDiscard
  <1>2. PICK closes : LetGo(n, closes, <<AbortWrite(n)>>)
    BY DEF ResumeDiscard
  <1>3. /\ win' \in [Notes -> {"none", "loading", "loaded"}]
        /\ page' \in [Notes -> Pages]
        /\ toHost' \in [Notes -> Seq(Messages(ToHostTypes))]
        /\ toPage' \in [Notes -> Seq(Messages(ToPageTypes))]
    BY <1>2, LetGoType, AbortWriteType
  <1>4. trashed' \subseteq Notes /\ live' \subseteq Notes
    BY <1>1 DEF CommitTrash, WindowTypeOK
  <1>5. /\ FinishExternalWrite
        /\ Finished
        /\ UNCHANGED <<nextMark, typed, file, doc, hostGen, pendingWrite, pendingAck, flushes,
                       batch, nextReq, running, reported, written, refused>>
    BY DEF ResumeDiscard
  <1>6. task' \in Tasks /\ (BringsText(task)' => task'.mark \in Marks)
    BY <1>5, NoTaskType, BringsTextKept DEF Finished
  <1>7. LifecycleTypeOK'
    BY <1>5, ClaimType
  <1> QED
    BY <1>3, <1>4, <1>5, <1>6, <1>7 DEF WindowTypeOK, PageTypeOK

(* Settling the acknowledgement keeps the types.                           *)
LEMMA AckSettledType ==
    ASSUME WindowTypeOK, NEW n \in Notes, AckSettled(n) \/ UNCHANGED <<pendingAck, task>>
    PROVE  /\ pendingAck' \in [Notes -> RequestIds \cup {NoRequest}]
           /\ task' \in Tasks
           /\ BringsText(task)' => task'.mark \in Marks
  <1>1. pendingAck' \in [Notes -> RequestIds \cup {NoRequest}]
    BY DEF AckSettled, WindowTypeOK
  <1>2. task' \in Tasks
    BY TaskType DEF AckSettled, WindowTypeOK, Stages, Bodies
  <1>3. task'.kind = task.kind /\ task'.mark = task.mark
    BY DEF AckSettled, WindowTypeOK, Tasks
  <1> QED
    BY <1>1, <1>2, <1>3, BringsTextKept

(* ApplyAnswered keeps the types.                                          *)
LEMMA ApplyAnsweredType ==
    ASSUME WindowTypeOK, NEW n \in Notes, ApplyAnswered(n)
    PROVE  WindowTypeOK'
  <1>1. PICK type : Hears(n, type)
    BY DEF ApplyAnswered
  <1>2. Silence \in [Notes -> Seq(Messages(ToPageTypes))]
    BY DEF Silence
  <1>3. /\ win' \in [Notes -> {"none", "loading", "loaded"}]
        /\ page' \in [Notes -> Pages]
        /\ toHost' \in [Notes -> Seq(Messages(ToHostTypes))]
        /\ toPage' \in [Notes -> Seq(Messages(ToPageTypes))]
    BY <1>1, <1>2, HearsType, TurnType DEF ApplyAnswered
  <1>4. AckSettled(n) \/ UNCHANGED <<pendingAck, task>>
    BY DEF ApplyAnswered
  <1>5. UNCHANGED <<nextMark, typed, lifecycleVars, file, live, trashed, doc, hostGen, pendingWrite,
                    flushes, batch, nextReq, running, reported, written, refused>>
    BY DEF ApplyAnswered
  <1> QED
    BY <1>3, <1>4, <1>5, AckSettledType DEF WindowTypeOK, PageTypeOK, LifecycleTypeOK, lifecycleVars

(* AckTimeout keeps the types.                                             *)
LEMMA AckTimeoutType ==
    ASSUME WindowTypeOK, NEW n \in Notes, AckTimeout(n)
    PROVE  WindowTypeOK'
  BY AckSettledType DEF AckTimeout, WindowTypeOK, PageTypeOK, LifecycleTypeOK, lifecycleVars, pageVars

(* DeliveryFails keeps the types.                                          *)
LEMMA DeliveryFailsType ==
    ASSUME WindowTypeOK, NEW n \in Notes, DeliveryFails(n)
    PROVE  WindowTypeOK'
  <1>1. PICK i \in DOMAIN toPage[n] :
           toPage' = [toPage EXCEPT ![n] = SubSeq(@, 1, i - 1) \o SubSeq(@, i + 1, Len(@))]
    BY DEF DeliveryFails
  <1>2. toPage[n] \in Seq(Messages(ToPageTypes))
    BY DEF WindowTypeOK, PageTypeOK
  <1>3. /\ SubSeq(toPage[n], 1, i - 1) \in Seq(Messages(ToPageTypes))
        /\ SubSeq(toPage[n], i + 1, Len(toPage[n])) \in Seq(Messages(ToPageTypes))
    BY <1>2
  <1>4. toPage' \in [Notes -> Seq(Messages(ToPageTypes))]
    <2>1. SubSeq(toPage[n], 1, i - 1) \o SubSeq(toPage[n], i + 1, Len(toPage[n]))
              \in Seq(Messages(ToPageTypes))
      BY <1>3, ConcatType
    <2> QED
      BY <1>1, <2>1 DEF WindowTypeOK, PageTypeOK
  <1>5. /\ AckSettled(n)
        /\ UNCHANGED <<page, toHost, nextMark, typed, lifecycleVars, file, live, trashed, win, doc,
                       hostGen, pendingWrite, flushes, batch, nextReq, running, reported, written,
                       refused>>
    BY DEF DeliveryFails
  <1> QED
    BY <1>4, <1>5, AckSettledType DEF WindowTypeOK, PageTypeOK, LifecycleTypeOK, lifecycleVars

(* FinishWrite keeps the types.                                            *)
LEMMA FinishWriteType ==
    ASSUME WindowTypeOK, PageAssumption, NEW n \in Notes, FinishWrite(n)
    PROVE  WindowTypeOK'
  <1>1. /\ LetGo(n, FALSE, <<>>)
        /\ FinishExternalWrite
        /\ Finished
        /\ UNCHANGED <<nextMark, typed, file, live, trashed, doc, hostGen, pendingWrite, pendingAck,
                       flushes, batch, nextReq, running, reported, written, refused>>
    BY DEF FinishWrite
  <1>2. /\ win' \in [Notes -> {"none", "loading", "loaded"}]
        /\ page' \in [Notes -> Pages]
        /\ toHost' \in [Notes -> Seq(Messages(ToHostTypes))]
        /\ toPage' \in [Notes -> Seq(Messages(ToPageTypes))]
    BY <1>1, LetGoType, AbortWriteType
  <1>3. task' \in Tasks /\ (BringsText(task)' => task'.mark \in Marks)
    BY <1>1, NoTaskType, BringsTextKept DEF Finished
  <1>4. LifecycleTypeOK'
    BY <1>1, ClaimType
  <1> QED
    BY <1>1, <1>2, <1>3, <1>4 DEF WindowTypeOK, PageTypeOK

-----------------------------------------------------------------------------
(* The specification.                                                      *)

(* The application starts well typed.                                      *)
LEMMA InitType ==
    Init => TypeOK
  <1> SUFFICES ASSUME Init
               PROVE  TypeOK
    OBVIOUS
  <1>1. PageIn("absent") \in Pages /\ {} \in Bodies
    BY PageInType DEF Phases, Bodies
  <1>2. PageTypeOK
    BY <1>1, PageAssumption DEF Init, WindowInit, PageInit, PageTypeOK
  <1>3. EmptyDocument \in Documents
    BY <1>1 DEF EmptyDocument, Documents
  <1>4. task \in Tasks /\ (BringsText(task) => task.mark \in Marks)
    BY NoTaskType, PageAssumption DEF Init, WindowInit, BringsText, NoTask
  <1>5. nextReq \in 1 .. MaxRequests + 1 /\ batch \in Batches
    BY PageAssumption DEF Init, WindowInit, Batches
  <1> QED
    BY <1>1, <1>2, <1>3, <1>4, <1>5
       DEF Init, WindowInit, TypeOK, WindowTypeOK, LifecycleTypeOK, LifecycleInit

(* Every step of the whole keeps the types.                                *)
LEMMA NextType ==
    TypeOK /\ [Next]_vars => TypeOK'
  <1> SUFFICES ASSUME WindowTypeOK, [Next]_vars
               PROVE  WindowTypeOK'
    BY DEF TypeOK
  <1> USE PageAssumption
  <1>1. CASE UNCHANGED vars
    BY <1>1 DEF vars, pageVars, lifecycleVars, hostVars, WindowTypeOK, PageTypeOK, LifecycleTypeOK,
                BringsText
  <1>2. ASSUME NEW n \in Notes, ReaderActs(n) \/ PageWorks(n) \/ PageGrowsSlow(n)
        PROVE  WindowTypeOK'
    <2>1. PageTypeOK'
      BY <1>2, PageStepType DEF ReaderActs, PageWorks, PageGrowsSlow, WindowTypeOK
    <2>2. UNCHANGED <<lifecycleVars, hostVars>>
      BY <1>2 DEF ReaderActs, PageWorks, PageGrowsSlow
    <2> QED
      BY <2>1, <2>2 DEF WindowTypeOK, lifecycleVars, hostVars, LifecycleTypeOK, BringsText
  <1>3. ASSUME NEW n \in Notes, HostHears(n)
        PROVE  WindowTypeOK'
    BY <1>3, ReadyType, ContentChangedType, PaperChangedType, SaveAndCloseAskedType,
       FlushResponseType, SnapshotReadyType, ApplyAnsweredType DEF HostHears
  <1>4. ASSUME NEW n \in Notes, TimerFires(n)
        PROVE  WindowTypeOK'
    BY <1>4, ExpireFlushType, SnapshotTimeoutType, AckTimeoutType DEF TimerFires
  <1>5. ASSUME NEW n \in Notes, AuthorityWorks(n)
        PROVE  WindowTypeOK'
    BY <1>5, MutateDirectlyType, DiscardDirectlyType, AskSnapshotType, ResumeMutationType,
       ResumeDiscardType, FinishWriteType DEF AuthorityWorks
  <1>6. ASSUME NEW n \in Notes, SomebodyAsks(n)
        PROVE  WindowTypeOK'
    BY <1>6, OpenWindowType, TrashNoteType, SubmitType DEF SomebodyAsks
  <1>7. ASSUME NEW n \in Notes, DeliveryFails(n)
        PROVE  WindowTypeOK'
    BY <1>7, DeliveryFailsType
  <1>8. ASSUME NEW operation \in LifecycleOperation, StartFlushAll(operation)
        PROVE  WindowTypeOK'
    BY <1>8, StartFlushAllType
  <1> QED
    BY <1>1, <1>2, <1>3, <1>4, <1>5, <1>6, <1>7, <1>8 DEF Next

(* Type correctness: every reachable state is well typed, for any finite   *)
(* set of notes, any bound and any set of faults.                          *)
THEOREM TypeCorrect == Spec => []TypeOK
  BY InitType, NextType, PTL DEF Spec

-----------------------------------------------------------------------------
(* The claims on the coordinator.                                          *)

(* No claim is taken when the application starts.                          *)
LEMMA InitClaims ==
    Init => ClaimsAccounted
  BY DEF Init, WindowInit, LifecycleInit, ClaimsAccounted, NoTask, HeldStages

(* A flush that settles can only end the operation it belongs to.          *)
LEMMA FlushClaims ==
    ASSUME ClaimsAccounted, NEW n, NEW flush, NEW ok, NEW nowLive, NEW heard, NEW told,
           FlushSettled(n, flush, ok, nowLive, heard, told),
           UNCHANGED <<task, pendingWrite, pendingAck>>
    PROVE  ClaimsAccounted'
  <1>1. UNCHANGED lifecycleVars \/ FinishLifecycle(active)
    BY DEF FlushSettled
  <1> QED
    BY <1>1 DEF ClaimsAccounted, FinishLifecycle, lifecycleVars

(* What the host hears moves a request on, or leaves the claims alone.     *)
LEMMA HostClaims ==
    ASSUME TypeOK, ClaimsAccounted, NEW n \in Notes, HostHears(n)
    PROVE  ClaimsAccounted'
  <1>1. CASE Ready(n) \/ ContentChanged(n) \/ PaperChanged(n) \/ SaveAndCloseAsked(n)
    <2>1. UNCHANGED <<lifecycleVars, task, pendingWrite, pendingAck>>
      BY <1>1 DEF Ready, ContentChanged, PaperChanged, SaveAndCloseAsked
    <2> QED
      BY <2>1 DEF ClaimsAccounted, lifecycleVars
  <1>2. CASE FlushResponse(n)
    <2>1. UNCHANGED <<task, pendingWrite, pendingAck>>
      BY <1>2 DEF FlushResponse
    <2>2. \/ UNCHANGED lifecycleVars
          \/ \E flush, ok, nowLive : FlushSettled(n, flush, ok, nowLive, {n}, Silence)
      BY <1>2 DEF FlushResponse, lifecycleVars
    <2>3. CASE UNCHANGED lifecycleVars
      BY <2>1, <2>3 DEF ClaimsAccounted, lifecycleVars
    <2> QED
      BY <2>1, <2>2, <2>3, FlushClaims
  <1>3. CASE SnapshotReady(n)
    <2>1. UNCHANGED <<lifecycleVars, pendingAck>>
      BY <1>3 DEF SnapshotReady
    <2>2. \/ UNCHANGED <<pendingWrite, task>>
          \/ /\ pendingWrite[n] # NoRequest
             /\ pendingWrite' = [pendingWrite EXCEPT ![n] = NoRequest]
             /\ task' = [task EXCEPT !.stage = "resumed", !.text = Head(toHost[n]).text,
                                     !.ok = TRUE]
      BY <1>3 DEF SnapshotReady
    <2>3. CASE UNCHANGED <<pendingWrite, task>>
      BY <2>1, <2>3 DEF ClaimsAccounted, lifecycleVars
    <2>4. CASE /\ pendingWrite[n] # NoRequest
               /\ pendingWrite' = [pendingWrite EXCEPT ![n] = NoRequest]
               /\ task'.stage = "resumed"
      <3>1. task.note = n /\ task.stage = "snapshot"
        BY <2>4 DEF ClaimsAccounted
      <3>2. \A i \in Notes : pendingWrite'[i] = NoRequest /\ pendingAck'[i] = NoRequest
        BY <2>1, <2>4, <3>1 DEF ClaimsAccounted, TypeOK, WindowTypeOK
      <3> QED
        BY <2>1, <2>4, <3>1, <3>2 DEF ClaimsAccounted, lifecycleVars, HeldStages
    <2>5. task \in Tasks
      BY DEF TypeOK, WindowTypeOK
    <2> QED
      BY <2>2, <2>3, <2>4, <2>5 DEF Tasks
  <1>4. CASE ApplyAnswered(n)
    <2>1. UNCHANGED <<lifecycleVars, pendingWrite>>
      BY <1>4 DEF ApplyAnswered
    <2>2. (pendingAck[n] # NoRequest /\ AckSettled(n)) \/ UNCHANGED <<pendingAck, task>>
      BY <1>4 DEF ApplyAnswered
    <2> QED
      BY <2>1, <2>2 DEF ClaimsAccounted, lifecycleVars, HeldStages, AckSettled, TypeOK,
                        WindowTypeOK, Tasks
  <1> QED
    BY <1>1, <1>2, <1>3, <1>4 DEF HostHears

(* Every timer, and a delivery that fails, ends exactly one wait.          *)
LEMMA TimerClaims ==
    ASSUME TypeOK, ClaimsAccounted, NEW n \in Notes, TimerFires(n) \/ DeliveryFails(n)
    PROVE  ClaimsAccounted'
  <1>1. CASE ExpireFlush(n)
    <2>1. UNCHANGED <<task, pendingWrite, pendingAck>>
      BY <1>1 DEF ExpireFlush
    <2>2. PICK flush : FlushSettled(n, flush, FALSE, live, {}, Silence)
      BY <1>1 DEF ExpireFlush
    <2>3. UNCHANGED lifecycleVars \/ FinishLifecycle(active)
      BY <2>2 DEF FlushSettled
    <2> QED
      BY <2>1, <2>3 DEF ClaimsAccounted, FinishLifecycle, lifecycleVars
  <1>2. CASE SnapshotTimeout(n)
    BY <1>2 DEF SnapshotTimeout, ClaimsAccounted, lifecycleVars, HeldStages, TypeOK, WindowTypeOK,
                Tasks
  <1>3. CASE AckTimeout(n) \/ DeliveryFails(n)
    <2>1. UNCHANGED <<lifecycleVars, pendingWrite>>
      BY <1>3 DEF AckTimeout, DeliveryFails
    <2>2. pendingAck[n] # NoRequest /\ AckSettled(n)
      BY <1>3 DEF AckTimeout, DeliveryFails
    <2> QED
      BY <2>1, <2>2 DEF ClaimsAccounted, lifecycleVars, HeldStages, AckSettled, TypeOK,
                        WindowTypeOK, Tasks
  <1> QED
    BY <1>1, <1>2, <1>3 DEF TimerFires

(* A request that ends gives back the claim it took.                       *)
LEMMA FinishedClaims ==
    ASSUME TypeOK, ClaimsAccounted, Finished, UNCHANGED <<pendingWrite, pendingAck>>,
           \A n \in Notes : pendingWrite[n] = NoRequest /\ pendingAck[n] = NoRequest,
           \/ FinishExternalWrite
           \/ UNCHANGED lifecycleVars /\ task.stage \notin HeldStages
    PROVE  ClaimsAccounted'
  BY DEF ClaimsAccounted, lifecycleVars, HeldStages, Finished, NoTask, FinishExternalWrite

(* The authority claims when it asks and gives back when it ends.          *)
LEMMA AuthorityClaims ==
    ASSUME TypeOK, ClaimsAccounted, NEW n \in Notes, AuthorityWorks(n)
    PROVE  ClaimsAccounted'
  <1>1. task.stage \notin {"snapshot", "ack"} =>
            \A i \in Notes : pendingWrite[i] = NoRequest /\ pendingAck[i] = NoRequest
    BY DEF ClaimsAccounted
  <1>2. CASE MutateDirectly(n) \/ DiscardDirectly(n)
    <2>1. /\ task.stage = "queued"
          /\ Finished
          /\ UNCHANGED <<lifecycleVars, pendingWrite, pendingAck>>
      BY <1>2 DEF MutateDirectly, DiscardDirectly, Unanswered
    <2> QED
      BY <1>1, <2>1, FinishedClaims DEF HeldStages
  <1>3. CASE AskSnapshot(n)
    <2>1. task.stage = "queued" /\ task.note = n /\ UNCHANGED pendingAck
      BY <1>3 DEF AskSnapshot
    <2>2. CASE Finished /\ UNCHANGED <<lifecycleVars, pendingWrite>>
      BY <1>1, <2>1, <2>2, FinishedClaims DEF HeldStages
    <2>3. CASE /\ ExternalWriteAllowed
               /\ BeginExternalWrite
               /\ pendingWrite' = [pendingWrite EXCEPT ![n] = task.req]
               /\ task' = [task EXCEPT !.stage = "snapshot"]
      <3>1. task'.stage = "snapshot" /\ task'.note = n
        BY <2>1, <2>3 DEF TypeOK, WindowTypeOK, Tasks
      <3>2. externalWrites' = 1 /\ active' = NoOperation
        BY <2>1, <2>3 DEF BeginExternalWrite, ExternalWriteAllowed, ClaimsAccounted, HeldStages
      <3>3. \A i \in Notes : /\ pendingAck'[i] = NoRequest
                             /\ i # n => pendingWrite'[i] = NoRequest
        BY <1>1, <2>1, <2>3 DEF TypeOK, WindowTypeOK
      <3> QED
        BY <3>1, <3>2, <3>3 DEF ClaimsAccounted, HeldStages
    <2> QED
      BY <1>3, <2>2, <2>3 DEF AskSnapshot
  <1>4. CASE ResumeMutation(n)
    <2>1. task.stage = "resumed" /\ task.note = n /\ UNCHANGED pendingWrite
      BY <1>4 DEF ResumeMutation
    <2>2. CASE Finished /\ FinishExternalWrite /\ UNCHANGED pendingAck
      BY <1>1, <2>1, <2>2, FinishedClaims
    <2>3. CASE /\ UNCHANGED lifecycleVars
               /\ pendingAck' = [pendingAck EXCEPT ![n] = task.req]
               /\ task' = [task EXCEPT !.stage = "ack"]
      <3>1. task'.stage = "ack" /\ task'.note = n
        BY <2>1, <2>3 DEF TypeOK, WindowTypeOK, Tasks
      <3>2. \A i \in Notes : /\ pendingWrite'[i] = NoRequest
                             /\ i # n => pendingAck'[i] = NoRequest
        BY <1>1, <2>1, <2>3 DEF TypeOK, WindowTypeOK
      <3> QED
        BY <2>1, <2>3, <3>1, <3>2 DEF ClaimsAccounted, HeldStages, lifecycleVars
    <2> QED
      BY <1>4, <2>2, <2>3 DEF ResumeMutation, GiveUp
  <1>5. CASE ResumeDiscard(n) \/ FinishWrite(n)
    <2>1. /\ task.stage \in {"resumed", "synced"}
          /\ FinishExternalWrite
          /\ Finished
          /\ UNCHANGED <<pendingWrite, pendingAck>>
      BY <1>5 DEF ResumeDiscard, FinishWrite
    <2> QED
      BY <1>1, <2>1, FinishedClaims
  <1> QED
    BY <1>2, <1>3, <1>4, <1>5 DEF AuthorityWorks

(* Every step keeps the claims accounted for.                              *)
LEMMA NextClaims ==
    TypeOK /\ ClaimsAccounted /\ [Next]_vars => ClaimsAccounted'
  <1> SUFFICES ASSUME TypeOK, ClaimsAccounted, [Next]_vars
               PROVE  ClaimsAccounted'
    OBVIOUS
  <1>1. CASE UNCHANGED <<lifecycleVars, hostVars>>
    BY <1>1 DEF ClaimsAccounted, lifecycleVars, hostVars
  <1>2. ASSUME NEW n \in Notes, ReaderActs(n) \/ PageWorks(n) \/ PageGrowsSlow(n)
        PROVE  ClaimsAccounted'
    BY <1>1, <1>2 DEF ReaderActs, PageWorks, PageGrowsSlow
  <1>3. ASSUME NEW n \in Notes, OpenWindow(n) \/ TrashNote(n)
        PROVE  ClaimsAccounted'
    <2>1. UNCHANGED <<lifecycleVars, task, pendingWrite, pendingAck>>
      BY <1>3 DEF OpenWindow, TrashNote
    <2> QED
      BY <2>1 DEF ClaimsAccounted, lifecycleVars
  <1>4. ASSUME NEW n \in Notes, NEW kind \in Kinds, Submit(n, kind)
        PROVE  ClaimsAccounted'
    <2>1. UNCHANGED <<lifecycleVars, pendingWrite, pendingAck>> /\ task.stage = "idle"
      BY <1>4 DEF Submit, IsIdle
    <2>2. task'.stage = "queued"
      BY <1>4 DEF Submit, NoTask
    <2> QED
      BY <2>1, <2>2 DEF ClaimsAccounted, lifecycleVars, HeldStages
  <1>5. ASSUME NEW operation \in LifecycleOperation, StartFlushAll(operation)
        PROVE  ClaimsAccounted'
    <2>1. /\ externalWrites = 0
          /\ UNCHANGED <<externalWrites, task, pendingWrite, pendingAck>>
      BY <1>5 DEF StartFlushAll, StructuralActionAllowed, BeginLifecycle, lifecycleVars
    <2> QED
      BY <2>1 DEF ClaimsAccounted
  <1> QED
    BY <1>1, <1>2, <1>3, <1>4, <1>5, HostClaims, TimerClaims, AuthorityClaims
       DEF Next, SomebodyAsks, vars

(* The coordinator's count is the truth about what the authority holds.    *)
THEOREM ClaimsAlwaysAccounted == Spec => []ClaimsAccounted
  BY InitClaims, NextClaims, TypeCorrect, PTL DEF Spec

(* Hiding and quitting never overlap an external write, whichever came     *)
(* first, for any number of notes (LifecycleCoordinator in src/app.rs).    *)
THEOREM LifecycleNeverOverlaps == Spec => []LifecycleExclusion
  <1>1. TypeOK /\ ClaimsAccounted => LifecycleExclusion
    BY DEF ClaimsAccounted, LifecycleExclusion, HeldByTask
  <1> QED
    BY <1>1, TypeCorrect, ClaimsAlwaysAccounted, PTL
-----------------------------------------------------------------------------
(* The pages and the documents the host keeps for them.                    *)

(* No page is there when the application starts.                           *)
LEMMA InitPages ==
    Init => PagesAccounted
  BY DEF Init, WindowInit, PageInit, PagesAccounted, PageIn, HeldByTask, NoTask, HeldStages

(* A turn of the main loop keeps the pages accounted for, if it speaks to  *)
(* pages that are there and leaves the documents described.                *)
LEMMA TurnPages ==
    ASSUME TypeOK, PagesAccounted, NEW heard, NEW gone, NEW told, Turn(heard, gone, told),
           told \in [Notes -> Seq(Messages(ToPageTypes))],
           \A i \in Notes : i \in heard => toHost[i] # <<>>,
           \A i \in Notes : page[i].phase = "absent" => told[i] = <<>>,
           \A i \in Notes : HeldByTask(i)' <=> HeldByTask(i),
           \A i \in Notes : page[i].phase # "absent" => doc'[i] = file'[i]
    PROVE  PagesAccounted'
  <1> SUFFICES ASSUME NEW i \in Notes
               PROVE  LET present == page'[i].phase # "absent" IN
                      /\ present <=> win'[i] # "none" \/ HeldByTask(i)'
                      /\ ~present => toHost'[i] = <<>> /\ toPage'[i] = <<>>
                      /\ present => doc'[i] = file'[i]
    BY DEF PagesAccounted
  <1>1. PageIn("absent").phase = "absent"
    BY DEF PageIn
  <1>2. /\ page[i].phase # "absent" <=> win[i] # "none" \/ HeldByTask(i)
        /\ page[i].phase = "absent" => toHost[i] = <<>> /\ toPage[i] = <<>>
    BY DEF PagesAccounted
  <1>3. /\ toPage[i] \in Seq(Messages(ToPageTypes))
        /\ told[i] \in Seq(Messages(ToPageTypes))
    BY DEF TypeOK, WindowTypeOK, PageTypeOK
  <1>4. page[i].phase = "absent" => toPage[i] \o told[i] = <<>>
    BY <1>2, <1>3
  <1>5. CASE i \in gone /\ ~HeldByTask(i)
    BY <1>1, <1>5 DEF Turn
  <1>6. CASE i \notin gone \/ HeldByTask(i)
    <2>1. /\ page'[i] = page[i]
          /\ toPage'[i] = toPage[i] \o told[i]
          /\ toHost'[i] = IF i \in heard THEN Tail(toHost[i]) ELSE toHost[i]
          /\ win'[i] = IF i \in gone THEN "none" ELSE win[i]
      BY <1>6 DEF Turn
    <2> QED
      BY <1>2, <1>4, <1>6, <2>1
  <1> QED
    BY <1>5, <1>6

(* Silence says nothing.                                                   *)
LEMMA SilenceType ==
    /\ Silence \in [Notes -> Seq(Messages(ToPageTypes))]
    /\ \A i \in Notes : Silence[i] = <<>>
  BY DEF Silence

(* A page that said something is there.                                    *)
LEMMA HeardPage ==
    ASSUME PagesAccounted, NEW n \in Notes, NEW type, Hears(n, type)
    PROVE  /\ page[n].phase # "absent"
           /\ doc[n] = file[n]
           /\ \A i \in Notes : i \in {n} => toHost[i] # <<>>
  BY DEF PagesAccounted, Hears

(* Saving through the host's document keeps it describing the file.        *)
LEMMA SaveDescribes ==
    ASSUME TypeOK, NEW n \in Notes, NEW text, NEW d, NEW ok,
           SaveContent(n, text, ok) \/ CommitOnceWritten(n, d, ok)
    PROVE  \A i \in Notes : doc[i] = file[i] => doc'[i] = file'[i]
  BY DEF TypeOK, WindowTypeOK, SaveContent, CommitOnceWritten, SaveDocument

(* The requests of others do not change which page the authority holds.    *)
LEMMA HeldSame ==
    ASSUME UNCHANGED task
    PROVE  \A i \in Notes : HeldByTask(i)' <=> HeldByTask(i)
  BY DEF HeldByTask

(* The page's own steps keep the pages accounted for.                      *)
LEMMA PagePages ==
    ASSUME TypeOK, PagesAccounted, NEW n \in Notes,
           ReaderActs(n) \/ PageWorks(n) \/ PageGrowsSlow(n)
    PROVE  PagesAccounted'
  <1>1. UNCHANGED <<win, task, file, doc>>
    BY DEF ReaderActs, PageWorks, PageGrowsSlow, hostVars
  <1>2. page[n].phase # "absent"
    <2>1. CASE Holds(n)
      BY <2>1 DEF Holds
    <2>2. CASE toPage[n] # <<>>
      BY <2>2 DEF PagesAccounted
    <2>3. CASE page[n].phase = "syncing"
      BY <2>3
    <2>4. Holds(n) \/ toPage[n] # <<>> \/ page[n].phase = "syncing"
      BY DEF ReaderActs, Type, DeferEdit, SaveAndClose, ChangePaper, PageWorks, Autosave,
             PageHears, LoadNote, AnswerFlush, Begin, Apply, Abort, Receive,
             PageGrowsSlow, SlowNotice
    <2> QED
      BY <2>1, <2>2, <2>3, <2>4
  <1>3. \A i \in Notes : i # n => /\ page'[i] = page[i]
                                  /\ toHost'[i] = toHost[i]
                                  /\ toPage'[i] = toPage[i]
    BY DEF TypeOK, WindowTypeOK, PageTypeOK, ReaderActs, Type, DeferEdit, SaveAndClose, ChangePaper,
           PageWorks, Autosave, PageHears, LoadNote, AnswerFlush, Begin, Apply, Abort, Receive,
           PageGrowsSlow, SlowNotice, Send
  <1>4. page'[n].phase # "absent"
    <2>1. page[n] \in Pages /\ page \in [Notes -> Pages]
      BY DEF TypeOK, WindowTypeOK, PageTypeOK
    <2>2. CASE LoadNote(n)
      <3>1. [PageIn("idle") EXCEPT !.gen = Head(toPage[n]).gen,
                                   !.text = Head(toPage[n]).text].phase = "idle"
        BY DEF PageIn
      <3> QED
        BY <2>1, <2>2, <3>1 DEF LoadNote
    <2>3. ASSUME NEW p \in Pages, page' = [page EXCEPT ![n] = Released(p)]
          PROVE  page'[n].phase # "absent"
      <3>1. Released(p).phase = "idle"
        BY <2>3 DEF Released, Pages
      <3> QED
        BY <2>1, <2>3, <3>1
    <2>4. CASE Apply(n)
      <3> DEFINE p == [page[n] EXCEPT !.text = Head(toPage[n]).text, !.gen = Head(toPage[n]).gen]
      <3>1. p \in Pages
        <4>1. toPage[n] # <<>>
          BY <2>4 DEF Apply, Receive
        <4>2. Head(toPage[n]).text \in Bodies /\ Head(toPage[n]).gen \in Nat
          BY <4>1, ReceiveType DEF TypeOK, WindowTypeOK, PageTypeOK
        <4> QED
          BY <2>1, <4>2 DEF Pages
      <3>2. \/ UNCHANGED page
            \/ page' = [page EXCEPT ![n].phase = "unsynchronised"]
            \/ page' = [page EXCEPT ![n] = Released(p)]
        BY <2>4 DEF Apply, Adopted
      <3> HIDE DEF p
      <3>3. CASE page' = [page EXCEPT ![n].phase = "unsynchronised"]
        BY <2>1, <3>3 DEF Pages
      <3> QED
        BY <1>2, <2>3, <3>1, <3>2, <3>3
    <2>5. CASE Abort(n)
      BY <1>2, <2>1, <2>3, <2>5 DEF Abort
    <2>6. CASE AnswerFlush(n) \/ Begin(n)
      BY <1>2, <2>1, <2>6 DEF AnswerFlush, Begin, Pages
    <2>7. CASE ReaderActs(n) \/ PageGrowsSlow(n) \/ Autosave(n)
      BY <1>2, <2>1, <2>7 DEF ReaderActs, Type, DeferEdit, SaveAndClose, ChangePaper, Autosave,
                              PageGrowsSlow, SlowNotice, Pages
    <2> QED
      BY <2>2, <2>4, <2>5, <2>6, <2>7 DEF PageWorks, PageHears
  <1> QED
    BY <1>1, <1>2, <1>3, <1>4, HeldSame DEF PagesAccounted

(* A wait that ends moves the request on and leaves the page held.         *)
LEMMA HeldMoves ==
    ASSUME TypeOK, task.stage \in HeldStages, NEW stage \in HeldStages,
           task'.stage = stage, task'.note = task.note
    PROVE  \A i \in Notes : HeldByTask(i)' <=> HeldByTask(i)
  BY DEF HeldByTask

(* A turn that takes a page's message and says nothing keeps the pages     *)
(* accounted for.                                                          *)
LEMMA HeardTurnPages ==
    ASSUME TypeOK, PagesAccounted, NEW n \in Notes, NEW type, Hears(n, type), NEW gone,
           Turn({n}, gone, Silence),
           \A i \in Notes : HeldByTask(i)' <=> HeldByTask(i),
           \A i \in Notes : doc[i] = file[i] => doc'[i] = file'[i]
    PROVE  PagesAccounted'
  <1>1. \A i \in Notes : page[i].phase # "absent" => doc'[i] = file'[i]
    BY DEF PagesAccounted
  <1>2. PICK heard : heard = {n} /\ Turn(heard, gone, Silence)
    OBVIOUS
  <1>3. \A i \in Notes : i \in heard => toHost[i] # <<>>
    BY <1>2, HeardPage
  <1> QED
    BY <1>1, <1>2, <1>3, TurnPages, SilenceType

(* The answer to a flush, in time or not, keeps the pages accounted for.   *)
LEMMA FlushResponsePages ==
    ASSUME TypeOK, PagesAccounted, NEW n \in Notes, FlushResponse(n)
    PROVE  PagesAccounted'
  <1>1. Hears(n, "flush_response") /\ UNCHANGED task
    BY DEF FlushResponse
  <1>2. PICK gone : Turn({n}, gone, Silence)
    BY DEF FlushResponse, FlushSettled
  <1>3. \/ UNCHANGED <<file, doc>>
        \/ \E saved \in BOOLEAN :
              LET d == [doc[n] EXCEPT !.body = Head(toHost[n]).text] IN
              /\ file' = IF saved THEN [file EXCEPT ![n] = d] ELSE file
              /\ doc' = IF saved THEN [doc EXCEPT ![n] = d] ELSE doc
    <2>1. CASE \E flush, ok \in Outcomes :
                  LET m == Head(toHost[n])
                      saves == doc[n].body # m.text
                      d == [doc[n] EXCEPT !.body = m.text]
                  IN /\ file' = IF saves /\ ok THEN [file EXCEPT ![n] = d] ELSE file
                     /\ doc' = IF saves /\ ok THEN [doc EXCEPT ![n] = d] ELSE doc
      <3>1. PICK ok \in Outcomes :
                  LET m == Head(toHost[n])
                      saves == doc[n].body # m.text
                      d == [doc[n] EXCEPT !.body = m.text]
                  IN /\ file' = IF saves /\ ok THEN [file EXCEPT ![n] = d] ELSE file
                     /\ doc' = IF saves /\ ok THEN [doc EXCEPT ![n] = d] ELSE doc
        BY <2>1
      <3>2. (doc[n].body # Head(toHost[n]).text /\ ok) \in BOOLEAN
        BY DEF Outcomes
      <3> QED
        BY <3>1, <3>2
    <2>2. CASE UNCHANGED <<file, doc>>
      BY <2>2
    <2> QED
      BY <2>1, <2>2 DEF FlushResponse
  <1>4. \A i \in Notes : doc[i] = file[i] => doc'[i] = file'[i]
    BY <1>3 DEF TypeOK, WindowTypeOK
  <1> QED
    BY <1>1, <1>2, <1>4, HeldSame, HeardTurnPages

(* What the host hears keeps the pages accounted for.                      *)
LEMMA HostPages ==
    ASSUME TypeOK, ClaimsAccounted, PagesAccounted, NEW n \in Notes, HostHears(n)
    PROVE  PagesAccounted'
  <1>1. CASE Ready(n)
    <2>1. UNCHANGED <<page, file, doc, task>>
      BY <1>1 DEF Ready
    <2>2. page[n].phase # "absent"
      BY <1>1, HeardPage DEF Ready
    <2>3. /\ win' = [win EXCEPT ![n] = "loaded"]
          /\ \A i \in Notes : i # n => toHost'[i] = toHost[i] /\ toPage'[i] = toPage[i]
      BY <1>1 DEF Ready, TypeOK, WindowTypeOK, PageTypeOK
    <2> QED
      BY <2>1, <2>2, <2>3, HeldSame DEF PagesAccounted, TypeOK, WindowTypeOK
  <1>2. CASE ContentChanged(n)
    <2>1. Hears(n, "content_changed") /\ Turn({n}, {}, Silence) /\ UNCHANGED task
      BY <1>2 DEF ContentChanged
    <2>2. UNCHANGED <<file, doc>> \/ \E ok : SaveContent(n, Head(toHost[n]).text, ok)
      BY <1>2 DEF ContentChanged
    <2>3. \A i \in Notes : doc[i] = file[i] => doc'[i] = file'[i]
      BY <2>2, SaveDescribes
    <2>4. PICK gone : Turn({n}, gone, Silence)
      BY <2>1
    <2> QED
      BY <2>1, <2>3, <2>4, HeldSame, HeardTurnPages
  <1>3. CASE PaperChanged(n)
    <2>1. Hears(n, "paper_changed") /\ UNCHANGED task
      BY <1>3 DEF PaperChanged
    <2>2. PICK ok : CommitOnceWritten(n, [doc[n] EXCEPT !.look = @ + 1], ok)
      BY <1>3 DEF PaperChanged
    <2>3. \A i \in Notes : doc[i] = file[i] => doc'[i] = file'[i]
      BY <2>2, SaveDescribes
    <2>4. PICK gone : Turn({n}, gone, Silence)
      BY <1>3 DEF PaperChanged
    <2> QED
      BY <2>1, <2>3, <2>4, HeldSame, HeardTurnPages
  <1>4. CASE SaveAndCloseAsked(n)
    <2>1. Hears(n, "save_and_close") /\ UNCHANGED task
      BY <1>4 DEF SaveAndCloseAsked
    <2>2. UNCHANGED <<file, doc>> \/ \E ok : SaveContent(n, Head(toHost[n]).text, ok)
      BY <1>4 DEF SaveAndCloseAsked
    <2>3. \A i \in Notes : doc[i] = file[i] => doc'[i] = file'[i]
      BY <2>2, SaveDescribes
    <2>4. PICK gone : Turn({n}, gone, Silence)
      BY <1>4 DEF SaveAndCloseAsked
    <2> QED
      BY <2>1, <2>3, <2>4, HeldSame, HeardTurnPages
  <1>5. CASE FlushResponse(n)
    BY <1>5, FlushResponsePages
  <1>6. CASE SnapshotReady(n)
    <2>1. Hears(n, "external_write_ready") /\ UNCHANGED <<file, doc>>
      BY <1>6 DEF SnapshotReady
    <2>2. \/ UNCHANGED task
          \/ /\ pendingWrite[n] # NoRequest
             /\ task' = [task EXCEPT !.stage = "resumed", !.text = Head(toHost[n]).text,
                                     !.ok = TRUE]
      BY <1>6 DEF SnapshotReady
    <2>3. \A i \in Notes : HeldByTask(i)' <=> HeldByTask(i)
      <3>1. CASE UNCHANGED task
        BY <3>1, HeldSame
      <3>2. CASE /\ pendingWrite[n] # NoRequest
                 /\ task' = [task EXCEPT !.stage = "resumed", !.text = Head(toHost[n]).text,
                                         !.ok = TRUE]
        <4>1. task.stage = "snapshot"
          BY <3>2 DEF ClaimsAccounted
        <4>2. task'.stage = "resumed" /\ task'.note = task.note
          BY <3>2 DEF TypeOK, WindowTypeOK, Tasks
        <4> QED
          BY <4>1, <4>2, HeldMoves DEF HeldStages
      <3> QED
        BY <2>2, <3>1, <3>2
    <2>4. PICK gone : Turn({n}, gone, Silence)
      BY <1>6 DEF SnapshotReady
    <2> QED
      BY <2>1, <2>3, <2>4, HeardTurnPages
  <1>7. CASE ApplyAnswered(n)
    <2>1. PICK type : Hears(n, type)
      BY <1>7 DEF ApplyAnswered
    <2>2. UNCHANGED <<file, doc>>
      BY <1>7 DEF ApplyAnswered
    <2>3. UNCHANGED task \/ (pendingAck[n] # NoRequest /\ AckSettled(n))
      BY <1>7 DEF ApplyAnswered
    <2>4. \A i \in Notes : HeldByTask(i)' <=> HeldByTask(i)
      <3>1. CASE UNCHANGED task
        BY <3>1, HeldSame
      <3>2. CASE pendingAck[n] # NoRequest /\ AckSettled(n)
        BY <3>2 DEF AckSettled, ClaimsAccounted, HeldByTask, HeldStages, TypeOK, WindowTypeOK, Tasks
      <3> QED
        BY <2>3, <3>1, <3>2
    <2>5. PICK gone : Turn({n}, gone, Silence)
      BY <1>7 DEF ApplyAnswered
    <2> QED
      BY <2>1, <2>2, <2>4, <2>5, HeardTurnPages
  <1> QED
    BY <1>1, <1>2, <1>3, <1>4, <1>5, <1>6, <1>7 DEF HostHears

(* A timer that runs out, or a delivery that fails, keeps the pages        *)
(* accounted for: only a page that is waited for is told anything.         *)
LEMMA TimerPages ==
    ASSUME TypeOK, ClaimsAccounted, PagesAccounted, NEW n \in Notes,
           TimerFires(n) \/ DeliveryFails(n)
    PROVE  PagesAccounted'
  <1>1. UNCHANGED <<file, doc>>
    BY DEF TimerFires, ExpireFlush, SnapshotTimeout, AckTimeout, DeliveryFails
  <1>2. \A i \in Notes : page[i].phase # "absent" => doc'[i] = file'[i]
    BY <1>1 DEF PagesAccounted
  <1>3. CASE ExpireFlush(n)
    <2>1. UNCHANGED task
      BY <1>3 DEF ExpireFlush
    <2>2. PICK heard, gone : heard = {} /\ Turn(heard, gone, Silence)
      BY <1>3 DEF ExpireFlush, FlushSettled
    <2> QED
      BY <1>2, <2>1, <2>2, HeldSame, TurnPages, SilenceType
  <1>4. CASE SnapshotTimeout(n)
    <2> DEFINE m == Message("abort_external_write", pendingWrite[n], 0, {})
    <2>1. task.note = n /\ task.stage = "snapshot"
      BY <1>4 DEF SnapshotTimeout, ClaimsAccounted
    <2>2. task'.stage = "resumed" /\ task'.note = task.note
      BY <1>4 DEF SnapshotTimeout, TypeOK, WindowTypeOK, Tasks
    <2>3. \A i \in Notes : HeldByTask(i)' <=> HeldByTask(i)
      BY <2>1, <2>2, HeldMoves DEF HeldStages
    <2>4. page[n].phase # "absent"
      BY <2>1 DEF PagesAccounted, HeldByTask, HeldStages
    <2>5. Tell(n, m) \in [Notes -> Seq(Messages(ToPageTypes))]
      <3>1. m \in Messages(ToPageTypes)
        BY MessageType DEF ToPageTypes, TypeOK, WindowTypeOK, Bodies
      <3> QED
        BY <3>1, TellType
    <2>6. \A i \in Notes : page[i].phase = "absent" => Tell(n, m)[i] = <<>>
      BY <2>4 DEF Tell, Silence
    <2>7. Turn({}, {}, Tell(n, m))
      BY <1>4 DEF SnapshotTimeout
    <2> HIDE DEF m
    <2>8. PICK heard, gone : heard = {} /\ Turn(heard, gone, Tell(n, m))
      BY <2>7
    <2> QED
      BY <1>2, <2>3, <2>5, <2>6, <2>8, TurnPages
  <1>5. CASE AckTimeout(n) \/ DeliveryFails(n)
    <2>1. pendingAck[n] # NoRequest /\ AckSettled(n)
      BY <1>5 DEF AckTimeout, DeliveryFails
    <2>2. \A i \in Notes : HeldByTask(i)' <=> HeldByTask(i)
      BY <2>1 DEF AckSettled, ClaimsAccounted, HeldByTask, HeldStages, TypeOK, WindowTypeOK, Tasks
    <2>3. /\ UNCHANGED <<page, win, toHost>>
          /\ \A i \in Notes : i # n => toPage'[i] = toPage[i]
      BY <1>5 DEF AckTimeout, DeliveryFails, pageVars, TypeOK, WindowTypeOK, PageTypeOK
    <2>4. page[n].phase # "absent"
      BY <2>1 DEF ClaimsAccounted, PagesAccounted, HeldByTask, HeldStages
    <2> QED
      BY <1>1, <2>2, <2>3, <2>4 DEF PagesAccounted
  <1> QED
    BY <1>3, <1>4, <1>5 DEF TimerFires

(* Letting go of the window leaves the page present exactly if the window  *)
(* is.                                                                     *)
LEMMA LetGoPages ==
    ASSUME TypeOK, PagesAccounted, NEW n \in Notes, NEW closes, NEW told,
           LetGo(n, closes, told), Finished, HeldByTask(n),
           \A i \in Notes : doc[i] = file[i] => doc'[i] = file'[i]
    PROVE  PagesAccounted'
  <1>1. \A i \in Notes : ~HeldByTask(i)'
    BY DEF Finished, NoTask, HeldByTask, HeldStages
  <1>2. \A i \in Notes : i # n => /\ UNCHANGED <<win[i], page[i], toHost[i], toPage[i]>>
                                  /\ ~HeldByTask(i)
    BY DEF LetGo, HeldByTask, TypeOK, WindowTypeOK, PageTypeOK
  <1>3. page[n].phase # "absent" /\ doc'[n] = file'[n]
    BY DEF PagesAccounted
  <1>4. CASE closes \/ win[n] = "none"
    <2>1. /\ page'[n] = PageIn("absent")
          /\ win'[n] = "none"
          /\ toHost'[n] = <<>> /\ toPage'[n] = <<>>
      BY <1>4 DEF LetGo, TypeOK, WindowTypeOK, PageTypeOK
    <2> QED
      BY <1>1, <1>2, <2>1 DEF PagesAccounted, PageIn
  <1>5. CASE ~closes /\ win[n] # "none"
    <2>1. page'[n] = page[n] /\ win'[n] = win[n]
      BY <1>5 DEF LetGo, TypeOK, WindowTypeOK, PageTypeOK
    <2> QED
      BY <1>1, <1>2, <1>3, <1>5, <2>1 DEF PagesAccounted
  <1> QED
    BY <1>4, <1>5

(* What the authority does keeps the pages accounted for.                  *)
LEMMA AuthorityPages ==
    ASSUME TypeOK, PagesAccounted, NEW n \in Notes, AuthorityWorks(n)
    PROVE  PagesAccounted'
  <1>1. task.stage = "queued" => \A i \in Notes : ~HeldByTask(i)
    BY DEF HeldByTask, HeldStages
  <1>2. Finished => \A i \in Notes : ~HeldByTask(i)'
    BY DEF Finished, NoTask, HeldByTask, HeldStages
  <1>3. CASE MutateDirectly(n)
    <2>1. task.stage = "queued" /\ Finished /\ UNCHANGED <<page, toPage, toHost, win>>
      BY <1>3 DEF MutateDirectly, Unanswered
    <2>2. \A i \in Notes : page[i].phase # "absent" => doc'[i] = file'[i]
      <3>1. \/ UNCHANGED <<file, doc>>
            \/ \E candidate, ok :
                  /\ SaveDocument(n, candidate, ok)
                  /\ IF ok /\ win[n] = "loading"
                     THEN doc' = [doc EXCEPT ![n] = candidate]
                     ELSE UNCHANGED doc
        BY <1>3 DEF MutateDirectly
      <3>2. page[n].phase # "absent" => win[n] # "none"
        BY <1>1, <2>1 DEF PagesAccounted
      <3>3. win[n] \in {"none", "loading"}
        BY <1>3 DEF MutateDirectly, TypeOK, WindowTypeOK
      <3> QED
        BY <3>1, <3>2, <3>3 DEF PagesAccounted, SaveDocument, TypeOK, WindowTypeOK
    <2> QED
      BY <1>1, <1>2, <2>1, <2>2 DEF PagesAccounted
  <1>4. CASE AskSnapshot(n)
    <2>1. /\ UNCHANGED <<page, toHost, win, file, doc>>
          /\ task.stage = "queued" /\ task.note = n /\ win[n] = "loaded"
          /\ \A i \in Notes : i # n => toPage'[i] = toPage[i]
      BY <1>4 DEF AskSnapshot, TypeOK, WindowTypeOK, PageTypeOK
    <2>2. page[n].phase # "absent"
      BY <2>1 DEF PagesAccounted
    <2>3. \A i \in Notes : i # n => ~HeldByTask(i)'
      <3>1. Finished \/ task' = [task EXCEPT !.stage = "snapshot"]
        BY <1>4 DEF AskSnapshot
      <3>2. CASE task' = [task EXCEPT !.stage = "snapshot"]
        <4>1. task'.note = n
          BY <2>1, <3>2 DEF TypeOK, WindowTypeOK, Tasks
        <4> QED
          BY <4>1 DEF HeldByTask
      <3> QED
        BY <1>2, <3>1, <3>2
    <2> QED
      BY <1>1, <2>1, <2>2, <2>3 DEF PagesAccounted
  <1>5. CASE DiscardDirectly(n)
    <2>1. task.stage = "queued" /\ Finished /\ UNCHANGED <<file, doc>>
      BY <1>5 DEF DiscardDirectly
    <2>2. PICK heard, gone : heard = {} /\ Turn(heard, gone, Silence)
      BY <1>5 DEF DiscardDirectly
    <2>3. \A i \in Notes : page[i].phase # "absent" => doc'[i] = file'[i]
      BY <2>1 DEF PagesAccounted
    <2>4. \A i \in Notes : HeldByTask(i)' <=> HeldByTask(i)
      BY <1>1, <1>2, <2>1
    <2> QED
      BY <2>2, <2>3, <2>4, TurnPages, SilenceType
  <1>6. CASE ResumeMutation(n)
    <2>1. HeldByTask(n)
      BY <1>6 DEF ResumeMutation, HeldByTask, HeldStages
    <2>2. CASE \E tells : GiveUp(n, tells)
      <3>1. PICK told : LetGo(n, FALSE, told)
        BY <2>2 DEF GiveUp
      <3>2. Finished /\ UNCHANGED <<file, doc>>
        BY <2>2 DEF GiveUp
      <3> QED
        BY <2>1, <3>1, <3>2, LetGoPages
    <2>3. CASE \E candidate :
                  /\ CommitOnceWritten(n, candidate, TRUE)
                  /\ candidate.body \in Bodies
                  /\ task' = [task EXCEPT !.stage = "ack"]
                  /\ Turn({}, {}, Tell(n, Message("apply_external_document", task.req,
                                                  hostGen[n] + 1, candidate.body)))
      <3>1. PICK candidate :
                  /\ CommitOnceWritten(n, candidate, TRUE)
                  /\ candidate.body \in Bodies
                  /\ task' = [task EXCEPT !.stage = "ack"]
                  /\ Turn({}, {}, Tell(n, Message("apply_external_document", task.req,
                                                  hostGen[n] + 1, candidate.body)))
        BY <2>3
      <3> DEFINE m == Message("apply_external_document", task.req, hostGen[n] + 1,
                              candidate.body)
      <3>2. m \in Messages(ToPageTypes)
        <4>1. task.req \in RequestIds \cup {NoRequest} /\ hostGen[n] + 1 \in Nat
          BY DEF TypeOK, WindowTypeOK, Tasks
        <4>2. "apply_external_document" \in ToPageTypes
          BY DEF ToPageTypes
        <4> QED
          BY <3>1, <4>1, <4>2, MessageType
      <3>3. task'.stage = "ack" /\ task'.note = task.note
        BY <3>1 DEF TypeOK, WindowTypeOK, Tasks
      <3>4. \A i \in Notes : HeldByTask(i)' <=> HeldByTask(i)
        BY <2>1, <3>3, HeldMoves DEF HeldStages, HeldByTask
      <3>5. Turn({}, {}, Tell(n, m))
        BY <3>1
      <3> HIDE DEF m
      <3>6. page[n].phase # "absent"
        BY <2>1 DEF PagesAccounted
      <3>7. \A i \in Notes : page[i].phase = "absent" => Tell(n, m)[i] = <<>>
        BY <3>6 DEF Tell, Silence
      <3>8. Tell(n, m) \in [Notes -> Seq(Messages(ToPageTypes))]
        BY <3>2, TellType
      <3>9. \A i \in Notes : page[i].phase # "absent" => doc'[i] = file'[i]
        BY <3>1, SaveDescribes DEF PagesAccounted
      <3>10. PICK heard, gone : heard = {} /\ Turn(heard, gone, Tell(n, m))
        BY <3>5
      <3> QED
        BY <3>4, <3>7, <3>8, <3>9, <3>10, TurnPages
    <2>4. Mutated(task, LiveBase(n, task.text)).body \in Bodies
      BY DEF Mutated, LiveBase, TypeOK, WindowTypeOK, Tasks, Documents, Bodies, BringsText
    <2> QED
      BY <1>6, <2>2, <2>3, <2>4 DEF ResumeMutation
  <1>7. CASE ResumeDiscard(n) \/ FinishWrite(n)
    <2>1. HeldByTask(n) /\ Finished /\ UNCHANGED <<file, doc>>
      BY <1>7 DEF ResumeDiscard, FinishWrite, HeldByTask, HeldStages
    <2>2. PICK closes, told : LetGo(n, closes, told)
      BY <1>7 DEF ResumeDiscard, FinishWrite
    <2> QED
      BY <2>1, <2>2, LetGoPages
  <1> QED
    BY <1>3, <1>4, <1>5, <1>6, <1>7 DEF AuthorityWorks

(* Opening, trashing, hiding, quitting and asking keep the pages accounted *)
(* for: only pages with a window are asked for their text.                 *)
LEMMA RequestFlushPages ==
    ASSUME TypeOK, PagesAccounted, NEW notes \in SUBSET Windows, NEW why,
           RequestFlush(notes, why), UNCHANGED <<page, toHost, win, task, file, doc>>
    PROVE  PagesAccounted'
  <1>1. \A i \in Notes : page[i].phase = "absent" => toPage'[i] = toPage[i]
    BY DEF RequestFlush, PagesAccounted, Windows
  <1> QED
    BY <1>1, HeldSame DEF PagesAccounted

(* Every step keeps the pages accounted for.                               *)
LEMMA NextPages ==
    TypeOK /\ ClaimsAccounted /\ PagesAccounted /\ [Next]_vars => PagesAccounted'
  <1> SUFFICES ASSUME TypeOK, ClaimsAccounted, PagesAccounted, [Next]_vars
               PROVE  PagesAccounted'
    OBVIOUS
  <1>1. CASE UNCHANGED vars
    BY <1>1, HeldSame DEF vars, pageVars, hostVars, PagesAccounted
  <1>2. ASSUME NEW n \in Notes, OpenWindow(n)
        PROVE  PagesAccounted'
    <2>1. /\ UNCHANGED <<toPage, file, task>>
          /\ page'[n].phase = "loading" /\ win'[n] = "loading" /\ doc'[n] = file[n]
          /\ \A i \in Notes : i # n => UNCHANGED <<page[i], toHost[i], win[i], doc[i]>>
      BY <1>2 DEF OpenWindow, PageIn, TypeOK, WindowTypeOK, PageTypeOK
    <2> QED
      BY <2>1, HeldSame DEF PagesAccounted
  <1>3. ASSUME NEW n \in Notes, TrashNote(n)
        PROVE  PagesAccounted'
    <2>1. {n} \in SUBSET Windows /\ RequestFlush({n}, "trash")
          /\ UNCHANGED <<page, toHost, win, task, file, doc>>
      BY <1>3 DEF TrashNote, Windows
    <2> QED
      BY <2>1, RequestFlushPages
  <1>4. ASSUME NEW n \in Notes, NEW kind \in Kinds, Submit(n, kind)
        PROVE  PagesAccounted'
    <2>1. UNCHANGED <<page, toPage, toHost, win, file, doc>> /\ task.stage = "idle"
      BY <1>4 DEF Submit, IsIdle
    <2>2. task'.stage = "queued"
      BY <1>4 DEF Submit, NoTask
    <2> QED
      BY <2>1, <2>2 DEF PagesAccounted, HeldByTask, HeldStages
  <1>5. ASSUME NEW operation \in LifecycleOperation, StartFlushAll(operation)
        PROVE  PagesAccounted'
    <2>1. UNCHANGED <<page, toHost, win, task, file, doc>>
      BY <1>5 DEF StartFlushAll
    <2>2. CASE UNCHANGED toPage
      BY <2>1, <2>2, HeldSame DEF PagesAccounted
    <2>3. CASE RequestFlush(Windows, "batch")
      BY <2>1, <2>3, RequestFlushPages
    <2> QED
      BY <1>5, <2>2, <2>3 DEF StartFlushAll
  <1> QED
    BY <1>1, <1>2, <1>3, <1>4, <1>5, PagePages, HostPages, TimerPages, AuthorityPages
       DEF Next, SomebodyAsks

(* Pages and windows come and go together, whatever holds them.            *)
THEOREM PagesAlwaysAccounted == Spec => []PagesAccounted
  BY InitPages, NextPages, TypeCorrect, ClaimsAlwaysAccounted, PTL DEF Spec

(* The document the host keeps of an open note describes its file, for any *)
(* number of notes, edits and requests and whatever write fails            *)
(* (commit_once_written in src/src/note_window.rs).                        *)
THEOREM HostAlwaysDescribesFile == Spec => []HostDescribesFile
  <1>1. PagesAccounted => HostDescribesFile
    BY DEF PagesAccounted, HostDescribesFile
  <1> QED
    BY <1>1, PagesAlwaysAccounted, PTL
-----------------------------------------------------------------------------
(* The appearance of a note.                                               *)

(* A write whose document looks at least as new as the file keeps looks.   *)
LEMMA WriteKeepsLooks ==
    ASSUME TypeOK, NEW n \in Notes, NEW d, d.look \in Nat, d.look >= file[n].look,
           file' = file \/ file' = [file EXCEPT ![n] = d]
    PROVE  \A i \in Notes : file'[i].look >= file[i].look
  <1>1. \A i \in Notes : file[i].look \in Nat
    BY DEF TypeOK, WindowTypeOK, Documents
  <1> QED
    BY <1>1 DEF TypeOK, WindowTypeOK

(* Writing another body over the host's document keeps the looks.          *)
LEMMA BodyKeepsLooks ==
    ASSUME TypeOK, NEW n \in Notes, doc[n] = file[n], NEW text,
           file' = file \/ file' = [file EXCEPT ![n] = [doc[n] EXCEPT !.body = text]]
    PROVE  \A i \in Notes : file'[i].look >= file[i].look
  <1> DEFINE d == [doc[n] EXCEPT !.body = text]
  <1>1. d.look = file[n].look /\ d.look \in Nat
    BY DEF TypeOK, WindowTypeOK, Documents
  <1>2. file' = file \/ file' = [file EXCEPT ![n] = d]
    OBVIOUS
  <1> HIDE DEF d
  <1> QED
    BY <1>1, <1>2, WriteKeepsLooks

(* A mutation does not touch the appearance.                               *)
LEMMA MutatedLook ==
    ASSUME TypeOK, NEW base \in Documents
    PROVE  Mutated(task, base).look = base.look
  BY DEF Mutated, Documents

(* What the host hears keeps every note's look, or makes it newer.         *)
LEMMA HostLooks ==
    ASSUME TypeOK, PagesAccounted, NEW n \in Notes, HostHears(n)
    PROVE  \A i \in Notes : file'[i].look >= file[i].look
  <1>1. \A i \in Notes : file[i].look \in Nat /\ file[i].look >= file[i].look
    BY DEF TypeOK, WindowTypeOK, Documents
  <1>2. doc[n] = file[n]
    BY HeardPage DEF HostHears, Ready, ContentChanged, PaperChanged, SaveAndCloseAsked,
                     FlushResponse, SnapshotReady, ApplyAnswered
  <1>3. CASE Ready(n) \/ SnapshotReady(n) \/ ApplyAnswered(n)
    BY <1>1, <1>3 DEF Ready, SnapshotReady, ApplyAnswered
  <1>4. CASE ContentChanged(n) \/ SaveAndCloseAsked(n) \/ FlushResponse(n)
    <2>1. \/ file' = file
          \/ file' = [file EXCEPT ![n] = [doc[n] EXCEPT !.body = Head(toHost[n]).text]]
      BY <1>4 DEF ContentChanged, SaveAndCloseAsked, FlushResponse, SaveContent,
                  CommitOnceWritten, SaveDocument
    <2> QED
      BY <1>2, <2>1, BodyKeepsLooks
  <1>5. CASE PaperChanged(n)
    <2> DEFINE d == [doc[n] EXCEPT !.look = @ + 1]
    <2>1. d.look \in Nat /\ d.look >= file[n].look
      BY <1>2 DEF TypeOK, WindowTypeOK, Documents
    <2>2. file' = file \/ file' = [file EXCEPT ![n] = d]
      BY <1>5 DEF PaperChanged, CommitOnceWritten, SaveDocument
    <2> HIDE DEF d
    <2> QED
      BY <2>1, <2>2, WriteKeepsLooks
  <1> QED
    BY <1>3, <1>4, <1>5 DEF HostHears

(* So does what the authority writes: its base is read when it writes.     *)
LEMMA AuthorityLooks ==
    ASSUME TypeOK, PagesAccounted, NEW n \in Notes, AuthorityWorks(n)
    PROVE  \A i \in Notes : file'[i].look >= file[i].look
  <1>1. \A i \in Notes : file[i].look \in Nat /\ file[i].look >= file[i].look
    BY DEF TypeOK, WindowTypeOK, Documents
  <1>2. CASE DiscardDirectly(n) \/ AskSnapshot(n) \/ ResumeDiscard(n) \/ FinishWrite(n)
    BY <1>1, <1>2 DEF DiscardDirectly, AskSnapshot, ResumeDiscard, FinishWrite
  <1>3. CASE MutateDirectly(n)
    <2> DEFINE base == IF win[n] = "none" THEN file[n] ELSE doc[n]
    <2>1. base = file[n] /\ base \in Documents
      BY DEF PagesAccounted, TypeOK, WindowTypeOK
    <2>2. file' = file \/ file' = [file EXCEPT ![n] = Mutated(task, base)]
      BY <1>3 DEF MutateDirectly, SaveDocument
    <2> HIDE DEF base
    <2>3. Mutated(task, base).look = file[n].look
      BY <2>1, MutatedLook
    <2> QED
      BY <1>1, <2>2, <2>3, WriteKeepsLooks
  <1>4. CASE ResumeMutation(n)
    <2> DEFINE base == LiveBase(n, task.text)
    <2>1. doc[n] = file[n]
      BY <1>4 DEF ResumeMutation, PagesAccounted, HeldByTask, HeldStages
    <2>2. base.look = file[n].look /\ base \in Documents
      BY <2>1 DEF LiveBase, TypeOK, WindowTypeOK, Documents, Tasks
    <2>3. file' = file \/ file' = [file EXCEPT ![n] = Mutated(task, base)]
      BY <1>4 DEF ResumeMutation, GiveUp, CommitOnceWritten, SaveDocument
    <2> HIDE DEF base
    <2>4. Mutated(task, base).look = file[n].look
      BY <2>2, MutatedLook
    <2> QED
      BY <1>1, <2>3, <2>4, WriteKeepsLooks
  <1> QED
    BY <1>2, <1>3, <1>4 DEF AuthorityWorks

(* No step makes a look older.                                             *)
LEMMA NextLooks ==
    ASSUME TypeOK, PagesAccounted, [Next]_vars
    PROVE  \A i \in Notes : file'[i].look >= file[i].look
  <1>1. CASE UNCHANGED file
    BY <1>1 DEF TypeOK, WindowTypeOK, Documents
  <1>2. ASSUME NEW n \in Notes,
               \/ ReaderActs(n) \/ PageWorks(n) \/ PageGrowsSlow(n)
               \/ TimerFires(n) \/ SomebodyAsks(n) \/ DeliveryFails(n)
        PROVE  UNCHANGED file
    BY <1>2 DEF ReaderActs, PageWorks, PageGrowsSlow, hostVars, TimerFires, ExpireFlush,
                SnapshotTimeout, AckTimeout, SomebodyAsks, OpenWindow, TrashNote, Submit,
                DeliveryFails
  <1>3. ASSUME NEW operation \in LifecycleOperation, StartFlushAll(operation)
        PROVE  UNCHANGED file
    BY <1>3 DEF StartFlushAll
  <1>4. UNCHANGED vars => UNCHANGED file
    BY DEF vars, hostVars
  <1> QED
    BY <1>1, <1>2, <1>3, <1>4, HostLooks, AuthorityLooks DEF Next

(* No write, whoever makes it and whatever it waited for, takes back a     *)
(* change of appearance the host made while it waited (apply_over_live_    *)
(* body in noteit-core, mutate_open_note in src/src/write_authority.rs).   *)
THEOREM AppearanceAlwaysKept == Spec => AppearanceKept
  <1>1. TypeOK /\ PagesAccounted /\ [Next]_vars =>
            [\A n \in Notes : file'[n].look >= file[n].look]_vars
    BY NextLooks
  <1> QED
    BY <1>1, TypeCorrect, PagesAlwaysAccounted, PTL DEF Spec, AppearanceKept

-----------------------------------------------------------------------------
(* What a queue says.                                                      *)

(* The messages of a queue, in whatever order.                             *)
In(s) == {s[k] : k \in DOMAIN s}

(* A queue with nothing in it says nothing.                                *)
LEMMA InNothing ==
    In(<<>>) = {}
  BY DEF In

(* A queue of one message says that message.                               *)
LEMMA InOne ==
    ASSUME NEW m
    PROVE  In(<<m>>) = {m}
  <1>1. DOMAIN <<m>> = {1} /\ <<m>>[1] = m
    OBVIOUS
  <1> QED
    BY <1>1 DEF In

(* Two queues in a row say what both say.                                  *)
LEMMA InConcat ==
    ASSUME NEW T, NEW s \in Seq(T), NEW t \in Seq(T)
    PROVE  In(s \o t) = In(s) \cup In(t)
  <1>1. In(s \o t) \subseteq In(s) \cup In(t)
    <2> SUFFICES ASSUME NEW k \in DOMAIN (s \o t)
                 PROVE  (s \o t)[k] \in In(s) \cup In(t)
      BY DEF In
    <2>1. k \in 1 .. Len(s) + Len(t) /\ Len(s) \in Nat /\ Len(t) \in Nat
      OBVIOUS
    <2>2. CASE k <= Len(s)
      <3>1. k \in DOMAIN s /\ (s \o t)[k] = s[k]
        BY <2>1, <2>2
      <3> QED
        BY <3>1 DEF In
    <2>3. CASE k > Len(s)
      <3>1. k - Len(s) \in DOMAIN t /\ (s \o t)[k] = t[k - Len(s)]
        BY <2>1, <2>3
      <3> QED
        BY <3>1 DEF In
    <2> QED
      BY <2>1, <2>2, <2>3
  <1>2. In(s) \subseteq In(s \o t)
    <2> SUFFICES ASSUME NEW k \in DOMAIN s
                 PROVE  s[k] \in In(s \o t)
      BY DEF In
    <2>1. k \in DOMAIN (s \o t) /\ (s \o t)[k] = s[k]
      OBVIOUS
    <2> QED
      BY <2>1 DEF In
  <1>3. In(t) \subseteq In(s \o t)
    <2> SUFFICES ASSUME NEW k \in DOMAIN t
                 PROVE  t[k] \in In(s \o t)
      BY DEF In
    <2>1. k + Len(s) \in DOMAIN (s \o t) /\ (s \o t)[k + Len(s)] = t[k]
      OBVIOUS
    <2> QED
      BY <2>1 DEF In
  <1> QED
    BY <1>1, <1>2, <1>3

(* What is left of a queue was in it, and so was what was taken.           *)
LEMMA InTail ==
    ASSUME NEW T, NEW s \in Seq(T), s # <<>>
    PROVE  In(Tail(s)) \subseteq In(s) /\ Head(s) \in In(s) /\ Head(s) \in T
  <1>1. \A k \in DOMAIN Tail(s) : k + 1 \in DOMAIN s /\ Tail(s)[k] = s[k + 1]
    OBVIOUS
  <1>2. 1 \in DOMAIN s /\ Head(s) = s[1]
    OBVIOUS
  <1> QED
    BY <1>1, <1>2 DEF In

(* So was what is left when one message is lost.                           *)
LEMMA InWithout ==
    ASSUME NEW T, NEW s \in Seq(T), NEW i \in DOMAIN s
    PROVE  In(SubSeq(s, 1, i - 1) \o SubSeq(s, i + 1, Len(s))) \subseteq In(s)
  <1> DEFINE a == SubSeq(s, 1, i - 1)
             b == SubSeq(s, i + 1, Len(s))
  <1>1. a \in Seq(T) /\ b \in Seq(T)
    OBVIOUS
  <1>2. \A k \in DOMAIN a : k \in DOMAIN s /\ a[k] = s[k]
    OBVIOUS
  <1>3. \A k \in DOMAIN b : k + i \in DOMAIN s /\ b[k] = s[k + i]
    OBVIOUS
  <1>4. In(a) \subseteq In(s) /\ In(b) \subseteq In(s)
    BY <1>2, <1>3 DEF In
  <1>5. In(a \o b) = In(a) \cup In(b)
    <2> HIDE DEF a, b
    <2> QED
      BY <1>1, InConcat
  <1>6. In(a \o b) \subseteq In(s)
    <2> HIDE DEF a, b
    <2> QED
      BY <1>4, <1>5
  <1> QED
    BY <1>6

(* The two messages that give a page its text.                             *)
IsDocument(m) == m.type \in {"load_note", "apply_external_document"}

(* The messages that carry a page's text to be saved.                      *)
Saves(m) == m.type \in {"content_changed", "save_and_close", "flush_response"}

(* A request nothing was written for yet.                                  *)
Pending == task.stage \in {"queued", "snapshot", "resumed"}

(* The page of n is held still for request req.                            *)
Frozen(n, req) == page[n].phase \in {"syncing", "slow"} /\ page[n].req = req

(* An abort of request req is on its way to the page of n.                 *)
Aborts(n, req) == \E m \in In(toPage[n]) : m.type = "abort_external_write" /\ m.req = req

(* Requests are told apart by their numbers.                               *)
RequestsToldApart ==
    /\ task.stage # "idle" => task.req # NoRequest /\ task.req < nextReq
    /\ \A n \in Notes :
          /\ page[n].req < nextReq
          /\ \A m \in In(toPage[n]) \cup In(toHost[n]) : m.req < nextReq
          /\ \A m \in In(toPage[n]) :
                m.type \in {"begin_external_write", "abort_external_write",
                            "apply_external_document"} => m.req # NoRequest
          /\ pendingWrite[n] # NoRequest => pendingWrite[n] = task.req
          /\ task.stage = "queued" =>
                /\ page[n].req # task.req
                /\ \A m \in In(toPage[n]) \cup In(toHost[n]) : m.req # task.req

(* A page that has not been given its note has said nothing but that it is *)
(* ready.                                                                  *)
LoadingPage(n) ==
    /\ win[n] = "loading" =>
          /\ page[n].phase = "loading"
          /\ ~HeldByTask(n)
          /\ toHost[n] = <<Message("ready", NoRequest, 0, {})>>
          /\ \A m \in In(toPage[n]) : m.type = "request_flush"
    /\ win[n] # "loading" => \A m \in In(toHost[n]) : m.type # "ready"
    /\ page[n].phase = "loading" =>
          /\ page[n].req = NoRequest
          /\ win[n] # "loading" => toHost[n] = <<>>

(* Request req was committed, or ended before: nothing will abort it.      *)
PastAborting(n, req) == ~Aborts(n, req) /\ (Pending => task.req # req)

(* No queue gives a page two texts.                                        *)
OneDocument(s) == \A i, j \in DOMAIN s : IsDocument(s[i]) /\ IsDocument(s[j]) => i = j

(* At most one document is on its way to a page, it is of the generation   *)
(* the host is on, and the page is in the state to take it.                *)
DocumentsAwaited(n) ==
    /\ OneDocument(toPage[n])
    /\ \A m \in In(toPage[n]) :
          /\ m.type = "load_note" =>
                /\ page[n].phase = "loading"
                /\ m.gen = hostGen[n]
                /\ m.text = doc[n].body
          /\ m.type = "apply_external_document" =>
                /\ Frozen(n, m.req)
                /\ m.gen = hostGen[n]
                /\ page[n].gen # hostGen[n]

(* A page is on the generation of the host, or held until it is.           *)
PageGeneration(n) ==
    /\ Holds(n) => page[n].gen <= hostGen[n]
    /\ \A m \in In(toHost[n]) : m.gen <= hostGen[n]
    /\ page[n].phase = "idle" => page[n].req = NoRequest /\ page[n].gen = hostGen[n]
    /\ page[n].phase \in {"syncing", "slow"} =>
          /\ page[n].req # NoRequest
          /\ page[n].gen # hostGen[n] => PastAborting(n, page[n].req)
    /\ page[n].phase = "unsynchronised" =>
          page[n].req # NoRequest /\ page[n].gen # hostGen[n]

(* A snapshot is of a page that is still held, with the text it still has. *)
SnapshotsHold(n) ==
    /\ \A m \in In(toHost[n]) :
          /\ m.type = "external_write_ready"
          /\ pendingWrite[n] # NoRequest
          /\ m.req = pendingWrite[n]
          => /\ Frozen(n, m.req)
             /\ page[n].gen = m.gen
             /\ page[n].text = m.text
    /\ task.note = n /\ task.stage = "snapshot" => ~Aborts(n, task.req)
    /\ task.note = n /\ task.stage = "resumed" /\ task.ok =>
          /\ ~Aborts(n, task.req)
          /\ Frozen(n, task.req)
          /\ page[n].text = task.text

Barrier(n) == LoadingPage(n) /\ DocumentsAwaited(n) /\ PageGeneration(n) /\ SnapshotsHold(n)

BarrierHolds == \A n \in Notes : Barrier(n)

(* Every text of the present generation carries what is in S.              *)
Carried(n, S) ==
    /\ Holds(n) /\ page[n].gen = hostGen[n] => S \subseteq page[n].text
    /\ \A m \in In(toPage[n]) : IsDocument(m) => S \subseteq m.text
    /\ \A m \in In(toHost[n]) : Saves(m) /\ m.gen = hostGen[n] => S \subseteq m.text

WrittenCarried ==
    \A n \in Notes : written[n] \subseteq file[n].body /\ Carried(n, written[n])

TypedHeld(n) ==
    /\ Holds(n) => typed[n] \subseteq page[n].text \cup Inserted(page[n].queue)
    /\ page[n].phase = "loading" => typed[n] = {}
    /\ \A m \in In(toPage[n]) :
          m.type = "apply_external_document" =>
              typed[n] \subseteq m.text \cup Inserted(page[n].queue)

TypedIsHeld == \A n \in Notes : TypedHeld(n)

(* The marks of n, wherever they are.                                      *)
Landed(n) ==
    file[n].body \cup doc[n].body \cup page[n].text \cup Inserted(page[n].queue)
    \cup UNION {m.text : m \in In(toPage[n]) \cup In(toHost[n])}

(* The marks that were refused, or may still be.                           *)
Unlanded == refused \cup (IF Pending THEN {task.mark} \ {0} ELSE {})

MarksAccounted ==
    /\ \A i \in Unlanded : i < nextMark
    /\ \A n \in Notes : \A i \in Landed(n) : i < nextMark /\ i \notin Unlanded
    /\ Pending => task.mark \notin refused

-----------------------------------------------------------------------------
(* What a step does to one page.                                           *)

(* A step of the page of a note leaves the host and the other notes alone. *)
OnlyPage(n) ==
    /\ UNCHANGED <<lifecycleVars, hostVars>>
    /\ \A i \in Notes \ {n} :
          /\ page'[i] = page[i]
          /\ toPage'[i] = toPage[i]
          /\ toHost'[i] = toHost[i]
          /\ typed'[i] = typed[i]

(* What a page may say that does not speak of an external write, or        *)
(* refuses one.                                                            *)
MaySay(n, m) ==
    /\ m \in Messages(ToHostTypes)
    /\ \/ Holds(n)
       \/ /\ m.type = "external_write_apply_failed"
          /\ toPage[n] # <<>>
          /\ Head(toPage[n]).type = "apply_external_document"
    /\ m.type \notin {"ready", "external_write_ready"}
    /\ Saves(m) => m.gen = page[n].gen /\ m.text = page[n].text
    /\ ~Saves(m) => m.gen = 0 /\ m.text = {}
    /\ m.type = "save_and_close" => page[n].phase = "idle" \/ ~Active(n)
    /\ \/ m.req = NoRequest /\ m.type # "flush_response"
       \/ /\ toPage[n] # <<>>
          /\ m.req = Head(toPage[n]).req
          /\ m.type = "flush_response" => Head(toPage[n]).type = "request_flush"
          /\ toPage'[n] = Tail(toPage[n])

(* The reader and the timers of the page, and what it hears and does not   *)
(* act on: the page stays where it is.                                     *)
Acts(n) ==
    /\ \/ page'[n].phase = page[n].phase
       \/ page[n].phase = "syncing" /\ page'[n].phase = "slow"
    /\ page'[n].req = page[n].req
    /\ page'[n].gen = page[n].gen
    /\ \/ toPage'[n] = toPage[n]
       \/ toPage[n] # <<>> /\ toPage'[n] = Tail(toPage[n])
    /\ \/ toHost'[n] = toHost[n]
       \/ \E m : MaySay(n, m) /\ toHost'[n] = Append(toHost[n], m)
    /\ \/ /\ page'[n].text = page[n].text
          /\ Inserted(page'[n].queue) = Inserted(page[n].queue)
          /\ UNCHANGED <<typed, nextMark>>
       \/ /\ Holds(n)
          /\ nextMark' = nextMark + 1
          /\ typed'[n] = typed[n] \cup {nextMark}
          /\ \/ /\ page[n].phase = "idle"
                /\ page'[n].text = page[n].text \cup {nextMark}
                /\ Inserted(page'[n].queue) = Inserted(page[n].queue)
             \/ /\ page'[n].text = page[n].text
                /\ Inserted(page'[n].queue) = Inserted(page[n].queue) \cup {nextMark}

(* The page takes the message m of the host.                               *)
Takes(n, type) ==
    /\ toPage[n] # <<>>
    /\ Head(toPage[n]).type = type
    /\ toPage'[n] = Tail(toPage[n])
    /\ UNCHANGED <<typed, nextMark>>

Loads(n) ==
    /\ Takes(n, "load_note")
    /\ toHost'[n] = toHost[n]
    /\ page'[n].phase = "idle"
    /\ page'[n].req = NoRequest
    /\ page'[n].gen = Head(toPage[n]).gen
    /\ page'[n].text = Head(toPage[n]).text
    /\ Inserted(page'[n].queue) = {}

Freezes(n) ==
    /\ Takes(n, "begin_external_write")
    /\ page[n].phase = "idle"
    /\ Head(toPage[n]).gen = page[n].gen
    /\ page'[n].phase = "syncing"
    /\ page'[n].req = Head(toPage[n]).req
    /\ page'[n].gen = page[n].gen
    /\ page'[n].text = page[n].text
    /\ page'[n].queue = page[n].queue
    /\ toHost'[n] = Append(toHost[n], Message("external_write_ready", Head(toPage[n]).req,
                                              page[n].gen, page[n].text))

(* The page could not adopt what was committed.                            *)
Sticks(n) ==
    /\ Takes(n, "apply_external_document")
    /\ page[n].req = Head(toPage[n]).req
    /\ page'[n].phase = "unsynchronised"
    /\ page'[n].req = page[n].req
    /\ page'[n].gen = page[n].gen
    /\ page'[n].text = page[n].text
    /\ page'[n].queue = page[n].queue
    /\ toHost'[n] = Append(toHost[n], Message("external_write_apply_failed",
                                              Head(toPage[n]).req, 0, {}))

(* A page is released on the text it had or on the one it is given, with   *)
(* what was held back put in, and the close that was held sent.            *)
Releases(n, gen, text, answer) ==
    /\ page'[n].phase = "idle"
    /\ page'[n].req = NoRequest
    /\ page'[n].gen = gen
    /\ page'[n].text = text \cup Inserted(page[n].queue)
    /\ Inserted(page'[n].queue) = {}
    /\ \E close \in Seq(Messages(ToHostTypes)) :
          /\ toHost'[n] = toHost[n] \o (close \o answer)
          /\ \/ close = <<>>
             \/ \E m \in Messages(ToHostTypes) :
                   /\ close = <<m>>
                   /\ m.type = "save_and_close"
                   /\ m.req = NoRequest
                   /\ m.gen = gen
                   /\ text \subseteq m.text
                   /\ m.text \subseteq text \cup Inserted(page[n].queue)

Adopts(n) ==
    /\ Takes(n, "apply_external_document")
    /\ page[n].phase # "unsynchronised"
    /\ page[n].req = Head(toPage[n]).req
    /\ LET m == Head(toPage[n]) IN
       Releases(n, m.gen, m.text, <<Message("external_write_applied", m.req, m.gen, {})>>)

Frees(n) ==
    /\ Takes(n, "abort_external_write")
    /\ page[n].phase # "unsynchronised"
    /\ page[n].req = Head(toPage[n]).req
    /\ Releases(n, page[n].gen, page[n].text, <<>>)

PageStep(n) ==
    /\ OnlyPage(n)
    /\ Acts(n) \/ Loads(n) \/ Freezes(n) \/ Sticks(n) \/ Adopts(n) \/ Frees(n)

(* A held edit is inserted, a held close is not.                           *)
LEMMA InsertedAppend ==
    ASSUME NEW queue \in Seq(Deferred), NEW i \in Deferred
    PROVE  Inserted(Append(queue, i)) = (Inserted(queue) \cup {i}) \ {CloseAction}
  <1> DEFINE longer == Append(queue, i)
  <1>1. \A k \in DOMAIN queue : k \in DOMAIN longer /\ longer[k] = queue[k]
    OBVIOUS
  <1>2. Len(queue) + 1 \in DOMAIN longer /\ longer[Len(queue) + 1] = i
    OBVIOUS
  <1>3. \A k \in DOMAIN longer : k \in DOMAIN queue \/ k = Len(queue) + 1
    OBVIOUS
  <1> HIDE DEF longer
  <1>4. Inserted(longer) = (Inserted(queue) \cup {i}) \ {CloseAction}
    BY <1>1, <1>2, <1>3 DEF Inserted
  <1> QED
    BY <1>4 DEF longer

(* Nothing is inserted from an empty queue.                                *)
LEMMA InsertedNothing ==
    Inserted(<<>>) = {}
  BY DEF Inserted

(* The close that was held carries the text and some of the held edits.    *)
LEMMA HeldCloseSays ==
    ASSUME NEW p \in Pages
    PROVE  /\ HeldClose(p) \in Seq(Messages(ToHostTypes))
           /\ \/ HeldClose(p) = <<>>
              \/ \E m \in Messages(ToHostTypes) :
                    /\ HeldClose(p) = <<m>>
                    /\ m.type = "save_and_close"
                    /\ m.req = NoRequest
                    /\ m.gen = p.gen
                    /\ p.text \subseteq m.text
                    /\ m.text \subseteq p.text \cup Inserted(p.queue)
  <1>1. HeldClose(p) \in Seq(Messages(ToHostTypes))
    BY HeldCloseType
  <1>2. Before(p.queue, CloseAction) \subseteq Inserted(p.queue)
    BY DEF Before, Inserted, CloseAction, Pages
  <1>3. CASE CloseAction \in {p.queue[i] : i \in DOMAIN p.queue}
    <2> DEFINE m == Message("save_and_close", NoRequest, p.gen,
                            p.text \cup Before(p.queue, CloseAction))
    <2>1. HeldClose(p) = <<m>>
      BY <1>3 DEF HeldClose
    <2>2. /\ m.type = "save_and_close"
          /\ m.req = NoRequest
          /\ m.gen = p.gen
          /\ m.text = p.text \cup Before(p.queue, CloseAction)
      BY DEF Message
    <2>3. m \in Messages(ToHostTypes)
      <3> HIDE DEF m
      <3>1. <<m>> \in Seq(Messages(ToHostTypes))
        BY <1>1, <2>1
      <3> QED
        BY <3>1
    <2> QED
      BY <1>1, <1>2, <2>1, <2>2, <2>3
  <1>4. CASE CloseAction \notin {p.queue[i] : i \in DOMAIN p.queue}
    BY <1>1, <1>4 DEF HeldClose
  <1> QED
    BY <1>3, <1>4

(* What the reader and the debounce do is of the page's own.               *)
LEMMA ReaderSteps ==
    ASSUME TypeOK, NEW n \in Notes,
           ReaderActs(n) \/ Autosave(n) \/ SlowNotice(n), UNCHANGED <<lifecycleVars, hostVars>>
    PROVE  PageStep(n)
  <1> DEFINE p == page[n]
  <1>1. /\ page \in [Notes -> Pages] /\ p \in Pages
        /\ toHost \in [Notes -> Seq(Messages(ToHostTypes))]
        /\ toPage \in [Notes -> Seq(Messages(ToPageTypes))]
        /\ typed \in [Notes -> Bodies]
    BY DEF TypeOK, WindowTypeOK, PageTypeOK
  <1>2. UNCHANGED <<lifecycleVars, hostVars>>
    OBVIOUS
  <1>3. ASSUME page' = page, toPage' = toPage, typed' = typed, nextMark' = nextMark,
               NEW m, MaySay(n, m), Send(n, <<m>>)
        PROVE  PageStep(n)
    <2>1. toHost'[n] = Append(toHost[n], m) /\ \A i \in Notes \ {n} : toHost'[i] = toHost[i]
      BY <1>1, <1>3 DEF Send, MaySay
    <2>2. OnlyPage(n)
      BY <1>2, <1>3, <2>1 DEF OnlyPage
    <2>3. Acts(n)
      BY <1>3, <2>1 DEF Acts
    <2> QED
      BY <2>2, <2>3 DEF PageStep
  <1>4. \A m : m.type \in {"content_changed", "save_and_close", "paper_changed"} =>
            m.type \in ToHostTypes /\ m.type \notin {"ready", "external_write_ready"}
                /\ (Saves(m) <=> m.type # "paper_changed")
    BY DEF ToHostTypes, Saves
  <1>5. CASE Type(n)
    <2>1. /\ page' = [page EXCEPT ![n].text = @ \cup {nextMark}, ![n].dirty = TRUE]
          /\ UNCHANGED <<toPage, toHost>>
          /\ nextMark' = nextMark + 1
          /\ typed' = [typed EXCEPT ![n] = @ \cup {nextMark}]
          /\ Holds(n) /\ p.phase = "idle"
      BY <1>5 DEF Type, Mark
    <2>2. /\ page'[n].phase = p.phase /\ page'[n].req = p.req /\ page'[n].gen = p.gen
          /\ page'[n].text = p.text \cup {nextMark} /\ page'[n].queue = p.queue
          /\ \A i \in Notes \ {n} : page'[i] = page[i] /\ typed'[i] = typed[i]
          /\ typed'[n] = typed[n] \cup {nextMark}
      BY <1>1, <2>1 DEF Pages
    <2>3. OnlyPage(n)
      BY <1>2, <2>1, <2>2 DEF OnlyPage
    <2>4. Acts(n)
      BY <2>1, <2>2 DEF Acts
    <2> QED
      BY <2>3, <2>4 DEF PageStep
  <1>6. CASE DeferEdit(n)
    <2>1. /\ page' = [page EXCEPT ![n].queue = Append(@, nextMark)]
          /\ UNCHANGED <<toPage, toHost>>
          /\ nextMark \in Marks
          /\ nextMark' = nextMark + 1
          /\ typed' = [typed EXCEPT ![n] = @ \cup {nextMark}]
          /\ Holds(n)
      BY <1>6 DEF DeferEdit, Mark
    <2>2. /\ page'[n].phase = p.phase /\ page'[n].req = p.req /\ page'[n].gen = p.gen
          /\ page'[n].text = p.text /\ page'[n].queue = Append(p.queue, nextMark)
          /\ \A i \in Notes \ {n} : page'[i] = page[i] /\ typed'[i] = typed[i]
          /\ typed'[n] = typed[n] \cup {nextMark}
      BY <1>1, <2>1 DEF Pages
    <2>3. Inserted(page'[n].queue) = Inserted(p.queue) \cup {nextMark}
      <3>1. Inserted(page'[n].queue) = (Inserted(p.queue) \cup {nextMark}) \ {CloseAction}
        BY <1>1, <2>1, <2>2, InsertedAppend DEF Pages, Deferred
      <3>2. nextMark # CloseAction /\ CloseAction \notin Inserted(p.queue)
        BY <2>1 DEF Marks, CloseAction, Inserted
      <3> QED
        BY <3>1, <3>2
    <2>4. OnlyPage(n)
      BY <1>2, <2>1, <2>2, <2>3 DEF OnlyPage
    <2>5. Acts(n)
      BY <2>1, <2>2, <2>3 DEF Acts
    <2> QED
      BY <2>4, <2>5 DEF PageStep
  <1> DEFINE content == Message("content_changed", NoRequest, p.gen, p.text)
             closing == Message("save_and_close", NoRequest, p.gen, p.text)
             paper   == Message("paper_changed", NoRequest, 0, {})
  <1>7. /\ content \in Messages(ToHostTypes)
        /\ closing \in Messages(ToHostTypes)
        /\ paper \in Messages(ToHostTypes)
    BY <1>1, MessageType DEF Pages, Bodies, ToHostTypes
  <1>8. CASE Autosave(n) \/ SlowNotice(n) \/ SaveAndClose(n)
    <2>1. UNCHANGED <<toPage, nextMark, typed>>
      BY <1>8 DEF Autosave, SlowNotice, SaveAndClose
    <2>2. /\ \/ page'[n].phase = p.phase
             \/ p.phase = "syncing" /\ page'[n].phase = "slow"
          /\ page'[n].req = p.req /\ page'[n].gen = p.gen
          /\ page'[n].text = p.text
          /\ page'[n].queue = p.queue \/ page'[n].queue = Append(p.queue, CloseAction)
          /\ \A i \in Notes \ {n} : page'[i] = page[i]
      <3>1. CASE Autosave(n)
        BY <1>1, <3>1 DEF Autosave, Pages
      <3>2. CASE SlowNotice(n)
        BY <1>1, <3>2 DEF SlowNotice, Pages
      <3>3. CASE SaveAndClose(n)
        BY <1>1, <3>3 DEF SaveAndClose, Pages
      <3> QED
        BY <1>8, <3>1, <3>2, <3>3
    <2>3. Inserted(page'[n].queue) = Inserted(p.queue)
      <3>1. Inserted(Append(p.queue, CloseAction))
                = (Inserted(p.queue) \cup {CloseAction}) \ {CloseAction}
        BY <1>1, InsertedAppend DEF Pages, Deferred
      <3>2. CloseAction \notin Inserted(p.queue)
        BY DEF Inserted
      <3> QED
        BY <2>2, <3>1, <3>2
    <2>4. \/ UNCHANGED toHost
          \/ Send(n, <<>>)
          \/ Holds(n) /\ Send(n, <<content>>)
          \/ Holds(n) /\ ~Active(n) /\ Send(n, <<closing>>)
      BY <1>8 DEF Autosave, SlowNotice, SaveAndClose
    <2>5. /\ Send(n, <<>>) => UNCHANGED toHost
          /\ Send(n, <<content>>) => toHost'[n] = Append(toHost[n], content)
          /\ Send(n, <<closing>>) => toHost'[n] = Append(toHost[n], closing)
      BY <1>1, <1>7 DEF Send
    <2>6. \A i \in Notes \ {n} : toHost'[i] = toHost[i]
      BY <1>1, <2>4 DEF Send
    <2>7. /\ Holds(n) => MaySay(n, content)
          /\ Holds(n) /\ ~Active(n) => MaySay(n, closing)
      BY <1>7 DEF MaySay, Saves, Message
    <2>8. \/ toHost'[n] = toHost[n]
          \/ \E m : MaySay(n, m) /\ toHost'[n] = Append(toHost[n], m)
      BY <2>4, <2>5, <2>7
    <2>9. OnlyPage(n)
      BY <1>2, <2>1, <2>2, <2>6 DEF OnlyPage
    <2>10. Acts(n)
      BY <2>1, <2>2, <2>3, <2>8 DEF Acts
    <2> QED
      BY <2>9, <2>10 DEF PageStep
  <1>9. CASE ChangePaper(n)
    <2>1. Holds(n) => MaySay(n, paper)
      BY <1>7 DEF MaySay, Saves, Message
    <2>2. /\ page' = page /\ toPage' = toPage /\ typed' = typed /\ nextMark' = nextMark
          /\ Holds(n) /\ Send(n, <<paper>>)
      BY <1>9 DEF ChangePaper
    <2> QED
      BY <1>3, <2>1, <2>2
  <1> QED
    BY <1>5, <1>6, <1>8, <1>9 DEF ReaderActs

(* What the page hears is of the page's own.                               *)
LEMMA HearingSteps ==
    ASSUME TypeOK, NEW n \in Notes, PageHears(n), UNCHANGED <<lifecycleVars, hostVars>>
    PROVE  PageStep(n)
  <1> DEFINE p == page[n]
             m == Head(toPage[n])
  <1>1. /\ page \in [Notes -> Pages] /\ p \in Pages
        /\ toHost \in [Notes -> Seq(Messages(ToHostTypes))]
        /\ toPage \in [Notes -> Seq(Messages(ToPageTypes))]
    BY DEF TypeOK, WindowTypeOK, PageTypeOK
  <1>2. UNCHANGED <<lifecycleVars, hostVars, nextMark, typed>>
    BY DEF PageHears, LoadNote, AnswerFlush, Begin, Apply, Abort
  <1>3. PICK type \in ToPageTypes : Receive(n, type)
    BY DEF PageHears, LoadNote, AnswerFlush, Begin, Apply, Abort, ToPageTypes
  <1>4. /\ toPage[n] # <<>> /\ toPage'[n] = Tail(toPage[n])
        /\ \A i \in Notes \ {n} : toPage'[i] = toPage[i]
        /\ m \in Messages(ToPageTypes)
    BY <1>1, <1>3 DEF Receive
  <1>5. /\ m.req \in RequestIds \cup {NoRequest} /\ m.gen \in Nat /\ m.text \in Bodies
    BY <1>4 DEF Messages
  <1>6. \A i \in Notes \ {n} : page'[i] = page[i] /\ toHost'[i] = toHost[i]
    BY <1>1 DEF PageHears, LoadNote, AnswerFlush, Begin, Apply, Abort, Send
  <1>7. OnlyPage(n)
    BY <1>2, <1>4, <1>6 DEF OnlyPage
  <1>8. CASE LoadNote(n)
    <2>1. page'[n] = [PageIn("idle") EXCEPT !.gen = m.gen, !.text = m.text]
      BY <1>1, <1>8 DEF LoadNote
    <2>2. /\ page'[n].phase = "idle" /\ page'[n].req = NoRequest /\ page'[n].gen = m.gen
          /\ page'[n].text = m.text /\ page'[n].queue = <<>>
      BY <2>1 DEF PageIn
    <2>3. toHost'[n] = toHost[n] /\ m.type = "load_note"
      BY <1>8 DEF LoadNote, Receive
    <2> QED
      BY <1>2, <1>4, <1>7, <2>2, <2>3, InsertedNothing DEF PageStep, Loads, Takes
  <1>9. ASSUME page'[n].phase = p.phase, page'[n].req = p.req, page'[n].gen = p.gen,
               page'[n].text = p.text, page'[n].queue = p.queue,
               \/ toHost'[n] = toHost[n]
               \/ \E said : MaySay(n, said) /\ toHost'[n] = Append(toHost[n], said)
        PROVE  PageStep(n)
    BY <1>2, <1>4, <1>7, <1>9 DEF PageStep, Acts
  <1>10. CASE AnswerFlush(n)
    <2> DEFINE answer == Message("flush_response", m.req, p.gen, p.text)
    <2>1. answer \in Messages(ToHostTypes) /\ m.type = "request_flush"
      BY <1>1, <1>5, <1>10, MessageType DEF Pages, ToHostTypes, AnswerFlush, Receive
    <2>2. Holds(n) => MaySay(n, answer)
      BY <1>4, <2>1 DEF MaySay, Saves, Message
    <2>3. /\ page'[n].phase = p.phase /\ page'[n].req = p.req /\ page'[n].gen = p.gen
          /\ page'[n].text = p.text /\ page'[n].queue = p.queue
      BY <1>1, <1>10 DEF AnswerFlush, Pages
    <2>4. \/ toHost'[n] = toHost[n]
          \/ Holds(n) /\ toHost'[n] = Append(toHost[n], answer)
      BY <1>1, <1>10, <2>1 DEF AnswerFlush, Send
    <2> QED
      BY <1>9, <2>2, <2>3, <2>4
  <1>11. CASE Begin(n)
    <2> DEFINE ready == Message("external_write_ready", m.req, m.gen, p.text)
    <2>1. ready \in Messages(ToHostTypes) /\ m.type = "begin_external_write"
      BY <1>1, <1>5, <1>11, MessageType DEF Pages, ToHostTypes, Begin, Receive
    <2>2. CASE UNCHANGED <<page, toHost>>
      BY <1>9, <2>2
    <2>3. CASE /\ p.phase = "idle" /\ m.gen = p.gen
               /\ page' = [page EXCEPT ![n].phase = "syncing", ![n].req = m.req,
                                       ![n].dirty = FALSE]
               /\ Send(n, <<ready>>)
      <3>1. /\ page'[n].phase = "syncing" /\ page'[n].req = m.req /\ page'[n].gen = p.gen
            /\ page'[n].text = p.text /\ page'[n].queue = p.queue
        BY <1>1, <2>3 DEF Pages
      <3>2. toHost'[n] = Append(toHost[n], Message("external_write_ready", m.req, p.gen, p.text))
        BY <1>1, <2>1, <2>3 DEF Send
      <3> QED
        BY <1>2, <1>4, <1>7, <2>1, <2>3, <3>1, <3>2 DEF PageStep, Freezes, Takes
    <2> QED
      BY <1>11, <2>2, <2>3 DEF Begin
  <1> DEFINE refusal == Message("external_write_apply_failed", m.req, 0, {})
             applied == Message("external_write_applied", m.req, m.gen, {})
  <1>12. /\ refusal \in Messages(ToHostTypes)
         /\ applied \in Messages(ToHostTypes)
    BY <1>5, MessageType DEF ToHostTypes, Bodies
  <1>13. Send(n, <<refusal>>) => toHost'[n] = Append(toHost[n], refusal)
    BY <1>1, <1>12 DEF Send
  <1>14. CASE Apply(n)
    <2>1. m.type = "apply_external_document"
      BY <1>14 DEF Apply, Receive
    <2>2. MaySay(n, refusal)
      BY <1>4, <1>12, <2>1 DEF MaySay, Saves, Message
    <2>3. CASE UNCHANGED page /\ (UNCHANGED toHost \/ Send(n, <<refusal>>))
      BY <1>9, <1>13, <2>2, <2>3
    <2>4. CASE /\ p.req = m.req
               /\ page' = [page EXCEPT ![n].phase = "unsynchronised"]
               /\ Send(n, <<refusal>>)
      <3>1. /\ page'[n].phase = "unsynchronised" /\ page'[n].req = p.req
            /\ page'[n].gen = p.gen /\ page'[n].text = p.text /\ page'[n].queue = p.queue
        BY <1>1, <2>4 DEF Pages
      <3> QED
        BY <1>2, <1>4, <1>7, <1>13, <2>1, <2>4, <3>1 DEF PageStep, Sticks, Takes
    <2> DEFINE adopting == [p EXCEPT !.text = m.text, !.gen = m.gen]
    <2>5. CASE /\ ~AdoptionFailed(n) /\ p.req = m.req
               /\ page' = [page EXCEPT ![n] = Adopted(p, m)]
               /\ Send(n, HeldClose(adopting) \o <<applied>>)
      <3>1. /\ adopting \in Pages /\ adopting.text = m.text /\ adopting.gen = m.gen
            /\ adopting.queue = p.queue
        BY <1>1, <1>5 DEF Pages
      <3>2. page'[n] = Released(adopting)
        BY <1>1, <2>5 DEF Adopted
      <3>3. toHost'[n] = toHost[n] \o (HeldClose(adopting) \o <<applied>>)
        BY <1>1, <2>5 DEF Send
      <3> HIDE DEF adopting
      <3>4. /\ page'[n].phase = "idle" /\ page'[n].req = NoRequest
            /\ page'[n].gen = m.gen /\ page'[n].text = m.text \cup Inserted(p.queue)
            /\ page'[n].queue = <<>>
        BY <3>1, <3>2 DEF Released, Pages
      <3>5. /\ HeldClose(adopting) \in Seq(Messages(ToHostTypes))
            /\ \/ HeldClose(adopting) = <<>>
               \/ \E c \in Messages(ToHostTypes) :
                     /\ HeldClose(adopting) = <<c>>
                     /\ c.type = "save_and_close"
                     /\ c.req = NoRequest
                     /\ c.gen = m.gen
                     /\ m.text \subseteq c.text
                     /\ c.text \subseteq m.text \cup Inserted(p.queue)
        BY <3>1, HeldCloseSays
      <3>6. Releases(n, m.gen, m.text, <<applied>>)
        <4> HIDE DEF applied
        <4> QED
          BY <3>3, <3>4, <3>5, InsertedNothing DEF Releases
      <3>7. Takes(n, "apply_external_document")
        BY <1>2, <1>4, <2>1 DEF Takes
      <3>8. p.phase # "unsynchronised" /\ p.req = m.req
        BY <2>5 DEF AdoptionFailed
      <3>9. Adopts(n)
        BY <3>6, <3>7, <3>8 DEF Adopts
      <3> QED
        BY <1>7, <3>9 DEF PageStep
    <2> QED
      BY <1>14, <2>3, <2>4, <2>5 DEF Apply
  <1>15. CASE Abort(n)
    <2>1. m.type = "abort_external_write"
      BY <1>15 DEF Abort, Receive
    <2>2. CASE UNCHANGED <<page, toHost>>
      BY <1>9, <2>2
    <2>3. CASE /\ p.req = m.req /\ ~AdoptionFailed(n)
               /\ page' = [page EXCEPT ![n] = Released(@)]
               /\ Send(n, HeldClose(p))
      <3>1. page'[n] = Released(p) /\ toHost'[n] = toHost[n] \o HeldClose(p)
        BY <1>1, <2>3 DEF Send
      <3>2. HeldClose(p) \in Seq(Messages(ToHostTypes))
        BY <1>1, HeldCloseType
      <3>3. toHost'[n] = toHost[n] \o (HeldClose(p) \o <<>>)
        BY <3>1, <3>2
      <3>4. /\ page'[n].phase = "idle" /\ page'[n].req = NoRequest
            /\ page'[n].gen = p.gen /\ page'[n].text = p.text \cup Inserted(p.queue)
            /\ page'[n].queue = <<>>
        BY <1>1, <3>1 DEF Released, Pages
      <3>5. Releases(n, p.gen, p.text, <<>>)
        BY <1>1, <3>3, <3>4, HeldCloseSays, InsertedNothing DEF Releases
      <3> QED
        BY <1>2, <1>4, <1>7, <2>1, <2>3, <3>5 DEF PageStep, Frees, Takes, AdoptionFailed
    <2> QED
      BY <1>15, <2>2, <2>3 DEF Abort
  <1> QED
    BY <1>8, <1>10, <1>11, <1>14, <1>15 DEF PageHears

-----------------------------------------------------------------------------
(* What a step of the host does to one note.                               *)

(* A body stays what it was, or becomes what the page just said.           *)
Stored(n, was, is) ==
    \/ is = was
    \/ /\ toHost[n] # <<>>
       /\ Saves(Head(toHost[n]))
       /\ Head(toHost[n]).gen = hostGen[n]
       /\ is = Head(toHost[n]).text

(* What has become of a note's text, when no request of another process    *)
(* changed it.                                                             *)
StoresOwn(n) ==
    /\ Stored(n, file[n].body, file'[n].body)
    /\ Stored(n, doc[n].body, doc'[n].body)
    /\ written'[n] = written[n]

(* What the page answered with is known of, or becomes known.              *)
ReportsOwn(n) ==
    \/ reported'[n] = reported[n]
    \/ /\ toHost[n] # <<>>
       /\ toHost'[n] = Tail(toHost[n])
       /\ Saves(Head(toHost[n]))
       /\ \/ Head(toHost[n]).gen = hostGen[n]
          \/ Head(toHost[n]).type = "save_and_close"
       /\ reported'[n] = reported[n] \cup Head(toHost[n]).text

(* The window closes and takes its page with it.                           *)
Gone(n) ==
    /\ page'[n] = PageIn("absent")
    /\ toPage'[n] = <<>>
    /\ toHost'[n] = <<>>
    /\ win'[n] = "none"
    /\ pendingWrite'[n] \in {pendingWrite[n], NoRequest}
    /\ StoresOwn(n)
    /\ ~HeldByTask(n)'

(* The page stays, one of its messages was taken or none, it is told       *)
(* something or nothing.                                                   *)
Keeps(n, told) ==
    /\ page'[n] = page[n]
    /\ \/ toHost'[n] = toHost[n]
       \/ /\ toHost[n] # <<>>
          /\ toHost'[n] = Tail(toHost[n])
          /\ Head(toHost[n]).type # "ready"
    /\ toPage'[n] = toPage[n] \o told

(* Nothing that the page of n waits for or would wait for has moved.       *)
TaskQuiet(n) ==
    /\ task'.note = n /\ task'.stage \in {"snapshot", "resumed"} => task' = task
    /\ HeldByTask(n)' => HeldByTask(n)
    /\ pendingWrite'[n] \in {pendingWrite[n], NoRequest}

Quiet(n) ==
    /\ \/ Keeps(n, <<>>)
       \/ /\ Keeps(n, <<Message("request_flush", nextReq, 0, {})>>)
          /\ toHost'[n] = toHost[n]
          /\ nextReq' = nextReq + 1
          /\ task' = task
    /\ \/ win'[n] = win[n]
       \/ win'[n] = "none" /\ HeldByTask(n)
    /\ hostGen'[n] = hostGen[n]
    /\ StoresOwn(n)
    /\ ReportsOwn(n)
    /\ typed'[n] = typed[n]
    /\ TaskQuiet(n)

Opened(n) ==
    /\ OpenWindow(n)
    /\ page'[n] = PageIn("loading")
    /\ toPage'[n] = <<>>
    /\ toHost'[n] = <<Message("ready", NoRequest, 0, {})>>
    /\ win'[n] = "loading"
    /\ doc'[n] = file[n]
    /\ hostGen'[n] = 0
    /\ typed'[n] = {}
    /\ reported'[n] = {}

(* The page is handed its note.                                            *)
Handed(n) ==
    /\ Hears(n, "ready")
    /\ page'[n] = page[n]
    /\ toHost'[n] = Tail(toHost[n])
    /\ toPage'[n] = Append(toPage[n], Message("load_note", NoRequest, hostGen[n], doc[n].body))
    /\ win'[n] = "loaded"
    /\ UNCHANGED <<hostGen, file, doc, written, typed, reported, task, pendingWrite, nextReq>>

(* A request is answered in one turn, no page having the note.             *)
Direct(n) ==
    /\ task.note = n /\ task.stage = "queued" /\ IsIdle(task')
    /\ win[n] # "loaded"
    /\ page'[n] = page[n]
    /\ toHost'[n] = toHost[n]
    /\ toPage'[n] = toPage[n]
    /\ win'[n] = win[n]
    /\ pendingWrite'[n] = pendingWrite[n]
    /\ hostGen'[n] = IF win[n] = "loading" THEN hostGen[n] + 1 ELSE hostGen[n]
    /\ file'[n].body = Mutated(task, file[n]).body
    /\ doc'[n].body = IF win[n] = "loading" THEN file'[n].body ELSE doc[n].body
    /\ Recorded(n)
    /\ refused' = refused

(* The page is asked to hold still.                                        *)
Claimed(n) ==
    /\ task.note = n /\ task.stage = "queued"
    /\ task' = [task EXCEPT !.stage = "snapshot"]
    /\ win[n] = "loaded"
    /\ Keeps(n, <<Message("begin_external_write", task.req, hostGen[n], {})>>)
    /\ toHost'[n] = toHost[n]
    /\ pendingWrite'[n] = task.req
    /\ UNCHANGED <<win, hostGen, file, doc, written, typed, reported>>

(* Its snapshot is taken.                                                  *)
Taken(n) ==
    /\ Hears(n, "external_write_ready")
    /\ Head(toHost[n]).gen = hostGen[n]
    /\ pendingWrite[n] # NoRequest
    /\ pendingWrite[n] = Head(toHost[n]).req
    /\ pendingWrite'[n] = NoRequest
    /\ task' = [task EXCEPT !.stage = "resumed", !.text = Head(toHost[n]).text, !.ok = TRUE]
    /\ page'[n] = page[n]
    /\ toHost'[n] = Tail(toHost[n])
    /\ toPage'[n] = toPage[n]
    /\ UNCHANGED <<win, hostGen, file, doc, written, typed, reported>>

(* The page is told that nothing was written.                              *)
LetGoOf(n) ==
    /\ task.note = n
    /\ \/ /\ task.stage = "snapshot"
          /\ pendingWrite[n] # NoRequest
          /\ task' = [task EXCEPT !.stage = "resumed", !.ok = FALSE]
       \/ task.stage = "resumed" /\ IsIdle(task')
    /\ pendingWrite'[n] = NoRequest
    /\ Keeps(n, <<Message("abort_external_write", task.req, 0, {})>>)
    /\ toHost'[n] = toHost[n]
    /\ UNCHANGED <<win, hostGen, file, doc, written, typed, reported>>

(* What the request asked is written and the page told.                    *)
Committed(n) ==
    /\ task.note = n /\ task.stage = "resumed" /\ task.ok
    /\ task' = [task EXCEPT !.stage = "ack"]
    /\ hostGen'[n] = hostGen[n] + 1
    /\ file'[n].body = Mutated(task, LiveBase(n, task.text)).body
    /\ doc'[n].body = file'[n].body
    /\ Keeps(n, <<Message("apply_external_document", task.req, hostGen[n] + 1,
                          file'[n].body)>>)
    /\ toHost'[n] = toHost[n]
    /\ Recorded(n)
    /\ UNCHANGED <<win, pendingWrite>>

(* The document on its way to the page is lost.                            *)
Lost(n) ==
    /\ page'[n] = page[n]
    /\ toHost'[n] = toHost[n]
    /\ \E i \in DOMAIN toPage[n] :
          /\ toPage[n][i].type = "apply_external_document"
          /\ toPage'[n] = SubSeq(toPage[n], 1, i - 1) \o SubSeq(toPage[n], i + 1, Len(toPage[n]))
    /\ task.stage = "ack" /\ task' = [task EXCEPT !.stage = "synced"]
    /\ UNCHANGED <<win, hostGen, file, doc, written, typed, reported, pendingWrite, nextReq>>

HostStep(n) ==
    \/ Gone(n)
    \/ Quiet(n)
    \/ Opened(n)
    \/ Handed(n)
    \/ Direct(n)
    \/ Claimed(n)
    \/ Taken(n)
    \/ LetGoOf(n)
    \/ Committed(n)
    \/ Lost(n)

(* A turn that tells nothing, that changes no request and no text but by   *)
(* what a page says, is a quiet one.                                       *)
LEMMA QuietTurn ==
    ASSUME TypeOK, NEW heard, NEW gone, Turn(heard, gone, Silence), NEW n \in Notes,
           n \in heard => toHost[n] # <<>> /\ Head(toHost[n]).type # "ready",
           hostGen'[n] = hostGen[n], typed'[n] = typed[n], StoresOwn(n),
           \/ reported'[n] = reported[n]
           \/ /\ n \in heard
              /\ Saves(Head(toHost[n]))
              /\ \/ Head(toHost[n]).gen = hostGen[n]
                 \/ Head(toHost[n]).type = "save_and_close"
              /\ reported'[n] = reported[n] \cup Head(toHost[n]).text,
           TaskQuiet(n)
    PROVE  HostStep(n)
  <1>1. CASE /\ n \in gone /\ ~HeldByTask(n)
             /\ win'[n] = "none"
             /\ page'[n] = PageIn("absent")
             /\ toHost'[n] = <<>>
             /\ toPage'[n] = <<>>
    <2>1. ~HeldByTask(n)'
      BY <1>1 DEF TaskQuiet
    <2>2. Gone(n)
      BY <1>1, <2>1 DEF Gone, TaskQuiet
    <2> QED
      BY <2>2 DEF HostStep
  <1>2. CASE /\ n \in gone => HeldByTask(n)
             /\ win'[n] = IF n \in gone THEN "none" ELSE win[n]
             /\ page'[n] = page[n]
             /\ toHost'[n] = IF n \in heard THEN Tail(toHost[n]) ELSE toHost[n]
             /\ toPage'[n] = toPage[n] \o Silence[n]
    <2>1. Keeps(n, <<>>)
      BY <1>2 DEF Keeps, Silence
    <2>2. ReportsOwn(n)
      BY <1>2 DEF ReportsOwn
    <2> QED
      BY <1>2, <2>1, <2>2 DEF HostStep, Quiet
  <1>3. \/ /\ n \in gone /\ ~HeldByTask(n)
           /\ win'[n] = "none"
           /\ page'[n] = PageIn("absent")
           /\ toHost'[n] = <<>>
           /\ toPage'[n] = <<>>
        \/ /\ n \in gone => HeldByTask(n)
           /\ win'[n] = IF n \in gone THEN "none" ELSE win[n]
           /\ page'[n] = page[n]
           /\ toHost'[n] = IF n \in heard THEN Tail(toHost[n]) ELSE toHost[n]
           /\ toPage'[n] = toPage[n] \o Silence[n]
    BY DEF Turn
  <1> QED
    BY <1>1, <1>2, <1>3

(* A step that leaves a note and its page alone is quiet.                  *)
LEMMA StillStep ==
    ASSUME TypeOK, NEW n \in Notes,
           page'[n] = page[n], toHost'[n] = toHost[n], toPage'[n] = toPage[n],
           win'[n] = win[n], hostGen'[n] = hostGen[n],
           file'[n].body = file[n].body, doc'[n].body = doc[n].body,
           written'[n] = written[n], typed'[n] = typed[n], reported'[n] = reported[n],
           TaskQuiet(n)
    PROVE  HostStep(n)
  <1>1. toPage[n] \in Seq(Messages(ToPageTypes))
    BY DEF TypeOK, WindowTypeOK, PageTypeOK
  <1>2. toPage'[n] = toPage[n] \o <<>>
    BY <1>1
  <1>3. Keeps(n, <<>>)
    BY <1>2 DEF Keeps
  <1>4. StoresOwn(n) /\ ReportsOwn(n)
    BY DEF StoresOwn, Stored, ReportsOwn
  <1> QED
    BY <1>3, <1>4 DEF HostStep, Quiet

(* A step that leaves the request alone is quiet about it.                 *)
LEMMA SameTask ==
    ASSUME NEW n, task' = task \/ task' = NoTask, pendingWrite'[n] = pendingWrite[n]
    PROVE  TaskQuiet(n)
  BY DEF TaskQuiet, HeldByTask, HeldStages, NoTask

(* A window that hears a page hears one that is there: its document is the *)
(* file's.                                                                 *)
LEMMA HeardDescribes ==
    ASSUME PagesAccounted, NEW a \in Notes, NEW type, Hears(a, type)
    PROVE  doc[a] = file[a]
  BY DEF PagesAccounted, Hears

(* A save writes the text or nothing, in the file and in the document.     *)
LEMMA SaveContentStores ==
    ASSUME TypeOK, PagesAccounted, NEW a \in Notes, NEW type, Hears(a, type),
           NEW text, NEW ok, SaveContent(a, text, ok), NEW n \in Notes
    PROVE  /\ file'[n] = file[n] \/ (n = a /\ file'[n].body = text)
           /\ doc'[n] = doc[n] \/ (n = a /\ doc'[n].body = text)
           /\ ok /\ n = a => file'[n].body = text
  <1>1. doc[a] = file[a]
    BY HeardDescribes
  <1>2. doc[a] \in Documents /\ file \in [Notes -> Documents] /\ doc \in [Notes -> Documents]
    BY DEF TypeOK, WindowTypeOK
  <1>3. [doc[a] EXCEPT !.body = text].body = text
    BY <1>2 DEF Documents
  <1> QED
    BY <1>1, <1>2, <1>3 DEF SaveContent, CommitOnceWritten, SaveDocument

(* Each message the host hears is a step of each note.                     *)
LEMMA HeardSteps ==
    ASSUME TypeOK, ClaimsAccounted, PagesAccounted, NEW a \in Notes, NEW n \in Notes,
           \/ Ready(a) \/ ContentChanged(a) \/ PaperChanged(a) \/ SaveAndCloseAsked(a)
           \/ SnapshotReady(a) \/ ApplyAnswered(a)
    PROVE  HostStep(n)
  <1>1. /\ toHost \in [Notes -> Seq(Messages(ToHostTypes))]
        /\ toPage \in [Notes -> Seq(Messages(ToPageTypes))]
        /\ win \in [Notes -> {"none", "loading", "loaded"}]
        /\ file \in [Notes -> Documents]
        /\ doc \in [Notes -> Documents]
        /\ reported \in [Notes -> Bodies]
        /\ task \in Tasks
        /\ pendingWrite \in [Notes -> RequestIds \cup {NoRequest}]
    BY DEF TypeOK, WindowTypeOK, PageTypeOK
  <1>2. CASE Ready(a)
    <2>1. CASE n = a
      <3>1. Handed(n)
        BY <1>1, <1>2, <2>1 DEF Handed, Ready
      <3> QED
        BY <3>1 DEF HostStep
    <2>2. CASE n # a
      <3>1. /\ page'[n] = page[n] /\ toHost'[n] = toHost[n] /\ toPage'[n] = toPage[n]
            /\ win'[n] = win[n] /\ hostGen' = hostGen /\ file' = file /\ doc' = doc
            /\ written' = written /\ typed' = typed /\ reported' = reported
            /\ task' = task /\ pendingWrite' = pendingWrite
        BY <1>1, <1>2, <2>2 DEF Ready
      <3> QED
        BY <3>1, StillStep, SameTask
    <2> QED
      BY <2>1, <2>2
  <1>3. CASE ContentChanged(a)
    <2>1. /\ Hears(a, "content_changed") /\ Turn({a}, {}, Silence)
          /\ UNCHANGED <<hostGen, typed, written, reported, task, pendingWrite>>
      BY <1>3 DEF ContentChanged
    <2>2. \/ UNCHANGED <<file, doc>>
          \/ /\ AcceptsGeneration(a, Head(toHost[a]).gen)
             /\ \E ok \in Outcomes : SaveContent(a, Head(toHost[a]).text, ok)
      BY <1>3 DEF ContentChanged
    <2>3. StoresOwn(n)
      <3>1. CASE UNCHANGED <<file, doc>>
        BY <2>1, <3>1 DEF StoresOwn, Stored
      <3>2. CASE /\ AcceptsGeneration(a, Head(toHost[a]).gen)
                 /\ \E ok \in Outcomes : SaveContent(a, Head(toHost[a]).text, ok)
        <4>1. PICK ok : SaveContent(a, Head(toHost[a]).text, ok)
          BY <3>2
        <4> QED
          BY <2>1, <3>2, <4>1, SaveContentStores
             DEF StoresOwn, Stored, AcceptsGeneration, Hears, Saves
      <3> QED
        BY <2>2, <3>1, <3>2
    <2> QED
      BY <2>1, <2>3, QuietTurn, SameTask DEF Hears
  <1>4. CASE PaperChanged(a)
    <2>1. /\ Hears(a, "paper_changed") /\ Turn({a}, {}, Silence)
          /\ UNCHANGED <<hostGen, typed, written, reported, task, pendingWrite>>
      BY <1>4 DEF PaperChanged
    <2>2. PICK ok : CommitOnceWritten(a, [doc[a] EXCEPT !.look = @ + 1], ok)
      BY <1>4 DEF PaperChanged
    <2>3. [doc[a] EXCEPT !.look = @ + 1].body = doc[a].body /\ doc[a] = file[a]
      BY <1>1, <2>1, HeardDescribes DEF Documents
    <2>4. StoresOwn(n)
      BY <1>1, <2>1, <2>2, <2>3 DEF StoresOwn, Stored, CommitOnceWritten, SaveDocument
    <2> QED
      BY <2>1, <2>4, QuietTurn, SameTask DEF Hears
  <1>5. CASE SaveAndCloseAsked(a)
    <2> DEFINE stale == ~AcceptsGeneration(a, Head(toHost[a]).gen)
    <2>1. /\ Hears(a, "save_and_close")
          /\ UNCHANGED <<hostGen, typed, written, task, pendingWrite>>
      BY <1>5 DEF SaveAndCloseAsked
    <2>2. PICK ok \in Outcomes, persisted \in Outcomes :
             LET closes == /\ stale \/ ok
                           /\ StructuralActionAllowed
                           /\ win[a] # "none"
                           /\ persisted
             IN /\ IF stale THEN UNCHANGED <<file, live, doc>>
                   ELSE SaveContent(a, Head(toHost[a]).text, ok)
                /\ Turn({a}, IF closes THEN {a} ELSE {}, Silence)
                /\ IF closes THEN Reports(a) ELSE UNCHANGED reported
      BY <1>5 DEF SaveAndCloseAsked
    <2>3. StoresOwn(n)
      <3>1. CASE stale
        BY <2>1, <2>2, <3>1 DEF StoresOwn, Stored
      <3>2. CASE ~stale
        BY <2>1, <2>2, <3>2, SaveContentStores
           DEF StoresOwn, Stored, AcceptsGeneration, Hears, Saves
      <3> QED
        BY <3>1, <3>2
    <2>4. \/ reported'[n] = reported[n]
          \/ n = a /\ reported'[n] = reported[n] \cup Head(toHost[n]).text
      BY <1>1, <2>2 DEF Reports
    <2>5. PICK gone : Turn({a}, gone, Silence)
      BY <2>2
    <2> QED
      BY <2>1, <2>3, <2>4, <2>5, QuietTurn, SameTask DEF Hears, Saves
  <1>6. CASE SnapshotReady(a)
    <2>1. /\ Hears(a, "external_write_ready") /\ Turn({a}, {}, Silence)
          /\ UNCHANGED <<hostGen, typed, written, reported, file, doc>>
      BY <1>6 DEF SnapshotReady
    <2>2. StoresOwn(n)
      BY <2>1 DEF StoresOwn, Stored
    <2>3. CASE UNCHANGED <<pendingWrite, task>>
      BY <2>1, <2>2, <2>3, QuietTurn, SameTask DEF Hears
    <2>4. CASE /\ AcceptsGeneration(a, Head(toHost[a]).gen)
               /\ pendingWrite[a] # NoRequest
               /\ pendingWrite[a] = Head(toHost[a]).req
               /\ pendingWrite' = [pendingWrite EXCEPT ![a] = NoRequest]
               /\ task' = [task EXCEPT !.stage = "resumed", !.text = Head(toHost[a]).text,
                                       !.ok = TRUE]
      <3>1. CASE n = a
        <4>1. /\ page'[n] = page[n] /\ toHost'[n] = Tail(toHost[n]) /\ win'[n] = win[n]
              /\ toPage'[n] = toPage[n] \o <<>>
          BY <1>1, <2>1, <3>1 DEF Turn, Silence
        <4>2. toPage'[n] = toPage[n]
          BY <1>1, <4>1
        <4>3. win' = win
          <5>1. win' = [i \in Notes |-> win[i]]
            BY <2>1 DEF Turn
          <5> QED
            BY <1>1, <5>1
        <4>4. Taken(n)
          BY <1>1, <2>1, <2>4, <3>1, <4>1, <4>2, <4>3 DEF Taken, AcceptsGeneration
        <4> QED
          BY <4>4 DEF HostStep
      <3>2. CASE n # a
        <4>1. task.note = a /\ task'.note = a /\ pendingWrite'[n] = pendingWrite[n]
          BY <1>1, <2>4, <3>2 DEF ClaimsAccounted, Tasks
        <4>2. TaskQuiet(n)
          BY <3>2, <4>1 DEF TaskQuiet, HeldByTask
        <4> QED
          BY <2>1, <2>2, <3>2, <4>2, QuietTurn
      <3> QED
        BY <3>1, <3>2
    <2> QED
      BY <1>6, <2>3, <2>4 DEF SnapshotReady
  <1>7. CASE ApplyAnswered(a)
    <2>1. /\ \E type \in {"external_write_applied", "external_write_apply_failed"} : Hears(a, type)
          /\ Turn({a}, {}, Silence)
          /\ UNCHANGED <<hostGen, typed, written, reported, file, doc, pendingWrite>>
      BY <1>7 DEF ApplyAnswered
    <2>2. StoresOwn(n)
      BY <2>1 DEF StoresOwn, Stored
    <2>3. task' = task \/ (pendingAck[a] # NoRequest /\ task' = [task EXCEPT !.stage = "synced"])
      BY <1>7 DEF ApplyAnswered, AckSettled
    <2>4. TaskQuiet(n)
      BY <1>1, <2>1, <2>3 DEF TaskQuiet, HeldByTask, HeldStages, ClaimsAccounted, Tasks
    <2> QED
      BY <2>1, <2>2, <2>4, QuietTurn DEF Hears
  <1> QED
    BY <1>2, <1>3, <1>4, <1>5, <1>6, <1>7

(* A flush that is settled, whatever its end, is a turn.                   *)
LEMMA SettledTurn ==
    ASSUME NEW a, NEW flush, NEW ok, NEW nowLive, NEW heard, NEW told,
           FlushSettled(a, flush, ok, nowLive, heard, told)
    PROVE  \E gone : Turn(heard, gone, told)
  BY DEF FlushSettled

(* So is a flush that is answered, of each note.                           *)
LEMMA FlushResponseSteps ==
    ASSUME TypeOK, PagesAccounted, NEW a \in Notes, NEW n \in Notes, FlushResponse(a)
    PROVE  HostStep(n)
  <1> DEFINE m == Head(toHost[a])
             d == [doc[a] EXCEPT !.body = m.text]
             saves == doc[a].body # m.text
  <1>1. /\ file \in [Notes -> Documents]
        /\ doc \in [Notes -> Documents]
        /\ reported \in [Notes -> Bodies]
    BY DEF TypeOK, WindowTypeOK, PageTypeOK
  <1>2. /\ Hears(a, "flush_response")
        /\ UNCHANGED <<typed, hostGen, pendingWrite, task, written>>
    BY DEF FlushResponse
  <1>3. doc[a] = file[a] /\ d.body = m.text
    BY <1>1, <1>2, HeardDescribes DEF Documents
  <1>4. \/ /\ Turn({a}, {}, Silence)
           /\ UNCHANGED <<file, doc, reported>>
        \/ /\ \E gone : Turn({a}, gone, Silence)
           /\ UNCHANGED <<file, doc, reported>>
        \/ \E ok \in Outcomes :
              /\ AcceptsGeneration(a, m.gen)
              /\ file' = IF saves /\ ok THEN [file EXCEPT ![a] = d] ELSE file
              /\ doc' = IF saves /\ ok THEN [doc EXCEPT ![a] = d] ELSE doc
              /\ \E gone : Turn({a}, gone, Silence)
              /\ Reports(a)
    BY SettledTurn DEF FlushResponse
  <1>5. PICK gone : Turn({a}, gone, Silence)
    BY <1>4
  <1>6. StoresOwn(n)
    <2> HIDE DEF d, saves
    <2>1. /\ \/ file'[n] = file[n]
             \/ n = a /\ AcceptsGeneration(a, m.gen) /\ file'[n] = d
          /\ \/ doc'[n] = doc[n]
             \/ n = a /\ AcceptsGeneration(a, m.gen) /\ doc'[n] = d
      BY <1>1, <1>4
    <2> QED
      BY <1>2, <1>3, <2>1 DEF StoresOwn, Stored, AcceptsGeneration, Hears, Saves
  <1>7. \/ reported'[n] = reported[n]
        \/ /\ n = a /\ AcceptsGeneration(a, m.gen)
           /\ reported'[n] = reported[n] \cup m.text
    BY <1>1, <1>4 DEF Reports
  <1> QED
    BY <1>2, <1>5, <1>6, <1>7, QuietTurn, SameTask DEF Hears, Saves, AcceptsGeneration

(* So is every timer, and a delivery that fails.                           *)
LEMMA TimerSteps ==
    ASSUME TypeOK, ClaimsAccounted, PagesAccounted, RequestsToldApart,
           NEW a \in Notes, NEW n \in Notes, TimerFires(a) \/ DeliveryFails(a)
    PROVE  HostStep(n)
  <1>1. /\ toHost \in [Notes -> Seq(Messages(ToHostTypes))]
        /\ toPage \in [Notes -> Seq(Messages(ToPageTypes))]
        /\ win \in [Notes -> {"none", "loading", "loaded"}]
        /\ task \in Tasks
        /\ pendingWrite \in [Notes -> RequestIds \cup {NoRequest}]
    BY DEF TypeOK, WindowTypeOK, PageTypeOK
  <1>2. CASE ExpireFlush(a)
    <2>1. PICK gone : Turn({}, gone, Silence)
      BY <1>2, SettledTurn DEF ExpireFlush
    <2>2. UNCHANGED <<typed, file, doc, hostGen, pendingWrite, task, reported, written>>
      BY <1>2 DEF ExpireFlush
    <2>3. StoresOwn(n)
      BY <2>2 DEF StoresOwn, Stored
    <2> QED
      BY <2>1, <2>2, <2>3, QuietTurn, SameTask
  <1>3. CASE SnapshotTimeout(a)
    <2> DEFINE abort == Message("abort_external_write", pendingWrite[a], 0, {})
    <2>1. /\ pendingWrite[a] # NoRequest
          /\ pendingWrite' = [pendingWrite EXCEPT ![a] = NoRequest]
          /\ task' = [task EXCEPT !.stage = "resumed", !.ok = FALSE]
          /\ Turn({}, {}, Tell(a, abort))
          /\ UNCHANGED <<typed, file, doc, hostGen, reported, written>>
      BY <1>3 DEF SnapshotTimeout
    <2>2. /\ win' = [i \in Notes |-> win[i]]
          /\ page'[n] = page[n] /\ toHost'[n] = toHost[n]
          /\ toPage'[n] = toPage[n] \o Tell(a, abort)[n]
      BY <2>1 DEF Turn
    <2>3. win' = win
      BY <1>1, <2>2
    <2>4. task.note = a /\ task.stage = "snapshot"
      BY <2>1 DEF ClaimsAccounted
    <2>5. CASE n = a
      <3>0. pendingWrite[a] = task.req
        BY <2>1 DEF RequestsToldApart
      <3>1. LetGoOf(n)
        <4>1. Tell(a, abort)[n] = <<abort>>
          BY <2>5 DEF Tell, Silence
        <4>2. Keeps(n, <<Message("abort_external_write", task.req, 0, {})>>)
          BY <2>2, <3>0, <4>1 DEF Keeps
        <4> QED
          BY <1>1, <2>1, <2>2, <2>3, <2>4, <2>5, <4>2 DEF LetGoOf
      <3> QED
        BY <3>1 DEF HostStep
    <2>6. CASE n # a
      <3>1. Tell(a, abort)[n] = <<>>
        BY <2>6 DEF Tell, Silence
      <3>2. toPage'[n] = toPage[n]
        BY <1>1, <2>2, <3>1
      <3>3. TaskQuiet(n)
        BY <1>1, <2>1, <2>4, <2>6 DEF TaskQuiet, HeldByTask, Tasks
      <3> QED
        BY <2>1, <2>2, <2>3, <3>2, <3>3, StillStep
    <2> QED
      BY <2>5, <2>6
  <1>4. CASE AckTimeout(a)
    <2>1. /\ pendingAck[a] # NoRequest /\ AckSettled(a)
          /\ UNCHANGED <<page, toHost, toPage, win, typed, file, doc, hostGen, pendingWrite,
                         reported, written>>
      BY <1>4 DEF AckTimeout, pageVars
    <2>2. TaskQuiet(n)
      BY <1>1, <2>1 DEF AckSettled, TaskQuiet, HeldByTask, HeldStages, ClaimsAccounted, Tasks
    <2> QED
      BY <2>1, <2>2, StillStep
  <1>5. CASE DeliveryFails(a)
    <2>1. /\ pendingAck[a] # NoRequest /\ AckSettled(a)
          /\ UNCHANGED <<page, toHost, win, typed, file, doc, hostGen, pendingWrite, nextReq,
                         reported, written>>
      BY <1>5 DEF DeliveryFails
    <2>2. PICK i \in DOMAIN toPage[a] :
             /\ toPage[a][i].type = "apply_external_document"
             /\ toPage' = [toPage EXCEPT ![a] = SubSeq(@, 1, i - 1) \o SubSeq(@, i + 1, Len(@))]
      BY <1>5 DEF DeliveryFails
    <2>3. task.stage = "ack" /\ task' = [task EXCEPT !.stage = "synced"]
      BY <2>1 DEF AckSettled, ClaimsAccounted
    <2>4. CASE n = a
      <3>1. Lost(n)
        BY <1>1, <2>1, <2>2, <2>3, <2>4 DEF Lost
      <3> QED
        BY <3>1 DEF HostStep
    <2>5. CASE n # a
      <3>1. toPage'[n] = toPage[n]
        BY <1>1, <2>2, <2>5
      <3>2. TaskQuiet(n)
        BY <1>1, <2>1, <2>3 DEF TaskQuiet, HeldByTask, HeldStages, Tasks
      <3> QED
        BY <2>1, <3>1, <3>2, StillStep
    <2> QED
      BY <2>4, <2>5
  <1> QED
    BY <1>2, <1>3, <1>4, <1>5 DEF TimerFires

(* A request that is refused or ends without a change leaves each note.    *)
LEMMA DirectSteps ==
    ASSUME TypeOK, ClaimsAccounted, PagesAccounted, RequestsToldApart,
           NEW a \in Notes, NEW n \in Notes,
           MutateDirectly(a) \/ DiscardDirectly(a) \/ AskSnapshot(a)
    PROVE  HostStep(n)
  <1>1. /\ toHost \in [Notes -> Seq(Messages(ToHostTypes))]
        /\ toPage \in [Notes -> Seq(Messages(ToPageTypes))]
        /\ win \in [Notes -> {"none", "loading", "loaded"}]
        /\ file \in [Notes -> Documents]
        /\ doc \in [Notes -> Documents]
        /\ hostGen \in [Notes -> Nat]
        /\ typed \in [Notes -> Bodies]
        /\ written \in [Notes -> Bodies]
        /\ reported \in [Notes -> Bodies]
        /\ task \in Tasks
        /\ pendingWrite \in [Notes -> RequestIds \cup {NoRequest}]
    BY DEF TypeOK, WindowTypeOK, PageTypeOK
  <1>2. CASE MutateDirectly(a)
    <2> DEFINE base == IF win[a] = "none" THEN file[a] ELSE doc[a]
               candidate == Mutated(task, base)
               allowed == a \in live /\ RevisionMatches(task, base)
    <2>1. /\ task.stage = "queued" /\ task.note = a /\ win[a] # "loaded"
          /\ task' = NoTask
          /\ UNCHANGED <<page, toPage, toHost, win, pendingWrite>>
      BY <1>2 DEF MutateDirectly, Finished, Unanswered
    <2>2. \/ UNCHANGED <<typed, file, doc, hostGen, reported, written>>
          \/ \E ok \in Outcomes :
                /\ SaveDocument(a, candidate, ok)
                /\ IF ok THEN Recorded(a) /\ refused' = refused
                   ELSE UNCHANGED <<typed, reported, written>>
                /\ IF ok /\ win[a] = "loading"
                   THEN /\ doc' = [doc EXCEPT ![a] = candidate]
                        /\ hostGen' = [hostGen EXCEPT ![a] = @ + 1]
                   ELSE UNCHANGED <<doc, hostGen>>
      BY <1>2 DEF MutateDirectly
    <2>3. TaskQuiet(n)
      BY <2>1, SameTask
    <2>4. CASE UNCHANGED <<typed, file, doc, hostGen, reported, written>>
      BY <2>1, <2>3, <2>4, StillStep
    <2>5. ASSUME NEW ok \in Outcomes,
                 SaveDocument(a, candidate, ok),
                 IF ok THEN Recorded(a) /\ refused' = refused
                       ELSE UNCHANGED <<typed, reported, written>>,
                 IF ok /\ win[a] = "loading"
                 THEN /\ doc' = [doc EXCEPT ![a] = candidate]
                      /\ hostGen' = [hostGen EXCEPT ![a] = @ + 1]
                 ELSE UNCHANGED <<doc, hostGen>>
          PROVE  HostStep(n)
      <3>1. CASE ~ok
        <4>1. UNCHANGED <<typed, file, doc, hostGen, reported, written>>
          BY <2>5, <3>1 DEF SaveDocument
        <4> QED
          BY <2>1, <2>3, <4>1, StillStep
      <3>2. CASE ok /\ n # a
        <4>1. /\ file'[n] = file[n] /\ doc'[n] = doc[n] /\ hostGen'[n] = hostGen[n]
              /\ written'[n] = written[n] /\ typed'[n] = typed[n] /\ reported'[n] = reported[n]
          BY <1>1, <2>5, <3>2 DEF SaveDocument, Recorded
        <4> QED
          BY <2>1, <2>3, <4>1, StillStep
      <3>3. CASE ok /\ n = a
        <4>1. base = file[a]
          BY DEF PagesAccounted
        <4>2. file'[n] = candidate /\ candidate = Mutated(task, file[n])
          BY <1>1, <2>5, <3>3, <4>1 DEF SaveDocument
        <4> HIDE DEF candidate
        <4>3. /\ hostGen'[n] = IF win[n] = "loading" THEN hostGen[n] + 1 ELSE hostGen[n]
              /\ doc'[n].body = IF win[n] = "loading" THEN file'[n].body ELSE doc[n].body
          BY <1>1, <2>5, <3>3, <4>2
        <4>4. Recorded(n) /\ refused' = refused /\ IsIdle(task')
          BY <2>1, <2>5, <3>3 DEF IsIdle, NoTask
        <4>5. Direct(n)
          BY <2>1, <3>3, <4>2, <4>3, <4>4 DEF Direct
        <4> QED
          BY <4>5 DEF HostStep
      <3> QED
        BY <3>1, <3>2, <3>3
    <2> QED
      BY <2>2, <2>4, <2>5
  <1>3. CASE DiscardDirectly(a)
    <2>1. /\ task' = NoTask
          /\ UNCHANGED <<typed, file, doc, hostGen, pendingWrite, reported, written>>
          /\ \E gone : Turn({}, gone, Silence)
      BY <1>3 DEF DiscardDirectly, Finished
    <2>2. StoresOwn(n)
      BY <2>1 DEF StoresOwn, Stored
    <2> QED
      BY <2>1, <2>2, QuietTurn, SameTask
  <1>4. CASE AskSnapshot(a)
    <2> DEFINE begin == Message("begin_external_write", task.req, hostGen[a], {})
    <2>1. /\ task.stage = "queued" /\ task.note = a /\ win[a] = "loaded"
          /\ UNCHANGED <<page, toHost, typed, file, win, doc, hostGen, reported, written>>
      BY <1>4 DEF AskSnapshot
    <2>2. \/ /\ pendingWrite' = [pendingWrite EXCEPT ![a] = task.req]
             /\ toPage' = [toPage EXCEPT ![a] = Append(@, begin)]
             /\ task' = [task EXCEPT !.stage = "snapshot"]
          \/ task' = NoTask /\ UNCHANGED <<pendingWrite, toPage>>
      BY <1>4 DEF AskSnapshot, Finished
    <2>3. CASE task' = NoTask /\ UNCHANGED <<pendingWrite, toPage>>
      BY <2>1, <2>3, StillStep, SameTask
    <2>4. CASE /\ pendingWrite' = [pendingWrite EXCEPT ![a] = task.req]
               /\ toPage' = [toPage EXCEPT ![a] = Append(@, begin)]
               /\ task' = [task EXCEPT !.stage = "snapshot"]
      <3>1. CASE n = a
        <4>1. begin \in Messages(ToPageTypes)
          BY <1>1, MessageType DEF ToPageTypes, Tasks, Bodies
        <4>2. toPage'[n] = toPage[n] \o <<begin>>
          <5> HIDE DEF begin
          <5> QED
            BY <1>1, <2>4, <3>1, <4>1
        <4>3. Keeps(n, <<begin>>)
          BY <2>1, <4>2 DEF Keeps
        <4>4. Claimed(n)
          BY <1>1, <2>1, <2>4, <3>1, <4>3 DEF Claimed
        <4> QED
          BY <4>4 DEF HostStep
      <3>2. CASE n # a
        <4>1. pendingWrite'[n] = pendingWrite[n] /\ toPage'[n] = toPage[n]
          BY <1>1, <2>4, <3>2
        <4>2. task'.note = a
          BY <1>1, <2>1, <2>4 DEF Tasks
        <4>3. TaskQuiet(n)
          BY <3>2, <4>1, <4>2 DEF TaskQuiet, HeldByTask
        <4> QED
          BY <2>1, <4>1, <4>3, StillStep
      <3> QED
        BY <3>1, <3>2
    <2> QED
      BY <2>2, <2>3, <2>4
  <1> QED
    BY <1>2, <1>3, <1>4

(* A coroutine that ends without a write closes the page it kept, tells it *)
(* that nothing was written, or lets go of it without a word.              *)
LEMMA LetGoSteps ==
    ASSUME TypeOK, ClaimsAccounted, NEW a \in Notes, NEW n \in Notes, NEW closes, NEW told,
           task.note = a, task.stage \in {"resumed", "synced"}, task' = NoTask,
           LetGo(a, closes, told),
           told = <<>> \/ (task.stage = "resumed" /\ told = <<AbortWrite(a)>>),
           UNCHANGED <<hostGen, file, doc, written, typed, reported, pendingWrite>>
    PROVE  HostStep(n)
  <1>1. /\ toHost \in [Notes -> Seq(Messages(ToHostTypes))]
        /\ toPage \in [Notes -> Seq(Messages(ToPageTypes))]
        /\ page \in [Notes -> Pages]
        /\ win \in [Notes -> {"none", "loading", "loaded"}]
        /\ pendingWrite \in [Notes -> RequestIds \cup {NoRequest}]
    BY DEF TypeOK, WindowTypeOK, PageTypeOK
  <1>2. StoresOwn(n) /\ ReportsOwn(n)
    BY DEF StoresOwn, Stored, ReportsOwn
  <1>3. TaskQuiet(n)
    BY SameTask
  <1>4. CASE n # a
    <2>1. /\ page'[n] = page[n] /\ toHost'[n] = toHost[n] /\ toPage'[n] = toPage[n]
          /\ win'[n] = win[n]
      BY <1>1, <1>4 DEF LetGo
    <2> QED
      BY <1>3, <2>1, StillStep
  <1>5. CASE n = a /\ (closes \/ win[a] = "none")
    <2>1. /\ page'[n] = PageIn("absent") /\ toHost'[n] = <<>> /\ toPage'[n] = <<>>
          /\ win'[n] = "none"
      BY <1>1, <1>5 DEF LetGo
    <2>2. ~HeldByTask(n)'
      BY DEF HeldByTask, HeldStages, NoTask
    <2> QED
      BY <1>2, <2>1, <2>2 DEF HostStep, Gone
  <1>6. CASE n = a /\ ~(closes \/ win[a] = "none")
    <2>1. /\ page'[n] = page[n] /\ toHost'[n] = toHost[n] /\ toPage'[n] = toPage[n] \o told
          /\ win' = win
      BY <1>1, <1>6 DEF LetGo
    <2>2. Keeps(n, told)
      BY <2>1 DEF Keeps
    <2>3. CASE told = <<>>
      BY <1>2, <1>3, <2>1, <2>2, <2>3 DEF HostStep, Quiet
    <2>4. CASE task.stage = "resumed" /\ told = <<AbortWrite(a)>>
      <3>1. pendingWrite'[n] = NoRequest
        BY <2>4 DEF ClaimsAccounted
      <3>2. IsIdle(task')
        BY DEF IsIdle, NoTask
      <3>3. LetGoOf(n)
        BY <1>6, <2>1, <2>2, <2>4, <3>1, <3>2 DEF LetGoOf, AbortWrite
      <3> QED
        BY <3>3 DEF HostStep
    <2> QED
      BY <2>3, <2>4
  <1> QED
    BY <1>4, <1>5, <1>6

(* After the snapshot.                                                     *)
LEMMA ResumedSteps ==
    ASSUME TypeOK, ClaimsAccounted, PagesAccounted, NEW a \in Notes, NEW n \in Notes,
           ResumeMutation(a) \/ ResumeDiscard(a) \/ FinishWrite(a)
    PROVE  HostStep(n)
  <1>1. /\ toHost \in [Notes -> Seq(Messages(ToHostTypes))]
        /\ toPage \in [Notes -> Seq(Messages(ToPageTypes))]
        /\ win \in [Notes -> {"none", "loading", "loaded"}]
        /\ page \in [Notes -> Pages]
        /\ file \in [Notes -> Documents]
        /\ doc \in [Notes -> Documents]
        /\ hostGen \in [Notes -> Nat]
        /\ typed \in [Notes -> Bodies]
        /\ written \in [Notes -> Bodies]
        /\ reported \in [Notes -> Bodies]
        /\ task \in Tasks
        /\ pendingWrite \in [Notes -> RequestIds \cup {NoRequest}]
    BY DEF TypeOK, WindowTypeOK, PageTypeOK
  <1>2. CASE ResumeDiscard(a)
    <2>1. /\ task.note = a /\ task.stage = "resumed" /\ task' = NoTask
          /\ UNCHANGED <<hostGen, file, doc, written, typed, reported, pendingWrite>>
          /\ LetGo(a, trashed' # trashed, <<AbortWrite(a)>>)
      BY <1>2 DEF ResumeDiscard, Finished
    <2> QED
      BY <2>1, LetGoSteps
  <1>3. CASE FinishWrite(a)
    <2>1. /\ task.note = a /\ task.stage = "synced" /\ task' = NoTask
          /\ UNCHANGED <<hostGen, file, doc, written, typed, reported, pendingWrite>>
          /\ LetGo(a, FALSE, <<>>)
      BY <1>3 DEF FinishWrite, Finished
    <2> QED
      BY <2>1, LetGoSteps
  <1>4. CASE ResumeMutation(a)
    <2> DEFINE candidate == Mutated(task, LiveBase(a, task.text))
               applies == Message("apply_external_document", task.req, hostGen[a] + 1,
                                  candidate.body)
    <2>1. /\ task.note = a /\ task.stage = "resumed"
          /\ UNCHANGED pendingWrite
      BY <1>4 DEF ResumeMutation
    <2>2. \/ \E tells : GiveUp(a, tells)
          \/ /\ task.ok
             /\ CommitOnceWritten(a, candidate, TRUE)
             /\ Recorded(a)
             /\ hostGen' = [hostGen EXCEPT ![a] = @ + 1]
             /\ task' = [task EXCEPT !.stage = "ack"]
             /\ Turn({}, {}, Tell(a, applies))
      BY <1>4 DEF ResumeMutation
    <2>3. CASE \E tells : GiveUp(a, tells)
      <3>1. PICK tells : GiveUp(a, tells)
        BY <2>3
      <3>2. PICK told : /\ told = <<>> \/ told = <<AbortWrite(a)>>
                        /\ LetGo(a, FALSE, told)
        BY <3>1 DEF GiveUp
      <3>3. /\ task' = NoTask
            /\ UNCHANGED <<hostGen, file, doc, written, typed, reported>>
        BY <3>1 DEF GiveUp, Finished
      <3> QED
        BY <2>1, <3>2, <3>3, LetGoSteps
    <2>4. CASE /\ task.ok
               /\ CommitOnceWritten(a, candidate, TRUE)
               /\ Recorded(a)
               /\ hostGen' = [hostGen EXCEPT ![a] = @ + 1]
               /\ task' = [task EXCEPT !.stage = "ack"]
               /\ Turn({}, {}, Tell(a, applies))
      <3>1. /\ win' = [i \in Notes |-> win[i]]
            /\ page'[n] = page[n] /\ toHost'[n] = toHost[n]
            /\ toPage'[n] = toPage[n] \o Tell(a, applies)[n]
        BY <2>4 DEF Turn
      <3>2. win' = win
        BY <1>1, <3>1
      <3>3. /\ file' = [file EXCEPT ![a] = candidate]
            /\ doc' = [doc EXCEPT ![a] = candidate]
        BY <2>4 DEF CommitOnceWritten, SaveDocument
      <3>4. CASE n = a
        <4>1. Tell(a, applies)[n] = <<applies>>
          BY <3>4 DEF Tell, Silence
        <4>2. file'[n] = candidate /\ doc'[n] = candidate /\ hostGen'[n] = hostGen[n] + 1
          BY <1>1, <2>4, <3>3, <3>4
        <4>3. Keeps(n, <<Message("apply_external_document", task.req, hostGen[n] + 1,
                                 file'[n].body)>>)
          BY <3>1, <3>4, <4>1, <4>2 DEF Keeps
        <4> HIDE DEF candidate, applies
        <4>4. file'[n].body = Mutated(task, LiveBase(n, task.text)).body
          BY <3>4, <4>2 DEF candidate
        <4>5. Committed(n)
          BY <2>1, <2>4, <3>1, <3>2, <3>4, <4>2, <4>3, <4>4 DEF Committed
        <4> QED
          BY <4>5 DEF HostStep
      <3>5. CASE n # a
        <4>1. Tell(a, applies)[n] = <<>>
          BY <3>5 DEF Tell, Silence
        <4>2. toPage'[n] = toPage[n]
          BY <1>1, <3>1, <4>1
        <4> HIDE DEF candidate, applies
        <4>3. /\ file'[n] = file[n] /\ doc'[n] = doc[n] /\ hostGen'[n] = hostGen[n]
              /\ written'[n] = written[n] /\ typed'[n] = typed[n] /\ reported'[n] = reported[n]
          BY <1>1, <2>4, <3>3, <3>5 DEF Recorded
        <4>4. TaskQuiet(n)
          BY <1>1, <2>1, <2>4, <3>5 DEF TaskQuiet, HeldByTask, Tasks
        <4> QED
          BY <3>1, <3>2, <4>2, <4>3, <4>4, StillStep
      <3> QED
        BY <3>4, <3>5
    <2> QED
      BY <2>2, <2>3, <2>4
  <1> QED
    BY <1>2, <1>3, <1>4

(* What somebody asks.                                                     *)
LEMMA AskedSteps ==
    ASSUME TypeOK, PagesAccounted, NEW n \in Notes,
           \/ \E a \in Notes : SomebodyAsks(a)
           \/ \E operation \in LifecycleOperation : StartFlushAll(operation)
    PROVE  HostStep(n)
  <1>1. /\ toHost \in [Notes -> Seq(Messages(ToHostTypes))]
        /\ toPage \in [Notes -> Seq(Messages(ToPageTypes))]
        /\ page \in [Notes -> Pages]
        /\ win \in [Notes -> {"none", "loading", "loaded"}]
        /\ doc \in [Notes -> Documents]
        /\ hostGen \in [Notes -> Nat]
        /\ typed \in [Notes -> Bodies]
        /\ reported \in [Notes -> Bodies]
    BY DEF TypeOK, WindowTypeOK, PageTypeOK
  <1>2. ASSUME NEW a \in Notes, OpenWindow(a)
        PROVE  HostStep(n)
    <2>1. CASE n = a
      <3>1. toPage[n] = <<>> /\ UNCHANGED toPage
        BY <1>2, <2>1 DEF OpenWindow, PagesAccounted
      <3>2. Opened(n)
        BY <1>1, <1>2, <2>1, <3>1 DEF Opened, OpenWindow
      <3> QED
        BY <3>2 DEF HostStep
    <2>2. CASE n # a
      <3>1. /\ page'[n] = page[n] /\ toHost'[n] = toHost[n] /\ toPage'[n] = toPage[n]
            /\ win'[n] = win[n] /\ hostGen'[n] = hostGen[n]
            /\ file'[n] = file[n] /\ doc'[n] = doc[n]
            /\ written'[n] = written[n] /\ typed'[n] = typed[n] /\ reported'[n] = reported[n]
            /\ task' = task /\ pendingWrite'[n] = pendingWrite[n]
        BY <1>1, <1>2, <2>2 DEF OpenWindow
      <3> QED
        BY <3>1, StillStep, SameTask
    <2> QED
      BY <2>1, <2>2
  <1>3. ASSUME NEW a \in Notes, NEW kind \in Kinds, Submit(a, kind)
        PROVE  HostStep(n)
    <2>1. /\ UNCHANGED <<page, toPage, toHost, typed, file, win, doc, hostGen, pendingWrite,
                         reported, written>>
          /\ task'.stage = "queued"
      BY <1>3 DEF Submit, NoTask
    <2>2. TaskQuiet(n)
      BY <2>1 DEF TaskQuiet, HeldByTask, HeldStages
    <2> QED
      BY <2>1, <2>2, StillStep
  <1>4. ASSUME NEW notes, NEW why, RequestFlush(notes, why), NewRequest,
               UNCHANGED <<page, toHost, typed, file, win, doc, hostGen, pendingWrite, task,
                           reported, written>>
        PROVE  HostStep(n)
    <2> DEFINE asks == Message("request_flush", nextReq, 0, {})
    <2>1. asks \in Messages(ToPageTypes) /\ nextReq' = nextReq + 1
      BY <1>4, MessageType DEF NewRequest, ToPageTypes, Bodies
    <2>2. toPage'[n] = toPage[n] \/ toPage'[n] = Append(toPage[n], asks)
      BY <1>4 DEF RequestFlush
    <2> HIDE DEF asks
    <2>3. toPage'[n] = toPage[n] \o <<>> \/ toPage'[n] = toPage[n] \o <<asks>>
      <3>1. toPage[n] \in Seq(Messages(ToPageTypes)) /\ asks \in Messages(ToPageTypes)
        BY <1>1, <2>1 DEF asks
      <3>2. toPage[n] = toPage[n] \o <<>> /\ Append(toPage[n], asks) = toPage[n] \o <<asks>>
        BY <3>1
      <3> QED
        BY <2>2, <3>2
    <2>4. Keeps(n, <<>>) \/ Keeps(n, <<asks>>)
      BY <1>4, <2>3 DEF Keeps
    <2>5. StoresOwn(n) /\ ReportsOwn(n) /\ TaskQuiet(n)
      BY <1>4, SameTask DEF StoresOwn, Stored, ReportsOwn
    <2> QED
      BY <1>4, <2>1, <2>4, <2>5 DEF HostStep, Quiet, asks
  <1>5. ASSUME NEW a \in Notes, TrashNote(a)
        PROVE  HostStep(n)
    BY <1>4, <1>5 DEF TrashNote
  <1>6. ASSUME NEW operation, StartFlushAll(operation)
        PROVE  HostStep(n)
    <2>1. UNCHANGED <<page, toHost, typed, file, win, doc, hostGen, pendingWrite, task,
                      reported, written>>
      BY <1>6 DEF StartFlushAll
    <2>2. \/ NewRequest /\ RequestFlush(Windows, "batch")
          \/ UNCHANGED toPage
      BY <1>6 DEF StartFlushAll
    <2>3. CASE UNCHANGED toPage
      BY <2>1, <2>3, StillStep, SameTask
    <2> QED
      BY <1>4, <2>1, <2>2, <2>3
  <1> QED
    BY <1>2, <1>3, <1>5, <1>6 DEF SomebodyAsks

(* Every step is one of a page, or one of the host on every note.          *)
LEMMA EveryStep ==
    ASSUME TypeOK, ClaimsAccounted, PagesAccounted, RequestsToldApart, [Next]_vars
    PROVE  \/ \E a \in Notes : PageStep(a)
           \/ \A n \in Notes : HostStep(n)
  <1>1. ASSUME NEW a \in Notes, ReaderActs(a) \/ PageWorks(a) \/ PageGrowsSlow(a)
        PROVE  PageStep(a)
    <2>1. UNCHANGED <<lifecycleVars, hostVars>>
      BY <1>1 DEF ReaderActs, PageWorks, PageGrowsSlow
    <2>2. ReaderActs(a) \/ PageHears(a) \/ Autosave(a) \/ SlowNotice(a)
      BY <1>1 DEF PageWorks, PageGrowsSlow
    <2> QED
      BY <2>1, <2>2, ReaderSteps, HearingSteps
  <1>2. ASSUME NEW a \in Notes, NEW n \in Notes,
               HostHears(a) \/ TimerFires(a) \/ AuthorityWorks(a) \/ DeliveryFails(a)
        PROVE  HostStep(n)
    BY <1>2, HeardSteps, FlushResponseSteps, TimerSteps, DirectSteps, ResumedSteps
       DEF HostHears, AuthorityWorks
  <1>3. ASSUME NEW n \in Notes, UNCHANGED vars
        PROVE  HostStep(n)
    <2>1. UNCHANGED <<page, toPage, toHost, typed, file, win, doc, hostGen, pendingWrite, task,
                      reported, written>>
      BY <1>3 DEF vars, pageVars, hostVars
    <2> QED
      BY <2>1, StillStep, SameTask
  <1>4. CASE UNCHANGED vars
    BY <1>3, <1>4
  <1>5. CASE \E operation \in LifecycleOperation : StartFlushAll(operation)
    BY <1>5, AskedSteps
  <1>6. CASE \E a \in Notes : SomebodyAsks(a)
    BY <1>6, AskedSteps
  <1>7. CASE \E a \in Notes :
                HostHears(a) \/ TimerFires(a) \/ AuthorityWorks(a) \/ DeliveryFails(a)
    BY <1>2, <1>7
  <1>8. CASE \E a \in Notes : ReaderActs(a) \/ PageWorks(a) \/ PageGrowsSlow(a)
    BY <1>1, <1>8
  <1> QED
    BY <1>4, <1>5, <1>6, <1>7, <1>8 DEF Next

-----------------------------------------------------------------------------
(* What becomes of the request the authority serves.                       *)

TaskMoves ==
    /\ nextReq' \in {nextReq, nextReq + 1}
    /\ nextMark' \in {nextMark, nextMark + 1}
    /\ \/ task' = task /\ refused' = refused
       \/ /\ task'.stage \in HeldStages /\ task.stage # "idle"
          /\ task'.req = task.req /\ task'.mark = task.mark
          /\ Pending' => Pending
          /\ refused' = refused
       \/ /\ task'.stage = "idle"
          /\ refused' \subseteq refused \cup (IF Pending THEN {task.mark} \ {0} ELSE {})
       \/ /\ task.stage = "idle" /\ task'.stage = "queued"
          /\ task'.req = nextReq /\ nextReq' = nextReq + 1
          /\ task'.mark = 0 \/ (task'.mark = nextMark /\ nextMark' = nextMark + 1)
          /\ refused' = refused

(* A request is served, step by step, until it ends.                       *)
LEMMA TasksMove ==
    ASSUME TypeOK, ClaimsAccounted, [Next]_vars
    PROVE  TaskMoves
  <1>1. task \in Tasks
    BY DEF TypeOK, WindowTypeOK
  <1>2. ASSUME UNCHANGED <<task, refused>>,
               nextReq' \in {nextReq, nextReq + 1}, nextMark' \in {nextMark, nextMark + 1}
        PROVE  TaskMoves
    BY <1>2 DEF TaskMoves
  <1>3. CASE UNCHANGED vars
    BY <1>2, <1>3 DEF vars, pageVars, hostVars
  <1>4. ASSUME NEW a \in Notes, ReaderActs(a) \/ PageWorks(a) \/ PageGrowsSlow(a)
        PROVE  TaskMoves
    <2>1. UNCHANGED <<task, refused, nextReq>>
      BY <1>4 DEF ReaderActs, PageWorks, PageGrowsSlow, hostVars
    <2>2. nextMark' \in {nextMark, nextMark + 1}
      BY <1>4 DEF ReaderActs, PageWorks, PageGrowsSlow, Type, DeferEdit, Mark, SaveAndClose,
                  ChangePaper, PageHears, LoadNote, AnswerFlush, Begin, Apply, Abort, Autosave,
                  SlowNotice
    <2> QED
      BY <1>2, <2>1, <2>2
  <1>5. ASSUME NEW a \in Notes,
               \/ Ready(a) \/ ContentChanged(a) \/ PaperChanged(a) \/ SaveAndCloseAsked(a)
               \/ FlushResponse(a) \/ ExpireFlush(a) \/ OpenWindow(a) \/ TrashNote(a)
        PROVE  TaskMoves
    <2>1. UNCHANGED <<task, refused, nextMark>>
      BY <1>5 DEF Ready, ContentChanged, PaperChanged, SaveAndCloseAsked, FlushResponse,
                  ExpireFlush, OpenWindow, TrashNote
    <2>2. nextReq' \in {nextReq, nextReq + 1}
      BY <1>5 DEF Ready, ContentChanged, PaperChanged, SaveAndCloseAsked, FlushResponse,
                  ExpireFlush, OpenWindow, TrashNote, NewRequest
    <2> QED
      BY <1>2, <2>1, <2>2
  <1>6. ASSUME NEW operation, StartFlushAll(operation)
        PROVE  TaskMoves
    BY <1>2, <1>6 DEF StartFlushAll, NewRequest
  <1>7. ASSUME NEW a \in Notes,
               SnapshotReady(a) \/ SnapshotTimeout(a) \/ ApplyAnswered(a) \/ AckTimeout(a)
                   \/ DeliveryFails(a)
        PROVE  TaskMoves
    <2>1. UNCHANGED <<refused, nextMark, nextReq>>
      BY <1>7 DEF SnapshotReady, SnapshotTimeout, ApplyAnswered, AckTimeout, DeliveryFails,
                  pageVars
    <2>2. \/ task' = task
          \/ /\ pendingWrite[a] # NoRequest
             /\ task'.stage = "resumed" /\ task'.req = task.req /\ task'.mark = task.mark
          \/ /\ pendingAck[a] # NoRequest
             /\ task'.stage = "synced" /\ task'.req = task.req /\ task'.mark = task.mark
      BY <1>1, <1>7 DEF SnapshotReady, SnapshotTimeout, ApplyAnswered, AckTimeout,
                        DeliveryFails, AckSettled, Tasks
    <2> QED
      BY <2>1, <2>2 DEF TaskMoves, ClaimsAccounted, Pending, HeldStages
  <1>8. ASSUME NEW a \in Notes,
               MutateDirectly(a) \/ DiscardDirectly(a) \/ AskSnapshot(a) \/ ResumeMutation(a)
                   \/ ResumeDiscard(a) \/ FinishWrite(a)
        PROVE  TaskMoves
    <2>1. UNCHANGED <<nextMark, nextReq>>
      BY <1>8 DEF MutateDirectly, Unanswered, DiscardDirectly, AskSnapshot, ResumeMutation,
                  ResumeDiscard, FinishWrite
    <2>2. CASE Finished /\ (Pending \/ UNCHANGED refused) /\ (Refuse \/ UNCHANGED refused)
      BY <2>1, <2>2 DEF TaskMoves, Finished, NoTask, Refuse
    <2>3. CASE MutateDirectly(a) \/ DiscardDirectly(a) \/ ResumeDiscard(a) \/ FinishWrite(a)
      <3>1. Finished /\ (Refuse \/ UNCHANGED refused)
        BY <2>3 DEF MutateDirectly, DiscardDirectly, ResumeDiscard, FinishWrite
      <3>2. Pending \/ UNCHANGED refused
        BY <2>3 DEF MutateDirectly, DiscardDirectly, ResumeDiscard, FinishWrite, Pending
      <3> QED
        BY <2>2, <3>1, <3>2
    <2>4. CASE AskSnapshot(a) \/ ResumeMutation(a)
      <3>1. Pending /\ task.stage # "idle"
        BY <2>4 DEF AskSnapshot, ResumeMutation, Pending
      <3>2. \/ Finished /\ (Refuse \/ UNCHANGED refused)
            \/ /\ task'.stage \in {"snapshot", "ack"}
               /\ task'.req = task.req /\ task'.mark = task.mark
               /\ UNCHANGED refused
        BY <1>1, <2>4 DEF AskSnapshot, ResumeMutation, GiveUp, Tasks
      <3> QED
        BY <2>1, <2>2, <3>1, <3>2 DEF TaskMoves, HeldStages
    <2> QED
      BY <1>8, <2>3, <2>4
  <1>9. ASSUME NEW a \in Notes, NEW kind \in Kinds, Submit(a, kind)
        PROVE  TaskMoves
    BY <1>9 DEF Submit, NewRequest, NoTask, IsIdle, TaskMoves
  <1> QED
    BY <1>3, <1>4, <1>5, <1>6, <1>7, <1>8, <1>9
       DEF Next, HostHears, TimerFires, AuthorityWorks, SomebodyAsks

-----------------------------------------------------------------------------
(* Requests are told apart by their numbers.                               *)

(* The queues of a note, and what is taken from them.                      *)
LEMMA Queues ==
    ASSUME TypeOK, NEW n \in Notes
    PROVE  /\ toPage[n] \in Seq(Messages(ToPageTypes))
           /\ toHost[n] \in Seq(Messages(ToHostTypes))
           /\ toPage[n] # <<>> => /\ In(Tail(toPage[n])) \subseteq In(toPage[n])
                                  /\ Head(toPage[n]) \in In(toPage[n])
                                  /\ Head(toPage[n]) \in Messages(ToPageTypes)
           /\ toHost[n] # <<>> => /\ In(Tail(toHost[n])) \subseteq In(toHost[n])
                                  /\ Head(toHost[n]) \in In(toHost[n])
                                  /\ Head(toHost[n]) \in Messages(ToHostTypes)
  <1>1. /\ toPage[n] \in Seq(Messages(ToPageTypes))
        /\ toHost[n] \in Seq(Messages(ToHostTypes))
    BY DEF TypeOK, WindowTypeOK, PageTypeOK
  <1> QED
    BY <1>1, InTail

(* A queue says nothing but messages.                                      *)
LEMMA InSeq ==
    ASSUME NEW T, NEW s \in Seq(T)
    PROVE  In(s) \subseteq T
  BY DEF In

(* What one more message adds to a queue.                                  *)
LEMMA InAppend ==
    ASSUME NEW T, NEW s \in Seq(T), NEW m \in T
    PROVE  In(Append(s, m)) = In(s) \cup {m}
  <1>1. Append(s, m) = s \o <<m>> /\ <<m>> \in Seq(T)
    OBVIOUS
  <1>2. In(s \o <<m>>) = In(s) \cup In(<<m>>)
    BY <1>1, InConcat
  <1>3. In(<<m>>) = {m}
    BY InOne
  <1> QED
    BY <1>1, <1>2, <1>3

(* What a page says, it says of the request it was asked about.            *)
LEMMA PageQueues ==
    ASSUME TypeOK, NEW n \in Notes, PageStep(n)
    PROVE  /\ In(toPage'[n]) \subseteq In(toPage[n])
           /\ \A m \in In(toHost'[n]) :
                 \/ m \in In(toHost[n])
                 \/ m.req = NoRequest
                 \/ \E k \in In(toPage[n]) : m.req = k.req
           /\ \/ page'[n].req \in {page[n].req, NoRequest}
              \/ \E k \in In(toPage[n]) : page'[n].req = k.req
  <1> DEFINE Asked(m) == m.req = NoRequest \/ \E k \in In(toPage[n]) : m.req = k.req
  <1>1. /\ page[n] \in Pages
        /\ toPage[n] \in Seq(Messages(ToPageTypes))
        /\ toHost[n] \in Seq(Messages(ToHostTypes))
    BY DEF TypeOK, WindowTypeOK, PageTypeOK
  <1>2. ASSUME NEW m \in Messages(ToHostTypes), Asked(m), toHost'[n] = Append(toHost[n], m)
        PROVE  \A i \in In(toHost'[n]) : i \in In(toHost[n]) \/ Asked(i)
    <2>0. \A s \in Seq(Messages(ToHostTypes)), i \in Messages(ToHostTypes) :
              In(Append(s, i)) = In(s) \cup {i}
      BY InAppend
    <2>1. In(Append(toHost[n], m)) = In(toHost[n]) \cup {m}
      BY <1>1, <1>2, <2>0
    <2> QED
      BY <1>2, <2>1
  <1>3. toPage[n] # <<>> =>
            /\ In(Tail(toPage[n])) \subseteq In(toPage[n])
            /\ Head(toPage[n]) \in In(toPage[n])
            /\ Head(toPage[n]) \in Messages(ToPageTypes)
    BY Queues
  <1>4. CASE Acts(n)
    <2>1. In(toPage'[n]) \subseteq In(toPage[n]) /\ page'[n].req = page[n].req
      BY <1>3, <1>4 DEF Acts
    <2>2. CASE toHost'[n] = toHost[n]
      BY <2>1, <2>2
    <2>3. CASE \E m : MaySay(n, m) /\ toHost'[n] = Append(toHost[n], m)
      <3>1. PICK m : MaySay(n, m) /\ toHost'[n] = Append(toHost[n], m)
        BY <2>3
      <3>2. Asked(m) /\ m \in Messages(ToHostTypes)
        BY <1>3, <3>1 DEF MaySay
      <3> HIDE DEF Asked
      <3>3. \A i \in In(toHost'[n]) : i \in In(toHost[n]) \/ Asked(i)
        BY <1>2, <3>1, <3>2
      <3> QED
        BY <2>1, <3>3 DEF Asked
    <2> QED
      BY <1>4, <2>2, <2>3 DEF Acts
  <1>5. ASSUME NEW type, Takes(n, type)
        PROVE  /\ In(toPage'[n]) \subseteq In(toPage[n])
               /\ Head(toPage[n]) \in In(toPage[n])
               /\ Head(toPage[n]).req \in RequestIds \cup {NoRequest}
               /\ Head(toPage[n]).gen \in Nat
               /\ Head(toPage[n]).text \in Bodies
    BY <1>3, <1>5 DEF Takes, Messages
  <1>6. CASE Loads(n)
    BY <1>5, <1>6 DEF Loads
  <1>7. CASE Freezes(n) \/ Sticks(n)
    <2> DEFINE r == Message("external_write_ready", Head(toPage[n]).req, page[n].gen, page[n].text)
               f == Message("external_write_apply_failed", Head(toPage[n]).req, 0, {})
    <2>0. \E type : Takes(n, type)
      BY <1>7 DEF Freezes, Sticks
    <2>1. /\ r \in Messages(ToHostTypes) /\ r.req = Head(toPage[n]).req
          /\ f \in Messages(ToHostTypes) /\ f.req = Head(toPage[n]).req
      BY <1>1, <1>5, <2>0 DEF Message, Messages, Pages, ToHostTypes, Bodies
    <2>2. Asked(r) /\ Asked(f)
      BY <1>5, <2>0, <2>1
    <2>3. toHost'[n] = Append(toHost[n], r) \/ toHost'[n] = Append(toHost[n], f)
      BY <1>7 DEF Freezes, Sticks
    <2> HIDE DEF Asked, r, f
    <2>4. \A i \in In(toHost'[n]) : i \in In(toHost[n]) \/ Asked(i)
      BY <1>2, <2>1, <2>2, <2>3
    <2> QED
      BY <1>5, <1>7, <2>0, <2>4 DEF Asked, Freezes, Sticks
  <1>8. ASSUME NEW gen, NEW text, NEW answer \in Seq(Messages(ToHostTypes)),
               \A m \in In(answer) : Asked(m),
               Releases(n, gen, text, answer)
        PROVE  /\ \A i \in In(toHost'[n]) : i \in In(toHost[n]) \/ Asked(i)
               /\ page'[n].req = NoRequest
    <2>1. PICK close \in Seq(Messages(ToHostTypes)) :
             /\ toHost'[n] = toHost[n] \o (close \o answer)
             /\ close = <<>> \/ \E m : close = <<m>> /\ m.req = NoRequest
      BY <1>8 DEF Releases
    <2>2. In(toHost'[n]) = In(toHost[n]) \cup In(close) \cup In(answer)
      <3>1. In(close \o answer) = In(close) \cup In(answer)
        BY InConcat
      <3>2. close \o answer \in Seq(Messages(ToHostTypes))
        BY <1>8, <2>1
      <3>4. In(toHost[n] \o (close \o answer)) = In(toHost[n]) \cup In(close \o answer)
        <4>1. \A s, t \in Seq(Messages(ToHostTypes)) : In(s \o t) = In(s) \cup In(t)
          BY InConcat
        <4> QED
          BY <1>1, <3>2, <4>1
      <3> QED
        BY <2>1, <3>1, <3>4
    <2>3. \A m \in In(close) : m.req = NoRequest
      BY <2>1, InNothing, InOne
    <2> QED
      BY <1>8, <2>2, <2>3 DEF Releases
  <1>9. CASE Adopts(n)
    <2> DEFINE d == Message("external_write_applied", Head(toPage[n]).req, Head(toPage[n]).gen, {})
    <2>1. Takes(n, "apply_external_document")
          /\ Releases(n, Head(toPage[n]).gen, Head(toPage[n]).text, <<d>>)
      BY <1>9 DEF Adopts
    <2>2. d \in Messages(ToHostTypes) /\ d.req = Head(toPage[n]).req
      BY <1>5, <2>1 DEF Message, Messages, ToHostTypes, Bodies
    <2>3. Asked(d)
      BY <1>5, <2>1, <2>2
    <2> HIDE DEF Asked, d
    <2>4. <<d>> \in Seq(Messages(ToHostTypes)) /\ \A m \in In(<<d>>) : Asked(m)
      BY <2>2, <2>3, InOne
    <2>5. /\ \A i \in In(toHost'[n]) : i \in In(toHost[n]) \/ Asked(i)
          /\ page'[n].req = NoRequest
      BY <1>8, <2>1, <2>4
    <2> QED
      BY <1>5, <2>1, <2>5 DEF Asked
  <1>10. CASE Frees(n)
    <2>1. Takes(n, "abort_external_write") /\ Releases(n, page[n].gen, page[n].text, <<>>)
      BY <1>10 DEF Frees
    <2>2. <<>> \in Seq(Messages(ToHostTypes)) /\ \A m \in In(<<>>) : Asked(m)
      BY InNothing
    <2>3. /\ \A i \in In(toHost'[n]) : i \in In(toHost[n]) \/ Asked(i)
          /\ page'[n].req = NoRequest
      <3> HIDE DEF Asked
      <3> QED
        BY <1>8, <2>1, <2>2
    <2> QED
      BY <1>5, <2>1, <2>3
  <1> QED
    BY <1>4, <1>6, <1>7, <1>9, <1>10 DEF PageStep

(* What the host tells a page that is there: it asks for a flush, hands it *)
(* its note, or speaks of the request the authority serves.                *)
Told(n, m) ==
    \/ /\ m = Message("request_flush", nextReq, 0, {})
       /\ nextReq' = nextReq + 1
       /\ task' = task
    \/ m = Message("load_note", NoRequest, hostGen[n], doc[n].body)
    \/ /\ m.type \in {"begin_external_write", "abort_external_write", "apply_external_document"}
       /\ m.req = task.req
       /\ task.stage # "idle"
       /\ task'.stage # "queued"

(* The host puts nothing in the mouth of a page, but that it is ready, and *)
(* what it tells a page it tells of the requests there are.                *)
LEMMA HostQueues ==
    ASSUME TypeOK, NEW n \in Notes, HostStep(n)
    PROVE  /\ \A m \in In(toHost'[n]) :
                 m \in In(toHost[n]) \/ m = Message("ready", NoRequest, 0, {})
           /\ \A m \in In(toPage'[n]) : m \in In(toPage[n]) \/ Told(n, m)
           /\ page'[n].req \in {page[n].req, NoRequest}
  <1>1. /\ toPage[n] \in Seq(Messages(ToPageTypes))
        /\ toHost[n] \in Seq(Messages(ToHostTypes))
        /\ hostGen[n] \in Nat /\ doc[n].body \in Bodies
        /\ file[n].body \in Bodies
        /\ task.req \in RequestIds \cup {NoRequest}
        /\ task \in Tasks
    BY DEF TypeOK, WindowTypeOK, PageTypeOK, Documents, Tasks
  <1>2. toHost[n] # <<>> => In(Tail(toHost[n])) \subseteq In(toHost[n])
    BY Queues
  <1>3. ASSUME NEW m, Keeps(n, <<m>>), Told(n, m)
        PROVE  \A i \in In(toPage'[n]) : i \in In(toPage[n]) \/ Told(n, i)
    <2> HIDE DEF Told
    <2>1. toPage'[n] = toPage[n] \o <<m>>
      BY <1>3 DEF Keeps
    <2>2. In(toPage[n] \o <<m>>) = In(toPage[n]) \cup {m}
      <3> DEFINE T == Messages(ToPageTypes) \cup {m}
      <3>1. toPage[n] \in Seq(T) /\ <<m>> \in Seq(T)
        BY <1>1
      <3> HIDE DEF T
      <3>2. In(toPage[n] \o <<m>>) = In(toPage[n]) \cup In(<<m>>)
        BY <3>1, InConcat
      <3> QED
        BY <3>2, InOne
    <2> QED
      BY <1>3, <2>1, <2>2
  <1>4. ASSUME NEW told, Keeps(n, told)
        PROVE  /\ \A i \in In(toHost'[n]) : i \in In(toHost[n])
               /\ page'[n] = page[n]
    BY <1>2, <1>4 DEF Keeps
  <1>5. Keeps(n, <<>>) => toPage'[n] = toPage[n]
    BY <1>1 DEF Keeps
  <1>6. CASE Gone(n)
    BY <1>6, InNothing DEF Gone, PageIn
  <1>7. CASE Quiet(n)
    <2> DEFINE m == Message("request_flush", nextReq, 0, {})
    <2>1. CASE Keeps(n, <<>>)
      BY <1>4, <1>5, <2>1
    <2>2. CASE Keeps(n, <<m>>) /\ nextReq' = nextReq + 1 /\ task' = task
      <3>1. Told(n, m)
        BY <2>2 DEF Told
      <3> HIDE DEF m
      <3> QED
        BY <1>3, <1>4, <2>2, <3>1
    <2> QED
      BY <1>7, <2>1, <2>2 DEF Quiet
  <1>8. CASE Opened(n)
    BY <1>8, InNothing, InOne DEF Opened, PageIn
  <1>9. CASE Handed(n)
    <2> DEFINE m == Message("load_note", NoRequest, hostGen[n], doc[n].body)
    <2>1. m \in Messages(ToPageTypes) /\ Told(n, m)
      BY <1>1 DEF Message, Messages, ToPageTypes, Told
    <2>2. /\ toPage'[n] = Append(toPage[n], m) /\ page'[n] = page[n]
          /\ toHost[n] # <<>> /\ toHost'[n] = Tail(toHost[n])
      BY <1>9 DEF Handed, Hears
    <2> HIDE DEF m
    <2>3. In(Append(toPage[n], m)) = In(toPage[n]) \cup {m}
      BY <1>1, <2>1, InAppend
    <2> QED
      BY <1>2, <2>1, <2>2, <2>3
  <1>10. CASE Direct(n) \/ Taken(n)
    BY <1>2, <1>10 DEF Direct, Taken, Hears
  <1>11. CASE Lost(n)
    <2>1. In(toPage'[n]) \subseteq In(toPage[n])
      <3>1. PICK i \in DOMAIN toPage[n] :
               toPage'[n] = SubSeq(toPage[n], 1, i - 1) \o SubSeq(toPage[n], i + 1, Len(toPage[n]))
        BY <1>11 DEF Lost
      <3>2. In(SubSeq(toPage[n], 1, i - 1) \o SubSeq(toPage[n], i + 1, Len(toPage[n])))
                \subseteq In(toPage[n])
        BY <1>1, InWithout
      <3> QED
        BY <3>1, <3>2
    <2> QED
      BY <1>11, <2>1 DEF Lost
  <1>12. CASE Claimed(n)
    <2> DEFINE m == Message("begin_external_write", task.req, hostGen[n], {})
    <2>1. Keeps(n, <<m>>) /\ task.stage = "queued" /\ task' = [task EXCEPT !.stage = "snapshot"]
      BY <1>12 DEF Claimed
    <2>2. Told(n, m)
      BY <1>1, <2>1 DEF Told, Message, Tasks
    <2> HIDE DEF m
    <2> QED
      BY <1>3, <1>4, <2>1, <2>2
  <1>13. CASE LetGoOf(n)
    <2> DEFINE m == Message("abort_external_write", task.req, 0, {})
    <2>1. /\ Keeps(n, <<m>>)
          /\ task.stage # "idle" /\ task'.stage # "queued"
      BY <1>1, <1>13 DEF LetGoOf, IsIdle, Tasks
    <2>2. Told(n, m)
      BY <1>1, <2>1 DEF Told, Message, Tasks
    <2> HIDE DEF m
    <2> QED
      BY <1>3, <1>4, <2>1, <2>2
  <1>14. CASE Committed(n)
    <2> DEFINE m == Message("apply_external_document", task.req, hostGen[n] + 1, file'[n].body)
    <2>1. /\ Keeps(n, <<m>>)
          /\ task.stage # "idle" /\ task'.stage # "queued"
      BY <1>1, <1>14 DEF Committed, Tasks
    <2>2. Told(n, m)
      BY <1>1, <2>1 DEF Told, Message, Tasks
    <2> HIDE DEF m
    <2> QED
      BY <1>3, <1>4, <2>1, <2>2
  <1> QED
    BY <1>6, <1>7, <1>8, <1>9, <1>10, <1>11, <1>12, <1>13, <1>14 DEF HostStep

(* Requests stay told apart.                                               *)
LEMMA RequestsStep ==
    ASSUME TypeOK, TypeOK', ClaimsAccounted, ClaimsAccounted', PagesAccounted,
           RequestsToldApart, [Next]_vars
    PROVE  RequestsToldApart'
  <1> DEFINE OfAWrite == {"begin_external_write", "abort_external_write",
                          "apply_external_document"}
             Apart(n) ==
                 /\ page[n].req < nextReq
                 /\ \A m \in In(toPage[n]) \cup In(toHost[n]) : m.req < nextReq
                 /\ \A m \in In(toPage[n]) : m.type \in OfAWrite => m.req # NoRequest
                 /\ pendingWrite[n] # NoRequest => pendingWrite[n] = task.req
                 /\ task.stage = "queued" =>
                       /\ page[n].req # task.req
                       /\ \A m \in In(toPage[n]) \cup In(toHost[n]) : m.req # task.req
  <1>1. TaskMoves
    BY TasksMove
  <1>2. /\ nextReq \in Nat /\ nextReq > 0
        /\ task \in Tasks /\ task' \in Tasks
        /\ task.req \in RequestIds \cup {NoRequest}
        /\ task'.req \in RequestIds \cup {NoRequest}
        /\ \A n \in Notes : page[n].req \in RequestIds \cup {NoRequest}
        /\ RequestIds \subseteq Nat \ {0}
        /\ NoRequest = 0
    <2>1. /\ nextReq \in 1 .. MaxRequests + 1 /\ MaxRequests \in Nat
          /\ task \in Tasks /\ task' \in Tasks
          /\ page \in [Notes -> Pages]
      BY PageAssumption DEF TypeOK, WindowTypeOK, PageTypeOK
    <2>2. task.req \in RequestIds \cup {NoRequest} /\ task'.req \in RequestIds \cup {NoRequest}
      BY <2>1 DEF Tasks
    <2>3. \A n \in Notes : page[n].req \in RequestIds \cup {NoRequest}
      BY <2>1 DEF Pages
    <2>4. RequestIds \subseteq Nat \ {0} /\ NoRequest = 0 /\ nextReq \in Nat /\ nextReq > 0
      BY <2>1 DEF RequestIds, NoRequest
    <2> QED
      BY <2>1, <2>2, <2>3, <2>4
  <1>3. task'.stage # "idle" => task'.req # NoRequest /\ task'.req < nextReq'
    <2>1. task.stage # "idle" => task.req # NoRequest /\ task.req < nextReq
      BY DEF RequestsToldApart
    <2>5. task.req \in Nat
      <3>1. task.req \in RequestIds \cup {NoRequest}
        BY <1>2
      <3> QED
        BY <3>1, PageAssumption DEF RequestIds, NoRequest
    <2>6. \A r \in Nat : r < nextReq => r < nextReq'
      <3>1. nextReq' \in {nextReq, nextReq + 1}
        BY <1>1 DEF TaskMoves
      <3> QED
        BY <1>2, <3>1
    <2>2. CASE task' = task
      BY <2>1, <2>2, <2>5, <2>6
    <2>3. CASE task.stage # "idle" /\ task'.req = task.req
      BY <2>1, <2>3, <2>5, <2>6
    <2>4. CASE task'.req = nextReq /\ nextReq' = nextReq + 1
      BY <1>2, <2>4
    <2> QED
      BY <1>1, <2>2, <2>3, <2>4 DEF TaskMoves
  <1>4. ASSUME NEW n \in Notes
        PROVE  Apart(n)
    BY <1>4 DEF RequestsToldApart
  <1>5. ASSUME NEW n \in Notes
        PROVE  \A m \in In(toPage[n]) \cup In(toHost[n]) : m.req \in Nat
    <2>1. /\ In(toPage[n]) \subseteq Messages(ToPageTypes)
          /\ In(toHost[n]) \subseteq Messages(ToHostTypes)
      BY <1>5, Queues, InSeq
    <2>2. \A m \in In(toPage[n]) \cup In(toHost[n]) : m.req \in RequestIds \cup {NoRequest}
      BY <2>1 DEF Messages
    <2>3. RequestIds \cup {NoRequest} \subseteq Nat
      BY <1>2
    <2> QED
      BY <2>2, <2>3
  <1>6. ASSUME NEW n \in Notes,
               page'[n].req \in {page[n].req, NoRequest}
                   \/ \E k \in In(toPage[n]) : page'[n].req = k.req,
               \A m \in In(toHost'[n]) :
                   \/ m \in In(toHost[n])
                   \/ m.req = NoRequest
                   \/ \E k \in In(toPage[n]) : m.req = k.req,
               \A m \in In(toPage'[n]) : m \in In(toPage[n]) \/ Told(n, m),
               pendingWrite'[n] # NoRequest => pendingWrite'[n] = task'.req
        PROVE  Apart(n)'
    <2>1. \A m \in In(toPage'[n]) : m \in In(toPage[n]) \/ m.req = task.req \/ m.req = NoRequest
                                        \/ (m.req = nextReq /\ nextReq' = nextReq + 1)
      BY <1>6 DEF Told, Message
    <2>7. \A r \in Nat : r < nextReq => r < nextReq'
      BY <1>1, <1>2 DEF TaskMoves
    <2>8. 0 < nextReq'
      BY <1>1, <1>2 DEF TaskMoves
    <2>2. page'[n].req < nextReq'
      BY <1>2, <1>4, <1>5, <1>6, <2>7, <2>8
    <2>3. \A m \in In(toPage'[n]) \cup In(toHost'[n]) : m.req < nextReq'
      <3>1. \A m \in In(toHost'[n]) : m.req < nextReq'
        BY <1>2, <1>4, <1>5, <1>6, <2>7, <2>8
      <3>2. task.stage # "idle" => task.req < nextReq
        BY DEF RequestsToldApart
      <3>3. \A m \in In(toPage'[n]) : m.req < nextReq'
        <4> SUFFICES ASSUME NEW m \in In(toPage'[n])
                     PROVE  m.req < nextReq'
          OBVIOUS
        <4>1. CASE m \in In(toPage[n])
          BY <1>4, <1>5, <2>7, <4>1
        <4>2. CASE m.req = task.req /\ task.stage # "idle"
          BY <1>2, <2>7, <3>2, <4>2
        <4>3. CASE m.req = NoRequest
          BY <1>2, <2>8, <4>3
        <4>4. CASE m.req = nextReq /\ nextReq' = nextReq + 1
          BY <1>2, <4>4
        <4> QED
          BY <1>6, <4>1, <4>2, <4>3, <4>4 DEF Told, Message
      <3> QED
        BY <3>1, <3>3
    <2>4. \A m \in In(toPage'[n]) : m.type \in OfAWrite => m.req # NoRequest
      BY <1>4, <1>6 DEF RequestsToldApart, Told, Message
    <2>5. task'.stage = "queued" =>
             /\ page'[n].req # task'.req
             /\ \A m \in In(toPage'[n]) \cup In(toHost'[n]) : m.req # task'.req
      <3>1. CASE task' = task /\ task.stage = "queued"
        <4>1. /\ task.req # NoRequest
              /\ task.req < nextReq
              /\ page[n].req # task.req
              /\ \A m \in In(toPage[n]) \cup In(toHost[n]) : m.req # task.req
          BY <1>4, <3>1 DEF RequestsToldApart
        <4>2. \A m \in In(toPage'[n]) : m.req # task.req
          BY <1>2, <1>6, <3>1, <4>1 DEF Told, Message
        <4> QED
          BY <1>2, <1>6, <3>1, <4>1, <4>2
      <3>2. CASE task.stage = "idle" /\ task'.req = nextReq /\ task' # task
        <4>1. \A m \in In(toPage'[n]) : m \in In(toPage[n]) \/ m.req = NoRequest
          BY <1>6, <3>2 DEF Told, Message
        <4> QED
          BY <1>2, <1>4, <1>5, <1>6, <3>2, <4>1
      <3> QED
        BY <1>1, <3>1, <3>2 DEF TaskMoves, HeldStages
    <2> QED
      BY <1>6, <2>2, <2>3, <2>4, <2>5
  <1>7. ASSUME NEW n \in Notes, pendingWrite'[n] \in {pendingWrite[n], NoRequest}
        PROVE  pendingWrite'[n] # NoRequest => pendingWrite'[n] = task'.req
    <2> HAVE pendingWrite'[n] # NoRequest
    <2>1. task.stage = "snapshot" /\ task'.stage = "snapshot" /\ pendingWrite[n] = task.req
      BY <1>4, <1>7 DEF ClaimsAccounted
    <2> QED
      BY <1>1, <1>7, <2>1 DEF TaskMoves
  <1>8. CASE \E a \in Notes : PageStep(a)
    <2>1. PICK a \in Notes : PageStep(a)
      BY <1>8
    <2>2. OnlyPage(a)
      BY <2>1 DEF PageStep
    <2>3. ASSUME NEW n \in Notes
          PROVE  Apart(n)'
      <3>1. pendingWrite' = pendingWrite /\ task' = task
        BY <2>2 DEF OnlyPage, hostVars
      <3>2. pendingWrite'[n] # NoRequest => pendingWrite'[n] = task'.req
        BY <1>7, <3>1
      <3>3. CASE n = a
        BY <1>6, <2>1, <3>2, <3>3, PageQueues
      <3>4. CASE n # a
        BY <1>6, <2>2, <3>2, <3>4 DEF OnlyPage
      <3> QED
        BY <3>3, <3>4
    <2> QED
      BY <1>3, <2>3 DEF RequestsToldApart
  <1>9. CASE \A n \in Notes : HostStep(n)
    <2>1. ASSUME NEW n \in Notes
          PROVE  Apart(n)'
      <3>1. /\ \A m \in In(toHost'[n]) :
                 m \in In(toHost[n]) \/ m = Message("ready", NoRequest, 0, {})
            /\ \A m \in In(toPage'[n]) : m \in In(toPage[n]) \/ Told(n, m)
            /\ page'[n].req \in {page[n].req, NoRequest}
        BY <1>9, HostQueues
      <3>2. \A m \in In(toHost'[n]) : m \in In(toHost[n]) \/ m.req = NoRequest
        BY <3>1 DEF Message
      <3>3. pendingWrite'[n] # NoRequest => pendingWrite'[n] = task'.req
        <4>1. CASE pendingWrite'[n] \in {pendingWrite[n], NoRequest}
          BY <1>7, <4>1
        <4>2. CASE Claimed(n)
          BY <1>2, <4>2 DEF Claimed, Tasks
        <4> QED
          BY <1>9, <4>1, <4>2 DEF HostStep, Gone, Quiet, TaskQuiet, Opened, OpenWindow, Handed,
                                  Direct, Taken, LetGoOf, Committed, Lost
      <3> QED
        BY <1>6, <3>1, <3>2, <3>3
    <2> QED
      BY <1>3, <2>1 DEF RequestsToldApart
  <1> QED
    BY <1>8, <1>9, EveryStep

-----------------------------------------------------------------------------
(* The barrier holds.                                                      *)

(* A queue with one document at most keeps one at most.                    *)
LEMMA OneInTail ==
    ASSUME NEW T, NEW s \in Seq(T), s # <<>>, OneDocument(s)
    PROVE  /\ OneDocument(Tail(s))
           /\ IsDocument(Head(s)) => \A m \in In(Tail(s)) : ~IsDocument(m)
  <1>1. \A k \in DOMAIN Tail(s) : k + 1 \in DOMAIN s /\ Tail(s)[k] = s[k + 1] /\ k \in Nat \ {0}
    OBVIOUS
  <1>2. 1 \in DOMAIN s /\ Head(s) = s[1]
    OBVIOUS
  <1> QED
    BY <1>1, <1>2 DEF OneDocument, In

(* So it does with one more, if that is not a second one.                  *)
LEMMA OneInConcat ==
    ASSUME NEW T, NEW s \in Seq(T), NEW m, OneDocument(s),
           IsDocument(m) => \A i \in In(s) : ~IsDocument(i)
    PROVE  OneDocument(s \o <<m>>)
  <1>1. \A k \in DOMAIN (s \o <<m>>) :
            \/ k \in DOMAIN s /\ (s \o <<m>>)[k] = s[k]
            \/ k = Len(s) + 1 /\ (s \o <<m>>)[k] = m
    <2>1. s \in Seq(T \cup {m}) /\ <<m>> \in Seq(T \cup {m})
      OBVIOUS
    <2> QED
      BY <2>1
  <1>2. \A k \in DOMAIN s : s[k] \in In(s)
    BY DEF In
  <1> QED
    BY <1>1, <1>2 DEF OneDocument

(* And so it does when a message of it is lost.                            *)
LEMMA OneInWithout ==
    ASSUME NEW T, NEW s \in Seq(T), NEW i \in DOMAIN s, OneDocument(s)
    PROVE  OneDocument(SubSeq(s, 1, i - 1) \o SubSeq(s, i + 1, Len(s)))
  <1> DEFINE a == SubSeq(s, 1, i - 1)
             b == SubSeq(s, i + 1, Len(s))
  <1>1. /\ i \in Nat \ {0} /\ Len(s) \in Nat
        /\ a \in Seq(T) /\ Len(a) = i - 1
        /\ b \in Seq(T) /\ Len(b) = Len(s) - i
        /\ DOMAIN s = 1 .. Len(s)
    OBVIOUS
  <1>2. \A k \in 1 .. Len(a) : a[k] = s[k]
    OBVIOUS
  <1>3. \A k \in 1 .. Len(b) : b[k] = s[k + i]
    OBVIOUS
  <1>4. \A k \in DOMAIN (a \o b) :
            (a \o b)[k] = s[IF k <= i - 1 THEN k ELSE k + 1]
              /\ (IF k <= i - 1 THEN k ELSE k + 1) \in DOMAIN s /\ k \in Nat
    <2> HIDE DEF a, b
    <2> SUFFICES ASSUME NEW k \in DOMAIN (a \o b)
                 PROVE  /\ (a \o b)[k] = s[IF k <= i - 1 THEN k ELSE k + 1]
                        /\ (IF k <= i - 1 THEN k ELSE k + 1) \in DOMAIN s
                        /\ k \in Nat
      OBVIOUS
    <2>1. k \in 1 .. Len(a) + Len(b)
      BY <1>1
    <2>2. CASE k <= i - 1
      <3>1. (a \o b)[k] = a[k]
        BY <1>1, <2>1, <2>2
      <3> QED
        BY <1>1, <1>2, <2>1, <2>2, <3>1
    <2>3. CASE k > i - 1
      <3>1. (a \o b)[k] = b[k - Len(a)]
        BY <1>1, <2>1, <2>3
      <3>2. k - Len(a) \in 1 .. Len(b) /\ k - Len(a) + i = k + 1
        BY <1>1, <2>1, <2>3
      <3>3. (a \o b)[k] = s[k + 1]
        BY <1>3, <3>1, <3>2
      <3> QED
        BY <1>1, <2>1, <2>3, <3>3
    <2> QED
      BY <1>1, <2>1, <2>2, <2>3
  <1> HIDE DEF a, b
  <1>5. \A k, l \in DOMAIN (a \o b) :
            IsDocument((a \o b)[k]) /\ IsDocument((a \o b)[l]) =>
                (IF k <= i - 1 THEN k ELSE k + 1) = (IF l <= i - 1 THEN l ELSE l + 1)
    BY <1>4 DEF OneDocument
  <1>6. OneDocument(a \o b)
    BY <1>1, <1>4, <1>5 DEF OneDocument
  <1> QED
    BY <1>6 DEF a, b

(* The close that was held back, sent from a page on generation gen that   *)
(* had text when it was released.                                          *)
ClosedWith(n, gen, text, m) ==
    /\ m.type = "save_and_close"
    /\ m.req = NoRequest
    /\ m.gen = gen
    /\ text \subseteq m.text
    /\ m.text \subseteq text \cup Inserted(page[n].queue)

(* What a page that is released says.                                      *)
LEMMA ReleasesSays ==
    ASSUME TypeOK, NEW n \in Notes, NEW gen, NEW text,
           NEW answer \in Seq(Messages(ToHostTypes)), Releases(n, gen, text, answer)
    PROVE  \A m \in In(toHost'[n]) :
               m \in In(toHost[n]) \/ m \in In(answer) \/ ClosedWith(n, gen, text, m)
  <1>1. PICK close \in Seq(Messages(ToHostTypes)) :
           /\ toHost'[n] = toHost[n] \o (close \o answer)
           /\ \/ close = <<>>
              \/ \E m \in Messages(ToHostTypes) : close = <<m>> /\ ClosedWith(n, gen, text, m)
    BY DEF Releases, ClosedWith
  <1>2. \A s, t \in Seq(Messages(ToHostTypes)) : In(s \o t) = In(s) \cup In(t)
    BY InConcat
  <1>3. close \o answer \in Seq(Messages(ToHostTypes)) /\ toHost[n] \in Seq(Messages(ToHostTypes))
    BY <1>1, Queues
  <1>4. In(toHost'[n]) = In(toHost[n]) \cup In(close) \cup In(answer)
    <2>1. In(close \o answer) = In(close) \cup In(answer)
      BY <1>2
    <2>2. In(toHost[n] \o (close \o answer)) = In(toHost[n]) \cup In(close \o answer)
      BY <1>2, <1>3
    <2> QED
      BY <1>1, <2>1, <2>2
  <1>5. \A m \in In(close) : ClosedWith(n, gen, text, m)
    BY <1>1, InNothing, InOne
  <1> QED
    BY <1>4, <1>5

(* What a page says in a step of its own, and what it takes.               *)
LEMMA PageSays ==
    ASSUME TypeOK, NEW n \in Notes, PageStep(n)
    PROVE  /\ In(toPage'[n]) \subseteq In(toPage[n])
           /\ Acts(n) => \A m \in In(toHost'[n]) : m \in In(toHost[n]) \/ MaySay(n, m)
           /\ Freezes(n) => \A m \in In(toHost'[n]) :
                 \/ m \in In(toHost[n])
                 \/ m = Message("external_write_ready", Head(toPage[n]).req, page[n].gen,
                                page[n].text)
           /\ Sticks(n) => \A m \in In(toHost'[n]) :
                 \/ m \in In(toHost[n])
                 \/ m = Message("external_write_apply_failed", Head(toPage[n]).req, 0, {})
           /\ Adopts(n) => \A m \in In(toHost'[n]) :
                 \/ m \in In(toHost[n])
                 \/ m = Message("external_write_applied", Head(toPage[n]).req,
                                Head(toPage[n]).gen, {})
                 \/ ClosedWith(n, Head(toPage[n]).gen, Head(toPage[n]).text, m)
           /\ Frees(n) => \A m \in In(toHost'[n]) :
                 m \in In(toHost[n]) \/ ClosedWith(n, page[n].gen, page[n].text, m)
  <1>1. /\ page[n] \in Pages
        /\ toHost[n] \in Seq(Messages(ToHostTypes))
    BY DEF TypeOK, WindowTypeOK, PageTypeOK
  <1>2. toPage[n] # <<>> =>
            /\ In(Tail(toPage[n])) \subseteq In(toPage[n])
            /\ Head(toPage[n]) \in Messages(ToPageTypes)
    BY Queues
  <1>3. In(toPage'[n]) \subseteq In(toPage[n])
    BY PageQueues
  <1>4. \A m \in Messages(ToHostTypes) : In(Append(toHost[n], m)) = In(toHost[n]) \cup {m}
    BY <1>1, InAppend
  <1>5. ASSUME Acts(n)
        PROVE  \A m \in In(toHost'[n]) : m \in In(toHost[n]) \/ MaySay(n, m)
    BY <1>4, <1>5 DEF Acts, MaySay
  <1>7. ASSUME Freezes(n)
        PROVE  \A m \in In(toHost'[n]) :
                   \/ m \in In(toHost[n])
                   \/ m = Message("external_write_ready", Head(toPage[n]).req, page[n].gen,
                                  page[n].text)
    <2> DEFINE m == Message("external_write_ready", Head(toPage[n]).req, page[n].gen, page[n].text)
    <2>1. m \in Messages(ToHostTypes)
      BY <1>1, <1>2, <1>7 DEF Freezes, Takes, Message, Messages, Pages, ToHostTypes
    <2>2. toHost'[n] = Append(toHost[n], m)
      BY <1>7 DEF Freezes
    <2> HIDE DEF m
    <2>3. \A i \in In(toHost'[n]) : i \in In(toHost[n]) \/ i = m
      BY <1>4, <2>1, <2>2
    <2> QED
      BY <2>3 DEF m
  <1>8. ASSUME Sticks(n)
        PROVE  \A m \in In(toHost'[n]) :
                   \/ m \in In(toHost[n])
                   \/ m = Message("external_write_apply_failed", Head(toPage[n]).req, 0, {})
    <2> DEFINE m == Message("external_write_apply_failed", Head(toPage[n]).req, 0, {})
    <2>1. m \in Messages(ToHostTypes)
      BY <1>1, <1>2, <1>8 DEF Sticks, Takes, Message, Messages, Bodies, ToHostTypes
    <2>2. toHost'[n] = Append(toHost[n], m)
      BY <1>8 DEF Sticks
    <2> HIDE DEF m
    <2>3. \A i \in In(toHost'[n]) : i \in In(toHost[n]) \/ i = m
      BY <1>4, <2>1, <2>2
    <2> QED
      BY <2>3 DEF m
  <1>9. ASSUME Adopts(n)
        PROVE  \A m \in In(toHost'[n]) :
                   \/ m \in In(toHost[n])
                   \/ m = Message("external_write_applied", Head(toPage[n]).req,
                                  Head(toPage[n]).gen, {})
                   \/ ClosedWith(n, Head(toPage[n]).gen, Head(toPage[n]).text, m)
    <2> DEFINE m == Message("external_write_applied", Head(toPage[n]).req, Head(toPage[n]).gen, {})
    <2>1. m \in Messages(ToHostTypes)
      BY <1>1, <1>2, <1>9 DEF Adopts, Takes, Message, Messages, Bodies, ToHostTypes
    <2>2. Releases(n, Head(toPage[n]).gen, Head(toPage[n]).text, <<m>>)
      BY <1>9 DEF Adopts
    <2> HIDE DEF m
    <2>3. <<m>> \in Seq(Messages(ToHostTypes)) /\ In(<<m>>) = {m}
      BY <2>1, InOne
    <2>4. \A i \in In(toHost'[n]) :
              \/ i \in In(toHost[n])
              \/ i = m
              \/ ClosedWith(n, Head(toPage[n]).gen, Head(toPage[n]).text, i)
      BY <2>2, <2>3, ReleasesSays
    <2> QED
      BY <2>4 DEF m
  <1>10. ASSUME Frees(n)
         PROVE  \A m \in In(toHost'[n]) :
                    m \in In(toHost[n]) \/ ClosedWith(n, page[n].gen, page[n].text, m)
    <2>1. Releases(n, page[n].gen, page[n].text, <<>>)
      BY <1>10 DEF Frees
    <2>2. <<>> \in Seq(Messages(ToHostTypes)) /\ In(<<>>) = {}
      BY InNothing
    <2> QED
      BY <2>1, <2>2, ReleasesSays
  <1> QED
    BY <1>3, <1>5, <1>7, <1>8, <1>9, <1>10

(* A page is given a document only when nobody waits for its snapshot.     *)
LEMMA DocumentExpected ==
    ASSUME TypeOK, ClaimsAccounted, RequestsToldApart, NEW n \in Notes, Barrier(n),
           NEW m \in In(toPage[n]), m.type = "apply_external_document"
    PROVE  /\ Frozen(n, m.req)
           /\ m.gen = hostGen[n]
           /\ page[n].gen # hostGen[n]
           /\ ~Aborts(n, page[n].req)
           /\ Pending => task.req # page[n].req
           /\ pendingWrite[n] # NoRequest => pendingWrite[n] # page[n].req
           /\ ~(task.note = n /\ task.stage = "resumed" /\ task.ok)
  <1>1. /\ Frozen(n, m.req)
        /\ m.gen = hostGen[n]
        /\ page[n].gen # hostGen[n]
    BY DEF Barrier, DocumentsAwaited
  <1>2. PastAborting(n, page[n].req)
    BY <1>1 DEF Barrier, PageGeneration, Frozen
  <1>3. pendingWrite[n] # NoRequest => Pending /\ pendingWrite[n] = task.req
    BY DEF ClaimsAccounted, RequestsToldApart, Pending
  <1>4. task.note = n /\ task.stage = "resumed" /\ task.ok => Pending /\ Frozen(n, task.req)
    BY DEF Barrier, SnapshotsHold, Pending
  <1> QED
    BY <1>1, <1>2, <1>3, <1>4 DEF PastAborting, Frozen

(* A page is let go of only when it is on the generation of the host, and  *)
(* nobody waits for its snapshot either.                                   *)
LEMMA AbortExpected ==
    ASSUME TypeOK, ClaimsAccounted, PagesAccounted, RequestsToldApart, NEW n \in Notes,
           Barrier(n), page[n].phase # "unsynchronised",
           NEW m \in In(toPage[n]), m.type = "abort_external_write", m.req = page[n].req
    PROVE  /\ page[n].phase \in {"syncing", "slow"}
           /\ page[n].gen = hostGen[n]
           /\ \A i \in In(toPage[n]) : ~IsDocument(i)
           /\ pendingWrite[n] # NoRequest => pendingWrite[n] # page[n].req
           /\ ~(task.note = n /\ task.stage = "snapshot" /\ task.req = page[n].req)
           /\ ~(task.note = n /\ task.stage = "resumed" /\ task.ok)
  <1>1. m.req # NoRequest
    BY DEF RequestsToldApart
  <1>2. page[n].phase \in Phases
    BY DEF TypeOK, WindowTypeOK, PageTypeOK, Pages
  <1>3. page[n].phase # "absent"
    BY InNothing DEF PagesAccounted
  <1>4. page[n].phase \in {"syncing", "slow"}
    BY <1>1, <1>2, <1>3 DEF Barrier, LoadingPage, PageGeneration, Phases
  <1>5. Aborts(n, page[n].req)
    BY DEF Aborts
  <1>6. page[n].gen = hostGen[n]
    BY <1>4, <1>5 DEF Barrier, PageGeneration, PastAborting
  <1>7. \A i \in In(toPage[n]) : ~IsDocument(i)
    BY <1>4, <1>6 DEF Barrier, DocumentsAwaited, IsDocument
  <1>8. task.note = n /\ task.stage = "snapshot" => ~Aborts(n, task.req)
    BY DEF Barrier, SnapshotsHold
  <1>9. task.note = n /\ task.stage = "resumed" /\ task.ok =>
            ~Aborts(n, task.req) /\ Frozen(n, task.req)
    BY DEF Barrier, SnapshotsHold
  <1>10. pendingWrite[n] # NoRequest =>
            task.note = n /\ task.stage = "snapshot" /\ pendingWrite[n] = task.req
    BY DEF ClaimsAccounted, RequestsToldApart
  <1> QED
    BY <1>4, <1>5, <1>6, <1>7, <1>8, <1>9, <1>10 DEF Frozen

(* A step of a page keeps its barrier.                                     *)
LEMMA BarrierPage ==
    ASSUME TypeOK, ClaimsAccounted, PagesAccounted, RequestsToldApart, NEW n \in Notes,
           Barrier(n), PageStep(n)
    PROVE  Barrier(n)'
  <1>1. /\ page[n] \in Pages
        /\ page[n].phase \in Phases
        /\ page[n].gen \in Nat
        /\ hostGen[n] \in Nat
        /\ toPage[n] \in Seq(Messages(ToPageTypes))
        /\ toHost[n] \in Seq(Messages(ToHostTypes))
    BY DEF TypeOK, WindowTypeOK, PageTypeOK, Pages
  <1>2. UNCHANGED <<win, doc, hostGen, task, pendingWrite>>
    BY DEF PageStep, OnlyPage, hostVars
  <1>3. /\ LoadingPage(n) /\ DocumentsAwaited(n) /\ PageGeneration(n) /\ SnapshotsHold(n)
    BY DEF Barrier
  <1>4. In(toPage'[n]) \subseteq In(toPage[n])
    BY PageSays
  <1>5. toPage[n] # <<>> =>
            /\ Head(toPage[n]) \in In(toPage[n])
            /\ OneDocument(Tail(toPage[n]))
            /\ IsDocument(Head(toPage[n])) => \A m \in In(Tail(toPage[n])) : ~IsDocument(m)
    BY <1>1, <1>3, Queues, OneInTail DEF DocumentsAwaited
  <1>6. OneDocument(toPage'[n])
    <2>1. toPage'[n] = toPage[n] \/ (toPage[n] # <<>> /\ toPage'[n] = Tail(toPage[n]))
      BY DEF PageStep, Acts, Loads, Freezes, Sticks, Adopts, Frees, Takes
    <2> QED
      BY <1>3, <1>5, <2>1 DEF DocumentsAwaited
  <1>7. \A req : Aborts(n, req)' => Aborts(n, req)
    BY <1>4 DEF Aborts
  <1>8. CASE Acts(n)
    <2>1. /\ \/ page'[n].phase = page[n].phase
             \/ page[n].phase = "syncing" /\ page'[n].phase = "slow"
          /\ page'[n].req = page[n].req
          /\ page'[n].gen = page[n].gen
          /\ page[n].phase # "idle" => page'[n].text = page[n].text
      BY <1>8 DEF Acts
    <2>2. \A req : Frozen(n, req) => Frozen(n, req)' /\ page'[n].text = page[n].text
      BY <2>1 DEF Frozen
    <2>3. page[n].phase = "loading" => ~\E m : MaySay(n, m)
      BY <1>3, <1>5 DEF MaySay, Holds, DocumentsAwaited, Frozen
    <2>4. toHost'[n] = toHost[n] \/ \E m : MaySay(n, m) /\ toHost'[n] = Append(toHost[n], m)
      BY <1>8 DEF Acts
    <2>5. \A m \in In(toHost'[n]) : m \in In(toHost[n]) \/ MaySay(n, m)
      BY <1>8, PageSays
    <2>6. LoadingPage(n)'
      BY <1>2, <1>3, <1>4, <2>1, <2>3, <2>4, <2>5 DEF LoadingPage, MaySay, HeldByTask
    <2>7. DocumentsAwaited(n)'
      BY <1>2, <1>3, <1>4, <1>6, <2>1, <2>2 DEF DocumentsAwaited
    <2>8. PageGeneration(n)'
      <3>1. \A m : MaySay(n, m) => m.gen <= hostGen[n]
        BY <1>1, <1>3 DEF MaySay, PageGeneration, Saves
      <3> QED
        BY <1>2, <1>3, <1>7, <2>1, <2>5, <3>1 DEF PageGeneration, Holds, PastAborting, Pending
    <2>9. SnapshotsHold(n)'
      BY <1>2, <1>3, <1>7, <2>1, <2>2, <2>5 DEF SnapshotsHold, MaySay
    <2> QED
      BY <2>6, <2>7, <2>8, <2>9 DEF Barrier
  <1> DEFINE h == Head(toPage[n])
  <1>9. CASE Loads(n)
    <2>1. /\ h \in In(toPage[n]) /\ h.type = "load_note"
          /\ \A m \in In(toPage'[n]) : ~IsDocument(m)
          /\ toHost'[n] = toHost[n]
          /\ page'[n].phase = "idle" /\ page'[n].req = NoRequest /\ page'[n].gen = h.gen
      BY <1>5, <1>9 DEF Loads, Takes, IsDocument
    <2> HIDE DEF h
    <2>2. page[n].phase = "loading" /\ h.gen = hostGen[n]
      BY <1>3, <2>1 DEF DocumentsAwaited
    <2>3. win[n] # "loading"
      BY <1>3, <2>1 DEF LoadingPage
    <2>4. LoadingPage(n)'
      BY <1>2, <1>3, <2>1, <2>3 DEF LoadingPage
    <2>5. DocumentsAwaited(n)'
      BY <1>6, <2>1 DEF DocumentsAwaited, IsDocument
    <2>6. PageGeneration(n)'
      BY <1>1, <1>2, <1>3, <2>1, <2>2 DEF PageGeneration
    <2>7. SnapshotsHold(n)'
      BY <1>2, <1>3, <1>7, <2>1, <2>2 DEF SnapshotsHold, Frozen
    <2> QED
      BY <2>4, <2>5, <2>6, <2>7 DEF Barrier
  <1>10. CASE Freezes(n)
    <2> DEFINE r == Message("external_write_ready", h.req, page[n].gen, page[n].text)
    <2>1. /\ h \in In(toPage[n]) /\ h.type = "begin_external_write"
          /\ page[n].phase = "idle"
          /\ page'[n].phase = "syncing" /\ page'[n].req = h.req /\ page'[n].gen = page[n].gen
          /\ page'[n].text = page[n].text
          /\ \A m \in In(toHost'[n]) : m \in In(toHost[n]) \/ m = r
      BY <1>5, <1>10, PageSays DEF Freezes, Takes
    <2>2. h.req # NoRequest
      BY <2>1 DEF RequestsToldApart
    <2>3. /\ r.type = "external_write_ready" /\ r.req = h.req
          /\ r.gen = page[n].gen /\ r.text = page[n].text
      BY DEF Message
    <2> HIDE DEF h, r
    <2>4. page[n].gen = hostGen[n]
      BY <1>3, <2>1 DEF PageGeneration
    <2>5. LoadingPage(n)'
      BY <1>2, <1>3, <2>1, <2>3 DEF LoadingPage
    <2>6. DocumentsAwaited(n)'
      BY <1>2, <1>3, <1>4, <1>6, <2>1 DEF DocumentsAwaited, Frozen
    <2>7. PageGeneration(n)'
      BY <1>1, <1>2, <1>3, <2>1, <2>2, <2>3, <2>4 DEF PageGeneration
    <2>8. SnapshotsHold(n)'
      BY <1>2, <1>3, <1>7, <2>1, <2>3 DEF SnapshotsHold, Frozen
    <2> QED
      BY <2>5, <2>6, <2>7, <2>8 DEF Barrier
  <1>11. CASE Sticks(n) \/ Adopts(n)
    <2>1. /\ h \in In(toPage[n]) /\ h.type = "apply_external_document" /\ page[n].req = h.req
          /\ \A m \in In(toPage'[n]) : ~IsDocument(m)
      BY <1>5, <1>11 DEF Sticks, Adopts, Takes, IsDocument
    <2>2. /\ Frozen(n, h.req)
          /\ h.gen = hostGen[n]
          /\ page[n].gen # hostGen[n]
          /\ pendingWrite[n] # NoRequest => pendingWrite[n] # page[n].req
          /\ ~(task.note = n /\ task.stage = "resumed" /\ task.ok)
      BY <2>1, DocumentExpected
    <2>3. h.req # NoRequest
      BY <2>1 DEF RequestsToldApart
    <2>4. \A m \in In(toHost'[n]) :
              \/ m \in In(toHost[n])
              \/ m.type \notin {"ready", "external_write_ready"} /\ m.gen <= hostGen[n]
      <3>1. CASE Sticks(n)
        <4>1. \A m \in In(toHost'[n]) : m \in In(toHost[n])
                  \/ m = Message("external_write_apply_failed", h.req, 0, {})
          BY <3>1, PageSays
        <4> QED
          BY <1>1, <4>1 DEF Message
      <3>2. CASE Adopts(n)
        <4>1. \A m \in In(toHost'[n]) : m \in In(toHost[n])
                  \/ m = Message("external_write_applied", h.req, h.gen, {})
                  \/ ClosedWith(n, h.gen, h.text, m)
          BY <3>2, PageSays
        <4> QED
          BY <1>1, <2>2, <4>1 DEF Message, ClosedWith
      <3> QED
        BY <1>11, <3>1, <3>2
    <2>5. /\ page[n].phase \in {"syncing", "slow"}
          /\ \/ /\ page'[n].phase = "unsynchronised"
                /\ page'[n].req = page[n].req /\ page'[n].gen = page[n].gen
             \/ /\ page'[n].phase = "idle"
                /\ page'[n].req = NoRequest /\ page'[n].gen = h.gen
      BY <1>11, <2>2 DEF Sticks, Adopts, Releases, Frozen
    <2> HIDE DEF h
    <2>6. LoadingPage(n)'
      BY <1>2, <1>3, <2>4, <2>5 DEF LoadingPage
    <2>7. DocumentsAwaited(n)'
      BY <1>6, <2>1 DEF DocumentsAwaited, IsDocument
    <2>8. PageGeneration(n)'
      BY <1>1, <1>2, <1>3, <2>1, <2>2, <2>3, <2>4, <2>5 DEF PageGeneration, Holds
    <2>9. SnapshotsHold(n)'
      BY <1>2, <1>3, <1>7, <2>1, <2>2, <2>4 DEF SnapshotsHold, Frozen
    <2> QED
      BY <2>6, <2>7, <2>8, <2>9 DEF Barrier
  <1>12. CASE Frees(n)
    <2>1. /\ h \in In(toPage[n]) /\ h.type = "abort_external_write" /\ page[n].req = h.req
          /\ page[n].phase # "unsynchronised"
          /\ page'[n].phase = "idle" /\ page'[n].req = NoRequest /\ page'[n].gen = page[n].gen
      BY <1>5, <1>12 DEF Frees, Takes, Releases
    <2>2. /\ page[n].phase \in {"syncing", "slow"}
          /\ page[n].gen = hostGen[n]
          /\ \A i \in In(toPage[n]) : ~IsDocument(i)
          /\ pendingWrite[n] # NoRequest => pendingWrite[n] # page[n].req
          /\ ~(task.note = n /\ task.stage = "resumed" /\ task.ok)
      BY <2>1, AbortExpected
    <2>3. \A m \in In(toHost'[n]) :
              m \in In(toHost[n]) \/ ClosedWith(n, page[n].gen, page[n].text, m)
      BY <1>12, PageSays
    <2> HIDE DEF h
    <2>4. LoadingPage(n)'
      BY <1>2, <1>3, <2>1, <2>2, <2>3 DEF LoadingPage, ClosedWith
    <2>5. DocumentsAwaited(n)'
      BY <1>4, <1>6, <2>2 DEF DocumentsAwaited, IsDocument
    <2>6. PageGeneration(n)'
      BY <1>1, <1>2, <1>3, <2>1, <2>2, <2>3 DEF PageGeneration, ClosedWith
    <2>7. SnapshotsHold(n)'
      BY <1>2, <1>3, <1>7, <2>1, <2>2, <2>3 DEF SnapshotsHold, Frozen, ClosedWith
    <2> QED
      BY <2>4, <2>5, <2>6, <2>7 DEF Barrier
  <1> QED
    BY <1>8, <1>9, <1>10, <1>11, <1>12 DEF PageStep

(* What a page that is told one thing then has to hear.                    *)
LEMMA KeepsSays ==
    ASSUME TypeOK, NEW n \in Notes, NEW m, Keeps(n, <<m>>)
    PROVE  /\ In(toPage'[n]) = In(toPage[n]) \cup {m}
           /\ OneDocument(toPage[n]) /\ (IsDocument(m) => \A i \in In(toPage[n]) : ~IsDocument(i))
                  => OneDocument(toPage'[n])
  <1>1. toPage[n] \in Seq(Messages(ToPageTypes)) /\ toPage'[n] = toPage[n] \o <<m>>
    BY DEF Keeps, TypeOK, WindowTypeOK, PageTypeOK
  <1>2. {toPage[n], <<m>>} \subseteq Seq(Messages(ToPageTypes) \cup {m})
    BY <1>1
  <1>3. \A s, t \in Seq(Messages(ToPageTypes) \cup {m}) : In(s \o t) = In(s) \cup In(t)
    BY InConcat
  <1>4. In(toPage[n] \o <<m>>) = In(toPage[n]) \cup {m}
    BY <1>2, <1>3, InOne
  <1>5. OneDocument(toPage[n]) /\ (IsDocument(m) => \A i \in In(toPage[n]) : ~IsDocument(i))
            => OneDocument(toPage[n] \o <<m>>)
    BY <1>1, OneInConcat
  <1> QED
    BY <1>1, <1>4, <1>5

(* A step of the host keeps the barrier of a page.                         *)
LEMMA BarrierHost ==
    ASSUME TypeOK, TypeOK', ClaimsAccounted, ClaimsAccounted', PagesAccounted,
           RequestsToldApart, TaskMoves, NEW n \in Notes, Barrier(n), HostStep(n)
    PROVE  Barrier(n)'
  <1>1. /\ page[n] \in Pages
        /\ page[n].phase \in Phases
        /\ page[n].gen \in Nat
        /\ hostGen[n] \in Nat
        /\ toPage[n] \in Seq(Messages(ToPageTypes))
        /\ toHost[n] \in Seq(Messages(ToHostTypes))
        /\ task \in Tasks
    BY DEF TypeOK, WindowTypeOK, PageTypeOK, Pages
  <1>2. /\ LoadingPage(n) /\ DocumentsAwaited(n) /\ PageGeneration(n) /\ SnapshotsHold(n)
    BY DEF Barrier
  <1>3. \A req : page[n].req < nextReq
    BY DEF RequestsToldApart
  <1>4. \A m \in In(toHost[n]) : m.gen \in Nat
    <2>1. In(toHost[n]) \subseteq Messages(ToHostTypes)
      BY <1>1, InSeq
    <2> QED
      BY <2>1 DEF Messages
  <1>5. toHost[n] # <<>> =>
            In(Tail(toHost[n])) \subseteq In(toHost[n]) /\ Head(toHost[n]) \in In(toHost[n])
    BY Queues
  <1>6. ASSUME NEW told, Keeps(n, told)
        PROVE  /\ page'[n] = page[n]
               /\ In(toHost'[n]) \subseteq In(toHost[n])
    BY <1>5, <1>6 DEF Keeps
  <1>7. Keeps(n, <<>>) => toPage'[n] = toPage[n]
    BY <1>1 DEF Keeps
  <1>8. win[n] = "loading" => toHost[n] # <<>> /\ Head(toHost[n]).type = "ready"
    BY <1>2 DEF LoadingPage, Message
  <1>9. CASE Gone(n)
    <2>1. /\ page'[n].phase = "absent" /\ page'[n].req = NoRequest
          /\ In(toPage'[n]) = {} /\ In(toHost'[n]) = {} /\ toPage'[n] = <<>>
          /\ win'[n] = "none"
          /\ ~(task'.note = n /\ task'.stage \in HeldStages)
      BY <1>9, InNothing DEF Gone, PageIn, HeldByTask
    <2> QED
      BY <2>1 DEF Barrier, LoadingPage, DocumentsAwaited, OneDocument, PageGeneration,
                  SnapshotsHold, Holds, HeldStages
  <1>10. CASE Opened(n)
    <2>1. /\ page'[n] = PageIn("loading") /\ toPage'[n] = <<>> /\ hostGen'[n] = 0
          /\ toHost'[n] = <<Message("ready", NoRequest, 0, {})>>
          /\ win'[n] = "loading" /\ task' = task /\ page[n].phase = "absent"
      BY <1>10 DEF Opened, OpenWindow
    <2>2. /\ In(toPage'[n]) = {} /\ In(toHost'[n]) = {Message("ready", NoRequest, 0, {})}
          /\ page'[n].phase = "loading" /\ page'[n].req = NoRequest
      BY <2>1, InNothing, InOne DEF PageIn
    <2>3. ~HeldByTask(n) /\ ~HeldByTask(n)'
      BY <2>1 DEF PagesAccounted, HeldByTask
    <2>4. LoadingPage(n)'
      BY <2>1, <2>2, <2>3 DEF LoadingPage
    <2>5. DocumentsAwaited(n)'
      BY <2>1, <2>2 DEF DocumentsAwaited, OneDocument
    <2>6. PageGeneration(n)'
      <3>1. \A m \in In(toHost'[n]) : m.gen = 0
        BY <2>2 DEF Message
      <3> QED
        BY <2>1, <2>2, <3>1 DEF PageGeneration, Holds
    <2>7. SnapshotsHold(n)'
      BY <2>2, <2>3 DEF SnapshotsHold, HeldByTask, HeldStages, Message
    <2> QED
      BY <2>4, <2>5, <2>6, <2>7 DEF Barrier
  <1>11. CASE Handed(n)
    <2> DEFINE m == Message("load_note", NoRequest, hostGen[n], doc[n].body)
    <2>1. /\ toHost[n] # <<>> /\ Head(toHost[n]).type = "ready"
          /\ page'[n] = page[n] /\ toHost'[n] = Tail(toHost[n])
          /\ toPage'[n] = toPage[n] \o <<m>>
          /\ win'[n] = "loaded" /\ hostGen'[n] = hostGen[n] /\ doc'[n] = doc[n] /\ task' = task
          /\ pendingWrite'[n] = pendingWrite[n]
      <3>1. m \in Messages(ToPageTypes)
        BY <1>1 DEF Message, Messages, ToPageTypes, TypeOK, WindowTypeOK, Documents, NoRequest
      <3>2. toPage'[n] = Append(toPage[n], m)
        BY <1>11 DEF Handed
      <3> HIDE DEF m
      <3>3. toPage'[n] = toPage[n] \o <<m>>
        BY <1>1, <3>1, <3>2
      <3> QED
        BY <1>11, <3>3 DEF Handed, Hears
    <2>2. m.type = "load_note" /\ m.gen = hostGen[n] /\ m.text = doc[n].body
      BY DEF Message
    <2> HIDE DEF m
    <2>3. win[n] = "loading"
      BY <1>2, <1>5, <2>1 DEF LoadingPage
    <2>4. /\ page[n].phase = "loading" /\ page[n].req = NoRequest /\ ~HeldByTask(n)
          /\ toHost'[n] = <<>> /\ \A i \in In(toPage[n]) : i.type = "request_flush"
      <3>1. toHost[n] = <<Message("ready", NoRequest, 0, {})>>
        BY <1>2, <2>3 DEF LoadingPage
      <3>2. \A i : Tail(<<i>>) = <<>>
        OBVIOUS
      <3> QED
        BY <1>2, <2>1, <2>3, <3>1, <3>2 DEF LoadingPage
    <2>5. In(toHost'[n]) = {}
      BY <2>4, InNothing
    <2>6. /\ In(toPage'[n]) = In(toPage[n]) \cup {m}
          /\ OneDocument(toPage'[n])
      <3>1. OneDocument(toPage[n])
        BY <1>2 DEF DocumentsAwaited
      <3>2. \A i \in In(toPage[n]) : ~IsDocument(i)
        BY <2>4 DEF IsDocument
      <3>4. OneDocument(toPage[n] \o <<m>>)
        BY <1>1, <3>1, <3>2, OneInConcat
      <3>5. \A s, t \in Seq(Messages(ToPageTypes) \cup {m}) : In(s \o t) = In(s) \cup In(t)
        BY InConcat
      <3>6. {toPage[n], <<m>>} \subseteq Seq(Messages(ToPageTypes) \cup {m})
        BY <1>1
      <3>7. In(toPage[n] \o <<m>>) = In(toPage[n]) \cup {m}
        BY <3>5, <3>6, InOne
      <3> QED
        BY <2>1, <3>4, <3>7
    <2>7. LoadingPage(n)'
      BY <2>1, <2>4, <2>5 DEF LoadingPage
    <2>8. DocumentsAwaited(n)'
      BY <2>1, <2>2, <2>4, <2>6 DEF DocumentsAwaited
    <2>9. PageGeneration(n)'
      BY <2>1, <2>4, <2>5 DEF PageGeneration, Holds
    <2>10. SnapshotsHold(n)'
      BY <2>1, <2>4, <2>5 DEF SnapshotsHold, HeldByTask, HeldStages
    <2> QED
      BY <2>7, <2>8, <2>9, <2>10 DEF Barrier
  <1>12. CASE Direct(n)
    <2>1. /\ task.note = n /\ task.stage = "queued" /\ task'.stage = "idle"
          /\ win[n] # "loaded"
          /\ page'[n] = page[n] /\ toHost'[n] = toHost[n] /\ toPage'[n] = toPage[n]
          /\ win'[n] = win[n] /\ pendingWrite'[n] = pendingWrite[n]
          /\ hostGen'[n] = IF win[n] = "loading" THEN hostGen[n] + 1 ELSE hostGen[n]
          /\ win[n] # "loading" => doc'[n].body = doc[n].body
      BY <1>12 DEF Direct, IsIdle
    <2>2. ~HeldByTask(n) /\ ~HeldByTask(n)' /\ pendingWrite[n] = NoRequest
      BY <2>1 DEF HeldByTask, HeldStages, ClaimsAccounted
    <2>3. LoadingPage(n)'
      BY <1>2, <2>1, <2>2 DEF LoadingPage
    <2>4. DocumentsAwaited(n)'
      BY <1>2, <2>1 DEF DocumentsAwaited, LoadingPage, Frozen
    <2>5. PageGeneration(n)'
      <3>1. CASE win[n] = "loading"
        <4>1. page[n].phase = "loading" /\ hostGen'[n] = hostGen[n] + 1
          BY <1>2, <2>1, <3>1 DEF LoadingPage
        <4> QED
          BY <1>1, <1>2, <1>4, <2>1, <4>1 DEF PageGeneration, Holds
      <3>2. CASE win[n] # "loading"
        BY <1>2, <2>1, <3>2 DEF PageGeneration, Holds, PastAborting, Aborts, Pending
      <3> QED
        BY <3>1, <3>2
    <2>6. SnapshotsHold(n)'
      BY <1>2, <2>1, <2>2 DEF SnapshotsHold
    <2> QED
      BY <2>3, <2>4, <2>5, <2>6 DEF Barrier
  <1>13. CASE Taken(n)
    <2> DEFINE h == Head(toHost[n])
    <2>1. /\ toHost[n] # <<>> /\ h \in In(toHost[n]) /\ h.type = "external_write_ready"
          /\ pendingWrite[n] # NoRequest /\ pendingWrite[n] = h.req
          /\ pendingWrite'[n] = NoRequest
          /\ task' = [task EXCEPT !.stage = "resumed", !.text = h.text, !.ok = TRUE]
          /\ page'[n] = page[n] /\ toPage'[n] = toPage[n]
          /\ In(toHost'[n]) \subseteq In(toHost[n])
          /\ UNCHANGED <<win, hostGen, doc>>
      BY <1>5, <1>13 DEF Taken, Hears
    <2>2. task'.stage = "resumed" /\ task'.text = h.text /\ task'.ok /\ task'.req = task.req
          /\ task'.note = task.note
      BY <1>1, <2>1 DEF Tasks
    <2>3. task.note = n /\ task.stage = "snapshot" /\ h.req = task.req
      BY <2>1 DEF ClaimsAccounted, RequestsToldApart
    <2> HIDE DEF h
    <2>4. Frozen(n, h.req) /\ page[n].text = h.text /\ ~Aborts(n, task.req)
      BY <1>2, <2>1, <2>3 DEF SnapshotsHold
    <2>5. page[n].phase # "loading" /\ win[n] # "loading"
      BY <1>2, <2>4 DEF Frozen, LoadingPage
    <2>6. LoadingPage(n)'
      BY <1>2, <2>1, <2>5 DEF LoadingPage
    <2>7. DocumentsAwaited(n)'
      BY <1>2, <2>1 DEF DocumentsAwaited, Frozen
    <2>8. PageGeneration(n)'
      BY <1>2, <2>1, <2>2, <2>3 DEF PageGeneration, Holds, PastAborting, Aborts, Pending
    <2>9. SnapshotsHold(n)'
      BY <2>1, <2>2, <2>3, <2>4 DEF SnapshotsHold, Frozen, Aborts
    <2> QED
      BY <2>6, <2>7, <2>8, <2>9 DEF Barrier
  <1>14. CASE Lost(n)
    <2>1. PICK i \in DOMAIN toPage[n] :
             toPage'[n] = SubSeq(toPage[n], 1, i - 1) \o SubSeq(toPage[n], i + 1, Len(toPage[n]))
      BY <1>14 DEF Lost
    <2>2. In(toPage'[n]) \subseteq In(toPage[n]) /\ OneDocument(toPage'[n])
      BY <1>1, <1>2, <2>1, InWithout, OneInWithout DEF DocumentsAwaited
    <2>3. /\ page'[n] = page[n] /\ toHost'[n] = toHost[n]
          /\ task.stage = "ack" /\ task'.stage = "synced" /\ task'.note = task.note
          /\ UNCHANGED <<win, hostGen, doc, pendingWrite>>
      BY <1>1, <1>14 DEF Lost, Tasks
    <2>4. pendingWrite[n] = NoRequest
      BY <2>3 DEF ClaimsAccounted
    <2>5. LoadingPage(n)'
      BY <1>2, <2>2, <2>3 DEF LoadingPage, HeldByTask, HeldStages
    <2>6. DocumentsAwaited(n)'
      BY <1>2, <2>2, <2>3 DEF DocumentsAwaited, Frozen
    <2>7. PageGeneration(n)'
      BY <1>2, <2>2, <2>3 DEF PageGeneration, Holds, PastAborting, Aborts, Pending
    <2>8. SnapshotsHold(n)'
      BY <2>3, <2>4 DEF SnapshotsHold
    <2> QED
      BY <2>5, <2>6, <2>7, <2>8 DEF Barrier
  <1>15. CASE Quiet(n)
    <2>1. /\ page'[n] = page[n]
          /\ In(toHost'[n]) \subseteq In(toHost[n])
          /\ OneDocument(toPage'[n])
          /\ \A m \in In(toPage'[n]) : m \in In(toPage[n]) \/ m.type = "request_flush"
      <3> DEFINE f == Message("request_flush", nextReq, 0, {})
      <3>1. CASE Keeps(n, <<>>)
        BY <1>2, <1>6, <1>7, <3>1 DEF DocumentsAwaited
      <3>2. CASE Keeps(n, <<f>>)
        <4>1. f.type = "request_flush" /\ ~IsDocument(f)
          BY DEF Message, IsDocument
        <4> HIDE DEF f
        <4> QED
          BY <1>2, <1>6, <3>2, <4>1, KeepsSays DEF DocumentsAwaited
      <3> QED
        BY <1>15, <3>1, <3>2 DEF Quiet
    <2>2. toHost'[n] = toHost[n] \/ (toHost[n] # <<>> /\ Head(toHost[n]).type # "ready")
      BY <1>15 DEF Quiet, Keeps
    <2>3. /\ win'[n] = win[n] \/ (win'[n] = "none" /\ HeldByTask(n))
          /\ hostGen'[n] = hostGen[n]
          /\ StoresOwn(n)
          /\ TaskQuiet(n)
      BY <1>15 DEF Quiet
    <2>4. win[n] = "loading" => win'[n] = "loading" /\ toHost'[n] = toHost[n]
      BY <1>2, <1>8, <2>2, <2>3 DEF LoadingPage
    <2>5. LoadingPage(n)'
      BY <1>2, <2>1, <2>2, <2>3, <2>4 DEF LoadingPage, TaskQuiet
    <2>6. page[n].phase = "loading" => doc'[n].body = doc[n].body
      BY <1>2, <1>8, <2>3 DEF StoresOwn, Stored, LoadingPage, Saves
    <2>7. DocumentsAwaited(n)'
      BY <1>2, <2>1, <2>3, <2>6 DEF DocumentsAwaited, Frozen
    <2>8. \A req : Aborts(n, req)' => Aborts(n, req)
      BY <2>1 DEF Aborts
    <2>9. PageGeneration(n)'
      <3>1. Pending' /\ task'.req = page[n].req => Pending /\ task.req = page[n].req
        <4>1. task'.stage = "queued" => page[n].req # task'.req \/ task' = task
          BY <1>1, <1>3 DEF TaskMoves, HeldStages, TypeOK, WindowTypeOK
        <4> QED
          BY <4>1 DEF TaskMoves, Pending
      <3> QED
        BY <1>2, <2>1, <2>3, <2>8, <3>1 DEF PageGeneration, Holds, PastAborting
    <2>10. SnapshotsHold(n)'
      BY <1>2, <2>1, <2>3, <2>8 DEF SnapshotsHold, Frozen, TaskQuiet
    <2> QED
      BY <2>5, <2>7, <2>9, <2>10 DEF Barrier
  <1>16. CASE Claimed(n)
    <2> DEFINE m == Message("begin_external_write", task.req, hostGen[n], {})
    <2>1. /\ Keeps(n, <<m>>)
          /\ task.note = n /\ task.stage = "queued" /\ win[n] = "loaded"
          /\ task'.stage = "snapshot" /\ task'.req = task.req
          /\ toHost'[n] = toHost[n] /\ pendingWrite'[n] = task.req
          /\ UNCHANGED <<win, hostGen, doc>>
      BY <1>1, <1>16 DEF Claimed, Tasks
    <2>2. m.type = "begin_external_write"
      BY DEF Message
    <2> HIDE DEF m
    <2>3. /\ In(toPage'[n]) = In(toPage[n]) \cup {m} /\ OneDocument(toPage'[n])
          /\ page'[n] = page[n]
      BY <1>2, <1>6, <2>1, <2>2, KeepsSays DEF DocumentsAwaited, IsDocument
    <2>4. /\ \A i \in In(toPage[n]) \cup In(toHost[n]) : i.req # task.req
      BY <2>1 DEF RequestsToldApart
    <2>5. \A req : Aborts(n, req)' => Aborts(n, req)
      BY <2>2, <2>3 DEF Aborts
    <2>6. LoadingPage(n)'
      BY <1>2, <2>1, <2>3 DEF LoadingPage
    <2>7. DocumentsAwaited(n)'
      BY <1>2, <2>1, <2>2, <2>3 DEF DocumentsAwaited, Frozen
    <2>8. PageGeneration(n)'
      BY <1>2, <2>1, <2>3, <2>5 DEF PageGeneration, Holds, PastAborting, Pending
    <2>9. SnapshotsHold(n)'
      BY <2>1, <2>2, <2>3, <2>4 DEF SnapshotsHold, Aborts
    <2> QED
      BY <2>6, <2>7, <2>8, <2>9 DEF Barrier
  <1>17. CASE LetGoOf(n)
    <2> DEFINE m == Message("abort_external_write", task.req, 0, {})
    <2>1. /\ Keeps(n, <<m>>)
          /\ task.note = n /\ task.stage \in {"snapshot", "resumed"}
          /\ pendingWrite'[n] = NoRequest
          /\ toHost'[n] = toHost[n]
          /\ UNCHANGED <<win, hostGen, doc>>
      BY <1>17 DEF LetGoOf
    <2>2. \/ task'.stage = "resumed" /\ ~task'.ok /\ task'.req = task.req
          \/ task'.stage = "idle"
      BY <1>1, <1>17 DEF LetGoOf, IsIdle, Tasks
    <2>3. m.type = "abort_external_write" /\ m.req = task.req
      BY DEF Message
    <2> HIDE DEF m
    <2>4. /\ In(toPage'[n]) = In(toPage[n]) \cup {m} /\ OneDocument(toPage'[n])
          /\ page'[n] = page[n]
      BY <1>2, <1>6, <2>1, <2>3, KeepsSays DEF DocumentsAwaited, IsDocument
    <2>5. HeldByTask(n) /\ Pending
      BY <2>1 DEF HeldByTask, HeldStages, Pending
    <2>6. LoadingPage(n)'
      BY <1>2, <2>1, <2>4, <2>5 DEF LoadingPage
    <2>7. DocumentsAwaited(n)'
      BY <1>2, <2>1, <2>3, <2>4 DEF DocumentsAwaited, Frozen
    <2>8. PageGeneration(n)'
      <3>1. \A req : PastAborting(n, req) => PastAborting(n, req)'
        BY <2>2, <2>3, <2>4, <2>5 DEF PastAborting, Aborts, Pending
      <3> QED
        BY <1>2, <2>1, <2>4, <3>1 DEF PageGeneration, Holds
    <2>9. SnapshotsHold(n)'
      BY <2>1, <2>2 DEF SnapshotsHold
    <2> QED
      BY <2>6, <2>7, <2>8, <2>9 DEF Barrier
  <1>18. CASE Committed(n)
    <2> DEFINE m == Message("apply_external_document", task.req, hostGen[n] + 1, file'[n].body)
    <2>1. /\ Keeps(n, <<m>>)
          /\ task.note = n /\ task.stage = "resumed" /\ task.ok
          /\ task'.stage = "ack"
          /\ hostGen'[n] = hostGen[n] + 1
          /\ toHost'[n] = toHost[n]
          /\ UNCHANGED <<win, pendingWrite>>
      BY <1>1, <1>18 DEF Committed, Tasks
    <2>2. m.type = "apply_external_document" /\ m.req = task.req /\ m.gen = hostGen[n] + 1
      BY DEF Message
    <2> HIDE DEF m
    <2>3. Frozen(n, task.req) /\ ~Aborts(n, task.req) /\ pendingWrite[n] = NoRequest
      BY <1>2, <2>1 DEF SnapshotsHold, ClaimsAccounted
    <2>4. \A i \in In(toPage[n]) : ~IsDocument(i)
      <3>1. \A i \in In(toPage[n]) : i.type # "load_note"
        BY <1>2, <2>3 DEF DocumentsAwaited, Frozen
      <3>2. \A i \in In(toPage[n]) : i.type # "apply_external_document"
        BY <2>1, DocumentExpected
      <3> QED
        BY <3>1, <3>2 DEF IsDocument
    <2>5. /\ In(toPage'[n]) = In(toPage[n]) \cup {m} /\ OneDocument(toPage'[n])
          /\ page'[n] = page[n]
      BY <1>2, <1>6, <2>1, <2>4, KeepsSays DEF DocumentsAwaited
    <2>6. page[n].phase \in {"syncing", "slow"} /\ page[n].req = task.req
          /\ page[n].req # NoRequest /\ page[n].gen <= hostGen[n] /\ win[n] # "loading"
      BY <1>2, <2>3 DEF Frozen, PageGeneration, Holds, LoadingPage
    <2>7. LoadingPage(n)'
      BY <1>2, <2>1, <2>5, <2>6 DEF LoadingPage
    <2>8. DocumentsAwaited(n)'
      <3>1. page[n].gen # hostGen[n] + 1
        BY <1>1, <2>6
      <3> QED
        BY <2>1, <2>2, <2>3, <2>4, <2>5, <3>1 DEF DocumentsAwaited, Frozen, IsDocument
    <2>9. PageGeneration(n)'
      <3>1. PastAborting(n, page[n].req)'
        BY <2>1, <2>2, <2>3, <2>5, <2>6 DEF PastAborting, Aborts, Pending
      <3>2. \A m1 \in In(toHost[n]) : m1.gen <= hostGen[n] + 1
        BY <1>1, <1>2, <1>4 DEF PageGeneration
      <3>3. page[n].gen <= hostGen[n] + 1
        BY <1>1, <2>6
      <3> QED
        BY <2>1, <2>5, <2>6, <3>1, <3>2, <3>3 DEF PageGeneration, Holds
    <2>10. SnapshotsHold(n)'
      BY <2>1, <2>3 DEF SnapshotsHold
    <2> QED
      BY <2>7, <2>8, <2>9, <2>10 DEF Barrier
  <1> QED
    BY <1>9, <1>10, <1>11, <1>12, <1>13, <1>14, <1>15, <1>16, <1>17, <1>18 DEF HostStep

(* Steps keep the barrier of every page.                                   *)
LEMMA BarrierStep ==
    ASSUME TypeOK, TypeOK', ClaimsAccounted, ClaimsAccounted', PagesAccounted,
           RequestsToldApart, BarrierHolds, [Next]_vars
    PROVE  BarrierHolds'
  <1>1. ASSUME NEW a \in Notes, PageStep(a), NEW n \in Notes
        PROVE  Barrier(n)'
    <2>1. CASE n = a
      BY <1>1, <2>1, BarrierPage DEF BarrierHolds
    <2>2. CASE n # a
      <3>1. /\ page'[n] = page[n] /\ toPage'[n] = toPage[n] /\ toHost'[n] = toHost[n]
            /\ UNCHANGED <<win, doc, hostGen, task, pendingWrite>>
        BY <1>1, <2>2 DEF PageStep, OnlyPage, hostVars
      <3>2. LoadingPage(n) /\ DocumentsAwaited(n) /\ PageGeneration(n) /\ SnapshotsHold(n)
        BY DEF BarrierHolds, Barrier
      <3>3. LoadingPage(n)' /\ DocumentsAwaited(n)'
        BY <3>1, <3>2 DEF LoadingPage, DocumentsAwaited, HeldByTask, Frozen
      <3>4. PageGeneration(n)' /\ SnapshotsHold(n)'
        BY <3>1, <3>2 DEF PageGeneration, SnapshotsHold, Holds, PastAborting, Aborts, Pending,
                          Frozen
      <3> QED
        BY <3>3, <3>4 DEF Barrier
    <2> QED
      BY <2>1, <2>2
  <1>2. ASSUME \A n \in Notes : HostStep(n), NEW n \in Notes
        PROVE  Barrier(n)'
    <2>1. TaskMoves
      BY TasksMove
    <2> QED
      BY <1>2, <2>1, BarrierHost DEF BarrierHolds
  <1> QED
    BY <1>1, <1>2, EveryStep DEF BarrierHolds

(* Nothing was said or asked when the application starts.                  *)
LEMMA InitMessages ==
    Init => RequestsToldApart /\ BarrierHolds
  <1> SUFFICES ASSUME Init
               PROVE  RequestsToldApart /\ BarrierHolds
    OBVIOUS
  <1>1. \A n \in Notes :
            /\ toPage[n] = <<>> /\ toHost[n] = <<>>
            /\ page[n].phase = "absent" /\ page[n].req = NoRequest
            /\ win[n] = "none" /\ pendingWrite[n] = NoRequest
    BY DEF Init, WindowInit, PageInit, PageIn
  <1>2. task.stage = "idle" /\ nextReq = 1
    BY DEF Init, WindowInit, NoTask
  <1>3. \A n \in Notes : In(toPage[n]) = {} /\ In(toHost[n]) = {}
    BY <1>1, InNothing
  <1>4. RequestsToldApart
    BY <1>1, <1>2, <1>3 DEF RequestsToldApart, NoRequest
  <1>5. ASSUME NEW n \in Notes
        PROVE  Barrier(n)
    <2>1. LoadingPage(n)
      BY <1>1, <1>3 DEF LoadingPage
    <2>2. DocumentsAwaited(n)
      BY <1>1, <1>3 DEF DocumentsAwaited, OneDocument
    <2>3. PageGeneration(n)
      BY <1>1, <1>3 DEF PageGeneration, Holds
    <2>4. SnapshotsHold(n)
      BY <1>2, <1>3 DEF SnapshotsHold
    <2> QED
      BY <2>1, <2>2, <2>3, <2>4 DEF Barrier
  <1> QED
    BY <1>4, <1>5 DEF BarrierHolds

(* The messages that are on their way are the ones the barrier of each     *)
(* page expects, for any number of notes and requests                      *)
(* (ExternalWriteBarrier in ui/src/bridge/externalWrite.ts,                *)
(* settle_external_write and accepts_generation in                         *)
(* src/src/note_window.rs).                                                *)
THEOREM BarrierAlwaysHolds == Spec => [](RequestsToldApart /\ BarrierHolds)
  <1>1. /\ TypeOK /\ TypeOK' /\ ClaimsAccounted /\ ClaimsAccounted' /\ PagesAccounted
        /\ RequestsToldApart /\ BarrierHolds /\ [Next]_vars
        => RequestsToldApart' /\ BarrierHolds'
    BY RequestsStep, BarrierStep
  <1> QED
    BY <1>1, InitMessages, TypeCorrect, ClaimsAlwaysAccounted, PagesAlwaysAccounted,
       PTL DEF Spec

(* A page that can be edited is on the generation of the host: no save of  *)
(* it is refused for its age.                                              *)
THEOREM EditablePageAlwaysCurrent == Spec => []EditablePageIsCurrent
  <1>1. BarrierHolds => EditablePageIsCurrent
    BY DEF BarrierHolds, Barrier, PageGeneration, EditablePageIsCurrent
  <1> QED
    BY <1>1, BarrierAlwaysHolds, PTL

-----------------------------------------------------------------------------
(* What a text carries from one generation to the next.                    *)

(* A step of its own does not lose what a page carries.                    *)
LEMMA CarriedPage ==
    ASSUME TypeOK, ClaimsAccounted, PagesAccounted, RequestsToldApart, NEW n \in Notes,
           Barrier(n), PageStep(n), NEW S, Carried(n, S)
    PROVE  Carried(n, S)'
  <1>1. hostGen' = hostGen
    BY DEF PageStep, OnlyPage, hostVars
  <1>2. /\ Holds(n) /\ page[n].gen = hostGen[n] => S \subseteq page[n].text
        /\ \A m \in In(toPage[n]) : IsDocument(m) => S \subseteq m.text
        /\ \A m \in In(toHost[n]) : Saves(m) /\ m.gen = hostGen[n] => S \subseteq m.text
    BY DEF Carried
  <1>3. In(toPage'[n]) \subseteq In(toPage[n])
    BY PageSays
  <1>4. toPage[n] # <<>> => Head(toPage[n]) \in In(toPage[n])
    BY Queues
  <1> DEFINE h == Head(toPage[n])
  <1>5. SUFFICES
            /\ Holds(n)' /\ page'[n].gen = hostGen[n] => S \subseteq page'[n].text
            /\ \A m \in In(toHost'[n]) :
                  m \in In(toHost[n]) \/ (Saves(m) /\ m.gen = hostGen[n] => S \subseteq m.text)
    BY <1>1, <1>2, <1>3 DEF Carried
  <1>6. CASE Acts(n)
    <2>1. \A m \in In(toHost'[n]) : m \in In(toHost[n]) \/ MaySay(n, m)
      BY <1>6, PageSays
    <2>2. \A m : MaySay(n, m) /\ Saves(m) =>
                    Holds(n) /\ m.gen = page[n].gen /\ m.text = page[n].text
      BY DEF MaySay, Saves
    <2>3. page[n].text \subseteq page'[n].text /\ page'[n].gen = page[n].gen
          /\ (Holds(n)' => Holds(n))
      BY <1>6 DEF Acts, Holds
    <2> QED
      BY <1>2, <2>1, <2>2, <2>3
  <1>7. CASE Loads(n)
    <2>1. h \in In(toPage[n]) /\ IsDocument(h) /\ page'[n].text = h.text /\ toHost'[n] = toHost[n]
      BY <1>4, <1>7 DEF Loads, Takes, IsDocument
    <2> QED
      BY <1>2, <2>1
  <1>8. CASE Freezes(n)
    <2>1. /\ page[n].phase = "idle" /\ page'[n].text = page[n].text /\ page'[n].gen = page[n].gen
          /\ \A m \in In(toHost'[n]) : m \in In(toHost[n])
                \/ m = Message("external_write_ready", h.req, page[n].gen, page[n].text)
      BY <1>8, PageSays DEF Freezes
    <2>2. Holds(n)
      BY <2>1 DEF Holds
    <2> QED
      BY <1>2, <2>1, <2>2 DEF Message, Saves
  <1>9. CASE Sticks(n)
    <2>1. /\ h \in In(toPage[n]) /\ h.type = "apply_external_document"
          /\ page'[n].text = page[n].text /\ page'[n].gen = page[n].gen
          /\ \A m \in In(toHost'[n]) : m \in In(toHost[n])
                \/ m = Message("external_write_apply_failed", h.req, 0, {})
      BY <1>4, <1>9, PageSays DEF Sticks, Takes
    <2>2. Holds(n)
      BY <2>1, DocumentExpected DEF Frozen, Holds
    <2> QED
      BY <1>2, <2>1, <2>2 DEF Message, Saves
  <1>10. CASE Adopts(n)
    <2>1. /\ h \in In(toPage[n]) /\ IsDocument(h)
          /\ h.text \subseteq page'[n].text
          /\ \A m \in In(toHost'[n]) :
                \/ m \in In(toHost[n])
                \/ m = Message("external_write_applied", h.req, h.gen, {})
                \/ ClosedWith(n, h.gen, h.text, m)
      BY <1>4, <1>10, PageSays DEF Adopts, Takes, Releases, IsDocument
    <2> HIDE DEF h
    <2> QED
      BY <1>2, <2>1 DEF Message, Saves, ClosedWith
  <1>11. CASE Frees(n)
    <2>1. /\ h \in In(toPage[n]) /\ h.type = "abort_external_write" /\ page[n].req = h.req
          /\ page[n].phase # "unsynchronised"
          /\ page[n].text \subseteq page'[n].text /\ page'[n].gen = page[n].gen
          /\ \A m \in In(toHost'[n]) :
                m \in In(toHost[n]) \/ ClosedWith(n, page[n].gen, page[n].text, m)
      BY <1>4, <1>11, PageSays DEF Frees, Takes, Releases
    <2>2. Holds(n)
      BY <2>1, AbortExpected DEF Holds
    <2> QED
      BY <1>2, <2>1, <2>2 DEF ClosedWith
  <1> QED
    BY <1>6, <1>7, <1>8, <1>9, <1>10, <1>11 DEF PageStep

(* A page that is not there, or was not handed its note, carries anything. *)
LEMMA CarriedDirect ==
    ASSUME TypeOK, PagesAccounted, NEW n \in Notes, Barrier(n), Direct(n), NEW S
    PROVE  Carried(n, S)'
  <1>1. /\ win[n] # "loaded" /\ task.stage = "queued"
        /\ page'[n] = page[n] /\ toPage'[n] = toPage[n] /\ toHost'[n] = toHost[n]
    BY DEF Direct
  <1>2. CASE win[n] = "loading"
    <2>1. /\ page[n].phase = "loading"
          /\ toHost[n] = <<Message("ready", NoRequest, 0, {})>>
          /\ \A m \in In(toPage[n]) : ~IsDocument(m)
      BY <1>2 DEF Barrier, LoadingPage, IsDocument
    <2>2. \A m \in In(toHost[n]) : ~Saves(m)
      BY <2>1, InOne DEF Message, Saves
    <2> QED
      BY <1>1, <2>1, <2>2 DEF Carried, Holds
  <1>3. CASE win[n] = "none"
    <2>1. page[n].phase = "absent" /\ toPage[n] = <<>> /\ toHost[n] = <<>>
      BY <1>1, <1>3 DEF PagesAccounted, HeldByTask, HeldStages
    <2> QED
      BY <1>1, <2>1, InNothing DEF Carried, Holds
  <1> QED
    BY <1>1, <1>2, <1>3 DEF TypeOK, WindowTypeOK

(* Of a generation that was just begun there is nothing but the document   *)
(* that begins it.                                                         *)
LEMMA CarriedCommitted ==
    ASSUME TypeOK, ClaimsAccounted, RequestsToldApart, NEW n \in Notes, Barrier(n),
           HostStep(n), Committed(n), NEW S, S \subseteq file'[n].body
    PROVE  Carried(n, S)'
  <1> DEFINE m == Message("apply_external_document", task.req, hostGen[n] + 1, file'[n].body)
  <1>1. /\ Keeps(n, <<m>>) /\ hostGen'[n] = hostGen[n] + 1 /\ toHost'[n] = toHost[n]
        /\ task.note = n /\ task.stage = "resumed" /\ task.ok
    BY DEF Committed
  <1>2. m.text = file'[n].body
    BY DEF Message
  <1> HIDE DEF m
  <1>3. page'[n] = page[n] /\ In(toPage'[n]) = In(toPage[n]) \cup {m}
    BY <1>1, KeepsSays DEF Keeps
  <1>4. \A i \in In(toPage[n]) : ~IsDocument(i)
    <2>1. \A i \in In(toPage[n]) : i.type # "load_note"
      BY <1>1 DEF Barrier, DocumentsAwaited, SnapshotsHold, Frozen
    <2>2. \A i \in In(toPage[n]) : i.type # "apply_external_document"
      BY <1>1, DocumentExpected
    <2> QED
      BY <2>1, <2>2 DEF IsDocument
  <1>5. hostGen[n] \in Nat /\ page[n].gen \in Nat
    BY DEF TypeOK, WindowTypeOK, PageTypeOK, Pages
  <1>6. Holds(n) => page[n].gen # hostGen'[n]
    BY <1>1, <1>5 DEF Barrier, PageGeneration
  <1>7. \A i \in In(toHost[n]) : i.gen # hostGen'[n]
    <2>1. In(toHost[n]) \subseteq Messages(ToHostTypes)
      BY Queues, InSeq
    <2>2. \A i \in In(toHost[n]) : i.gen \in Nat /\ i.gen <= hostGen[n]
      BY <2>1 DEF Barrier, PageGeneration, Messages
    <2> QED
      BY <1>1, <1>5, <2>2
  <1> QED
    BY <1>1, <1>2, <1>3, <1>4, <1>6, <1>7 DEF Carried, Holds

(* Nor does a step of the host, if what it commits carries it too.         *)
LEMMA CarriedHost ==
    ASSUME TypeOK, ClaimsAccounted, PagesAccounted, RequestsToldApart, NEW n \in Notes,
           Barrier(n), HostStep(n), NEW S, Carried(n, S),
           Handed(n) => S \subseteq file[n].body,
           Committed(n) => S \subseteq file'[n].body
    PROVE  Carried(n, S)'
  <1>1. /\ Holds(n) /\ page[n].gen = hostGen[n] => S \subseteq page[n].text
        /\ \A m \in In(toPage[n]) : IsDocument(m) => S \subseteq m.text
        /\ \A m \in In(toHost[n]) : Saves(m) /\ m.gen = hostGen[n] => S \subseteq m.text
    BY DEF Carried
  <1>2. LoadingPage(n) /\ DocumentsAwaited(n) /\ PageGeneration(n)
    BY DEF Barrier
  <1>3. \A m \in In(toHost'[n]) : m \in In(toHost[n]) \/ ~Saves(m)
    <2>1. \A m \in In(toHost'[n]) : m \in In(toHost[n]) \/ m = Message("ready", NoRequest, 0, {})
      BY HostQueues
    <2> QED
      BY <2>1 DEF Message, Saves
  <1>4. CASE /\ page'[n] = page[n] /\ hostGen'[n] = hostGen[n]
             /\ \A m \in In(toPage'[n]) : m \in In(toPage[n]) \/ ~IsDocument(m)
    BY <1>1, <1>3, <1>4 DEF Carried, Holds
  <1>5. ASSUME NEW m, Keeps(n, <<m>>), ~IsDocument(m)
        PROVE  /\ page'[n] = page[n]
               /\ \A i \in In(toPage'[n]) : i \in In(toPage[n]) \/ ~IsDocument(i)
    <2>1. In(toPage'[n]) = In(toPage[n]) \cup {m}
      BY <1>5, KeepsSays
    <2> QED
      BY <1>5, <2>1 DEF Keeps
  <1>6. Keeps(n, <<>>) => page'[n] = page[n] /\ toPage'[n] = toPage[n]
    <2>1. toPage[n] \in Seq(Messages(ToPageTypes))
      BY Queues
    <2> QED
      BY <2>1 DEF Keeps
  <1>7. CASE Gone(n)
    <2>1. page'[n].phase = "absent" /\ In(toPage'[n]) = {} /\ In(toHost'[n]) = {}
      BY <1>7, InNothing DEF Gone, PageIn
    <2> QED
      BY <2>1 DEF Carried, Holds
  <1>8. CASE Quiet(n)
    <2> DEFINE f == Message("request_flush", nextReq, 0, {})
    <2>1. ~IsDocument(f)
      BY DEF Message, IsDocument
    <2>2. (Keeps(n, <<>>) \/ Keeps(n, <<f>>)) /\ hostGen'[n] = hostGen[n]
      BY <1>8 DEF Quiet
    <2> HIDE DEF f
    <2> QED
      BY <1>4, <1>5, <1>6, <2>1, <2>2
  <1>9. CASE Opened(n)
    <2>1. page'[n].phase = "loading" /\ In(toPage'[n]) = {}
          /\ In(toHost'[n]) = {Message("ready", NoRequest, 0, {})}
      BY <1>9, InNothing, InOne DEF Opened, PageIn
    <2> QED
      BY <2>1 DEF Carried, Holds, Message, Saves
  <1>10. CASE Handed(n)
    <2> DEFINE m == Message("load_note", NoRequest, hostGen[n], doc[n].body)
    <2>1. /\ toPage'[n] = Append(toPage[n], m) /\ page'[n] = page[n] /\ hostGen'[n] = hostGen[n]
          /\ toHost[n] # <<>>
      BY <1>10 DEF Handed, Hears
    <2>2. m.text = doc[n].body /\ m \in Messages(ToPageTypes)
      BY DEF Message, Messages, ToPageTypes, TypeOK, WindowTypeOK, Documents, NoRequest
    <2>3. doc[n] = file[n]
      BY <2>1 DEF PagesAccounted
    <2> HIDE DEF m
    <2>4. In(toPage'[n]) = In(toPage[n]) \cup {m}
      BY <2>1, <2>2, InAppend, Queues
    <2> QED
      BY <1>1, <1>3, <1>10, <2>1, <2>2, <2>3, <2>4 DEF Carried, Holds
  <1>11. CASE Direct(n)
    BY <1>11, CarriedDirect
  <1>12. CASE Claimed(n)
    <2> DEFINE m == Message("begin_external_write", task.req, hostGen[n], {})
    <2>1. Keeps(n, <<m>>) /\ hostGen'[n] = hostGen[n] /\ ~IsDocument(m)
      BY <1>12 DEF Claimed, Message, IsDocument
    <2> HIDE DEF m
    <2> QED
      BY <1>4, <1>5, <2>1
  <1>13. CASE LetGoOf(n)
    <2> DEFINE m == Message("abort_external_write", task.req, 0, {})
    <2>1. Keeps(n, <<m>>) /\ hostGen'[n] = hostGen[n] /\ ~IsDocument(m)
      BY <1>13 DEF LetGoOf, Message, IsDocument
    <2> HIDE DEF m
    <2> QED
      BY <1>4, <1>5, <2>1
  <1>14. CASE Taken(n)
    BY <1>4, <1>14 DEF Taken
  <1>15. CASE Lost(n)
    <2>1. PICK i \in DOMAIN toPage[n] :
             toPage'[n] = SubSeq(toPage[n], 1, i - 1) \o SubSeq(toPage[n], i + 1, Len(toPage[n]))
      BY <1>15 DEF Lost
    <2>2. In(toPage'[n]) \subseteq In(toPage[n])
      BY <2>1, Queues, InWithout
    <2> QED
      BY <1>4, <1>15, <2>2 DEF Lost
  <1>16. CASE Committed(n)
    BY <1>16, CarriedCommitted
  <1> QED
    BY <1>7, <1>8, <1>9, <1>10, <1>11, <1>12, <1>13, <1>14, <1>15, <1>16 DEF HostStep

(* The text a committed write is applied to is the one the page still has, *)
(* on the generation of the host.                                          *)
LEMMA CommittedOnPage ==
    ASSUME NEW n \in Notes, Barrier(n), Committed(n)
    PROVE  /\ Holds(n)
           /\ page[n].gen = hostGen[n]
           /\ task.text = page[n].text
  <1>1. task.note = n /\ task.stage = "resumed" /\ task.ok
    BY DEF Committed
  <1>2. Frozen(n, task.req) /\ page[n].text = task.text
    BY <1>1 DEF Barrier, SnapshotsHold
  <1> QED
    BY <1>1, <1>2 DEF Frozen, Holds, Barrier, PageGeneration, PastAborting, Pending

(* What a request makes of a text.                                         *)
LEMMA MutatedMarks ==
    ASSUME TypeOK, NEW d \in Documents
    PROVE  Mutated(task, d).body = IF task.kind = "append" THEN d.body \cup {task.mark}
                                   ELSE IF task.kind = "replace" THEN {task.mark}
                                   ELSE d.body
  BY DEF Mutated, Documents

(* A text that is stored carries what the page carries.                    *)
LEMMA StoredCarries ==
    ASSUME TypeOK, NEW n \in Notes, NEW S, Carried(n, S), NEW was, NEW is, S \subseteq was,
           Stored(n, was, is)
    PROVE  S \subseteq is
  <1>1. toHost[n] # <<>> => Head(toHost[n]) \in In(toHost[n])
    BY Queues
  <1> QED
    BY <1>1 DEF Stored, Carried

(* What was written is in the file, and carried on.                        *)
LEMMA WrittenStep ==
    ASSUME TypeOK, ClaimsAccounted, PagesAccounted, RequestsToldApart, BarrierHolds,
           WrittenCarried, [Next]_vars
    PROVE  WrittenCarried'
  <1>1. ASSUME NEW a \in Notes, PageStep(a), NEW n \in Notes
        PROVE  written'[n] \subseteq file'[n].body /\ Carried(n, written[n])'
    <2>1. UNCHANGED <<written, file, hostGen>>
      BY <1>1 DEF PageStep, OnlyPage, hostVars
    <2>2. PICK S : S = written[n]
      OBVIOUS
    <2>3. S \subseteq file[n].body /\ Carried(n, S)
      BY <2>2 DEF WrittenCarried
    <2>4. Carried(n, S)'
      <3>1. CASE n = a
        BY <1>1, <2>3, <3>1, CarriedPage DEF BarrierHolds
      <3>2. CASE n # a
        <4>1. page'[n] = page[n] /\ toPage'[n] = toPage[n] /\ toHost'[n] = toHost[n]
          BY <1>1, <3>2 DEF PageStep, OnlyPage
        <4> QED
          BY <2>1, <2>3, <4>1 DEF Carried, Holds
      <3> QED
        BY <3>1, <3>2
    <2> QED
      BY <2>1, <2>2, <2>3, <2>4 DEF Carried
  <1>2. ASSUME NEW n \in Notes, HostStep(n)
        PROVE  written'[n] \subseteq file'[n].body /\ Carried(n, written[n])'
    <2>1. written[n] \subseteq file[n].body /\ Carried(n, written[n]) /\ Barrier(n)
      BY DEF WrittenCarried, BarrierHolds
    <2>2. ASSUME written'[n] = written[n],
                 written[n] \subseteq file'[n].body
          PROVE  written'[n] \subseteq file'[n].body /\ Carried(n, written[n])'
      <3>1. PICK S : S = written[n]
        OBVIOUS
      <3>2. S \subseteq file[n].body /\ Carried(n, S)
        BY <2>1, <3>1
      <3>3. Carried(n, S)'
        BY <1>2, <2>1, <2>2, <3>1, <3>2, CarriedHost
      <3> QED
        BY <2>2, <3>1, <3>3 DEF Carried
    <2>3. CASE Gone(n) \/ Quiet(n)
      <3>1. StoresOwn(n)
        BY <2>3 DEF Gone, Quiet
      <3>2. PICK S : S = written[n]
        OBVIOUS
      <3>3. S \subseteq file'[n].body
        BY <2>1, <3>1, <3>2, StoredCarries DEF StoresOwn
      <3> QED
        BY <2>2, <3>1, <3>2, <3>3 DEF StoresOwn
    <2>4. CASE Opened(n)
      BY <2>1, <2>2, <2>4 DEF Opened, OpenWindow
    <2>5. CASE Handed(n) \/ Claimed(n) \/ Taken(n) \/ LetGoOf(n) \/ Lost(n)
      BY <2>1, <2>2, <2>5 DEF Handed, Claimed, Taken, LetGoOf, Lost
    <2>6. ASSUME NEW d \in Documents, written[n] \subseteq d.body,
                 file'[n].body = Mutated(task, d).body, Recorded(n)
          PROVE  written'[n] \subseteq file'[n].body
      BY <2>6, MutatedMarks DEF Recorded, TypeOK, WindowTypeOK
    <2>7. CASE Direct(n)
      <3>1. written'[n] \subseteq file'[n].body
        BY <2>1, <2>6, <2>7 DEF Direct, TypeOK, WindowTypeOK
      <3>2. PICK S : S = written'[n]
        OBVIOUS
      <3>3. Carried(n, S)'
        BY <1>2, <2>1, <2>7, CarriedDirect
      <3> QED
        BY <3>1, <3>2, <3>3 DEF Carried
    <2>8. CASE Committed(n)
      <3>1. Holds(n) /\ page[n].gen = hostGen[n] /\ task.text = page[n].text
        BY <2>1, <2>8, CommittedOnPage
      <3>2. /\ doc[n] \in Documents /\ task.text \in Bodies
            /\ LiveBase(n, task.text) \in Documents
            /\ LiveBase(n, task.text).body = task.text
        BY DEF TypeOK, WindowTypeOK, Tasks, LiveBase, Documents
      <3>3. written[n] \subseteq LiveBase(n, task.text).body
        BY <2>1, <3>1, <3>2 DEF Carried
      <3>4. written'[n] \subseteq file'[n].body
        BY <2>6, <2>8, <3>2, <3>3 DEF Committed
      <3>5. PICK S : S = written'[n]
        OBVIOUS
      <3>6. Carried(n, S)'
        BY <1>2, <2>1, <2>8, <3>4, <3>5, CarriedCommitted
      <3> QED
        BY <3>4, <3>5, <3>6 DEF Carried
    <2> QED
      BY <1>2, <2>3, <2>4, <2>5, <2>7, <2>8 DEF HostStep
  <1> QED
    BY <1>1, <1>2, EveryStep DEF WrittenCarried

(* No text a committed external write put in a note is taken out by an     *)
(* autosave, a flush or a close made of an older text, for any number of   *)
(* writes and whatever fails (accepts_generation in                        *)
(* src/src/note_window.rs, apply_over_live_body in noteit-core).           *)
THEOREM CommittedWriteAlwaysStands == Spec => []CommittedWriteStands
  <1>1. Init => WrittenCarried
    <2> SUFFICES ASSUME Init
                 PROVE  WrittenCarried
      OBVIOUS
    <2>1. \A n \in Notes : /\ toPage[n] = <<>> /\ toHost[n] = <<>>
                           /\ page[n].phase = "absent"
                           /\ written[n] = {}
      BY DEF Init, WindowInit, PageInit, PageIn
    <2> QED
      BY <2>1, InNothing DEF WrittenCarried, Carried, Holds
  <1>2. /\ TypeOK /\ ClaimsAccounted /\ PagesAccounted /\ RequestsToldApart /\ BarrierHolds
        /\ WrittenCarried /\ [Next]_vars
        => WrittenCarried'
    BY WrittenStep
  <1>3. WrittenCarried => CommittedWriteStands
    BY DEF WrittenCarried, CommittedWriteStands
  <1> QED
    BY <1>1, <1>2, <1>3, TypeCorrect, ClaimsAlwaysAccounted, PagesAlwaysAccounted,
       BarrierAlwaysHolds, PTL DEF Spec

-----------------------------------------------------------------------------
(* What the reader made.                                                   *)

(* A page keeps what was typed in it, whatever it hears.                   *)
LEMMA TypedPage ==
    ASSUME TypeOK, ClaimsAccounted, PagesAccounted, RequestsToldApart, NEW n \in Notes,
           Barrier(n), TypedHeld(n), PageStep(n)
    PROVE  TypedHeld(n)'
  <1>1. /\ Holds(n) => typed[n] \subseteq page[n].text \cup Inserted(page[n].queue)
        /\ page[n].phase = "loading" => typed[n] = {}
        /\ \A m \in In(toPage[n]) :
              m.type = "apply_external_document" =>
                  typed[n] \subseteq m.text \cup Inserted(page[n].queue)
    BY DEF TypedHeld
  <1>2. In(toPage'[n]) \subseteq In(toPage[n])
    BY PageSays
  <1>3. toPage[n] # <<>> =>
            /\ Head(toPage[n]) \in In(toPage[n])
            /\ IsDocument(Head(toPage[n])) => \A m \in In(Tail(toPage[n])) : ~IsDocument(m)
    BY Queues, OneInTail DEF Barrier, DocumentsAwaited
  <1> DEFINE h == Head(toPage[n])
  <1>4. CASE Acts(n)
    <2>1. /\ Holds(n)' => Holds(n)
          /\ page'[n].phase = "loading" => page[n].phase = "loading"
      BY <1>4 DEF Acts, Holds
    <2>2. CASE /\ page'[n].text = page[n].text
               /\ Inserted(page'[n].queue) = Inserted(page[n].queue)
               /\ UNCHANGED <<typed, nextMark>>
      BY <1>1, <1>2, <2>1, <2>2 DEF TypedHeld
    <2>3. CASE /\ Holds(n)
               /\ typed'[n] = typed[n] \cup {nextMark}
               /\ \/ /\ page[n].phase = "idle"
                     /\ page'[n].text = page[n].text \cup {nextMark}
                     /\ Inserted(page'[n].queue) = Inserted(page[n].queue)
                  \/ /\ page'[n].text = page[n].text
                     /\ Inserted(page'[n].queue) = Inserted(page[n].queue) \cup {nextMark}
      <3>1. page[n].phase = "idle" => \A m \in In(toPage[n]) : m.type # "apply_external_document"
        BY DEF Barrier, DocumentsAwaited, Frozen
      <3> QED
        BY <1>1, <1>2, <2>1, <2>3, <3>1 DEF TypedHeld, Holds
    <2> QED
      BY <1>4, <2>2, <2>3 DEF Acts
  <1>5. CASE Loads(n)
    <2>1. /\ h \in In(toPage[n]) /\ h.type = "load_note"
          /\ \A m \in In(toPage'[n]) : ~IsDocument(m)
          /\ page'[n].phase = "idle" /\ typed' = typed
      BY <1>3, <1>5 DEF Loads, Takes, IsDocument
    <2>2. typed[n] = {}
      BY <1>1, <2>1 DEF Barrier, DocumentsAwaited
    <2> QED
      BY <2>1, <2>2 DEF TypedHeld, IsDocument
  <1>6. CASE Freezes(n)
    BY <1>1, <1>2, <1>6 DEF Freezes, Takes, TypedHeld, Holds
  <1>7. CASE Sticks(n)
    <2>1. /\ h \in In(toPage[n]) /\ h.type = "apply_external_document"
          /\ \A m \in In(toPage'[n]) : ~IsDocument(m)
          /\ page'[n].phase = "unsynchronised" /\ typed' = typed
          /\ page'[n].text = page[n].text /\ page'[n].queue = page[n].queue
      BY <1>3, <1>7 DEF Sticks, Takes, IsDocument
    <2>2. Holds(n)
      BY <2>1, DocumentExpected DEF Frozen, Holds
    <2> QED
      BY <1>1, <2>1, <2>2 DEF TypedHeld, IsDocument
  <1>8. CASE Adopts(n)
    <2>1. /\ h \in In(toPage[n]) /\ h.type = "apply_external_document"
          /\ \A m \in In(toPage'[n]) : ~IsDocument(m)
          /\ page'[n].phase = "idle" /\ typed' = typed
          /\ page'[n].text = h.text \cup Inserted(page[n].queue)
      BY <1>3, <1>8 DEF Adopts, Takes, Releases, IsDocument
    <2>2. typed[n] \subseteq page'[n].text
      BY <1>1, <2>1
    <2> QED
      BY <2>1, <2>2 DEF TypedHeld, IsDocument
  <1>9. CASE Frees(n)
    <2>1. /\ h \in In(toPage[n]) /\ h.type = "abort_external_write" /\ page[n].req = h.req
          /\ page[n].phase # "unsynchronised"
          /\ page'[n].phase = "idle" /\ typed' = typed
          /\ page'[n].text = page[n].text \cup Inserted(page[n].queue)
      BY <1>3, <1>9 DEF Frees, Takes, Releases
    <2>2. Holds(n) /\ \A m \in In(toPage[n]) : ~IsDocument(m)
      BY <2>1, AbortExpected DEF Holds
    <2> QED
      BY <1>1, <1>2, <2>1, <2>2 DEF TypedHeld, IsDocument
  <1> QED
    BY <1>4, <1>5, <1>6, <1>7, <1>8, <1>9 DEF PageStep

(* The host takes nothing of it, except by a replacement that was asked.   *)
LEMMA TypedHost ==
    ASSUME TypeOK, PagesAccounted, RequestsToldApart, NEW n \in Notes, Barrier(n),
           TypedHeld(n), HostStep(n)
    PROVE  TypedHeld(n)'
  <1>1. /\ Holds(n) => typed[n] \subseteq page[n].text \cup Inserted(page[n].queue)
        /\ page[n].phase = "loading" => typed[n] = {}
        /\ \A m \in In(toPage[n]) :
              m.type = "apply_external_document" =>
                  typed[n] \subseteq m.text \cup Inserted(page[n].queue)
    BY DEF TypedHeld
  <1>2. CASE /\ page'[n] = page[n] /\ typed'[n] \subseteq typed[n]
             /\ \A m \in In(toPage'[n]) :
                   m \in In(toPage[n]) \/ m.type # "apply_external_document"
    BY <1>1, <1>2 DEF TypedHeld, Holds
  <1>3. ASSUME NEW m, Keeps(n, <<m>>), m.type # "apply_external_document",
               typed'[n] = typed[n]
        PROVE  TypedHeld(n)'
    <2>1. In(toPage'[n]) = In(toPage[n]) \cup {m} /\ page'[n] = page[n]
      BY <1>3, KeepsSays DEF Keeps
    <2> QED
      BY <1>2, <1>3, <2>1
  <1>4. toPage[n] \in Seq(Messages(ToPageTypes))
    BY Queues
  <1>5. CASE Gone(n) \/ Opened(n)
    <2>1. /\ In(toPage'[n]) = {}
          /\ page'[n].phase = "absent" \/ (page'[n].phase = "loading" /\ typed'[n] = {})
      BY <1>5, InNothing DEF Gone, Opened, PageIn
    <2> QED
      BY <2>1 DEF TypedHeld, Holds
  <1>6. CASE Quiet(n)
    <2> DEFINE f == Message("request_flush", nextReq, 0, {})
    <2>1. f.type # "apply_external_document"
      BY DEF Message
    <2>2. (Keeps(n, <<>>) \/ Keeps(n, <<f>>)) /\ typed'[n] = typed[n]
      BY <1>6 DEF Quiet
    <2> HIDE DEF f
    <2>3. CASE Keeps(n, <<>>)
      <3>1. toPage'[n] = toPage[n] /\ page'[n] = page[n]
        BY <1>4, <2>3 DEF Keeps
      <3> QED
        BY <1>2, <2>2, <3>1
    <2> QED
      BY <1>3, <2>1, <2>2, <2>3
  <1>7. CASE Handed(n)
    <2> DEFINE m == Message("load_note", NoRequest, hostGen[n], doc[n].body)
    <2>1. toPage'[n] = Append(toPage[n], m) /\ page'[n] = page[n] /\ typed' = typed
      BY <1>7 DEF Handed
    <2>2. m.type = "load_note" /\ m \in Messages(ToPageTypes)
      BY DEF Message, Messages, ToPageTypes, TypeOK, WindowTypeOK, Documents, NoRequest
    <2> HIDE DEF m
    <2>3. In(toPage'[n]) = In(toPage[n]) \cup {m}
      BY <1>4, <2>1, <2>2, InAppend
    <2> QED
      BY <1>2, <2>1, <2>2, <2>3
  <1>8. CASE Direct(n)
    <2>1. typed'[n] \subseteq typed[n]
      BY <1>8 DEF Direct, Recorded, TypeOK, WindowTypeOK, PageTypeOK
    <2> QED
      BY <1>2, <1>8, <2>1 DEF Direct
  <1>9. CASE Claimed(n)
    <2> DEFINE m == Message("begin_external_write", task.req, hostGen[n], {})
    <2>1. Keeps(n, <<m>>) /\ typed'[n] = typed[n] /\ m.type = "begin_external_write"
      BY <1>9 DEF Claimed, Message
    <2> HIDE DEF m
    <2> QED
      BY <1>3, <2>1
  <1>10. CASE LetGoOf(n)
    <2> DEFINE m == Message("abort_external_write", task.req, 0, {})
    <2>1. Keeps(n, <<m>>) /\ typed'[n] = typed[n] /\ m.type = "abort_external_write"
      BY <1>10 DEF LetGoOf, Message
    <2> HIDE DEF m
    <2> QED
      BY <1>3, <2>1
  <1>11. CASE Taken(n)
    BY <1>2, <1>11 DEF Taken
  <1>12. CASE Lost(n)
    <2>1. PICK i \in DOMAIN toPage[n] :
             toPage'[n] = SubSeq(toPage[n], 1, i - 1) \o SubSeq(toPage[n], i + 1, Len(toPage[n]))
      BY <1>12 DEF Lost
    <2>2. In(toPage'[n]) \subseteq In(toPage[n])
      BY <1>4, <2>1, InWithout
    <2> QED
      BY <1>2, <1>12, <2>2 DEF Lost
  <1>13. CASE Committed(n)
    <2> DEFINE m == Message("apply_external_document", task.req, hostGen[n] + 1, file'[n].body)
    <2>1. Keeps(n, <<m>>) /\ m.text = file'[n].body
      BY <1>13 DEF Committed, Message
    <2>2. Holds(n) /\ task.text = page[n].text
      BY <1>13, CommittedOnPage
    <2>3. /\ LiveBase(n, task.text) \in Documents
          /\ LiveBase(n, task.text).body = task.text
      BY DEF TypeOK, WindowTypeOK, Tasks, LiveBase, Documents
    <2>4. typed'[n] \subseteq file'[n].body \cup Inserted(page[n].queue)
      <3>1. CASE task.kind = "replace"
        BY <1>13, <3>1 DEF Committed, Recorded, TypeOK, WindowTypeOK, PageTypeOK
      <3>2. CASE task.kind # "replace"
        <4>1. typed' = typed
          BY <1>13, <3>2 DEF Committed, Recorded
        <4>2. page[n].text \subseteq file'[n].body
          BY <1>13, <2>2, <2>3, <3>2, MutatedMarks DEF Committed
        <4> QED
          BY <1>1, <2>2, <4>1, <4>2
      <3> QED
        BY <3>1, <3>2
    <2>5. typed'[n] \subseteq typed[n]
      BY <1>13 DEF Committed, Recorded, TypeOK, WindowTypeOK, PageTypeOK
    <2> HIDE DEF m
    <2>6. In(toPage'[n]) = In(toPage[n]) \cup {m} /\ page'[n] = page[n]
      BY <2>1, KeepsSays DEF Keeps
    <2> QED
      BY <1>1, <2>1, <2>4, <2>5, <2>6 DEF TypedHeld, Holds
  <1> QED
    BY <1>5, <1>6, <1>7, <1>8, <1>9, <1>10, <1>11, <1>12, <1>13 DEF HostStep

(* What the reader typed, pasted or captured in a note is in its editor or *)
(* held to be put there, whatever external writes come in between          *)
(* (ExternalWriteBarrier.apply, release and defer in                       *)
(* ui/src/bridge/externalWrite.ts).                                        *)
THEOREM TypedTextAlwaysKept == Spec => []TypedTextKept
  <1>1. Init => TypedIsHeld
    <2> SUFFICES ASSUME Init
                 PROVE  TypedIsHeld
      OBVIOUS
    <2>1. \A n \in Notes : toPage[n] = <<>> /\ page[n].phase = "absent"
      BY DEF Init, WindowInit, PageInit, PageIn
    <2> QED
      BY <2>1, InNothing DEF TypedIsHeld, TypedHeld, Holds
  <1>2. /\ TypeOK /\ ClaimsAccounted /\ PagesAccounted /\ RequestsToldApart /\ BarrierHolds
        /\ TypedIsHeld /\ [Next]_vars
        => TypedIsHeld'
    <2> SUFFICES ASSUME TypeOK, ClaimsAccounted, PagesAccounted, RequestsToldApart,
                        BarrierHolds, TypedIsHeld, [Next]_vars
                 PROVE  TypedIsHeld'
      OBVIOUS
    <2>1. ASSUME NEW a \in Notes, PageStep(a), NEW n \in Notes
          PROVE  TypedHeld(n)'
      <3>1. CASE n = a
        BY <2>1, <3>1, TypedPage DEF BarrierHolds, TypedIsHeld
      <3>2. CASE n # a
        <4>1. page'[n] = page[n] /\ toPage'[n] = toPage[n] /\ typed'[n] = typed[n]
          BY <2>1, <3>2 DEF PageStep, OnlyPage
        <4> QED
          BY <4>1 DEF TypedIsHeld, TypedHeld, Holds
      <3> QED
        BY <3>1, <3>2
    <2>2. ASSUME NEW n \in Notes, HostStep(n)
          PROVE  TypedHeld(n)'
      BY <2>2, TypedHost DEF BarrierHolds, TypedIsHeld
    <2> QED
      BY <2>1, <2>2, EveryStep DEF TypedIsHeld
  <1>3. TypedIsHeld => TypedTextKept
    BY DEF TypedIsHeld, TypedHeld, TypedTextKept
  <1> QED
    BY <1>1, <1>2, <1>3, TypeCorrect, ClaimsAlwaysAccounted, PagesAlwaysAccounted,
       BarrierAlwaysHolds, PTL DEF Spec

-----------------------------------------------------------------------------
(* Where a mark may be.                                                    *)

(* The marks of a note are in one of its texts.                            *)
LEMMA LandedHas ==
    ASSUME NEW n \in Notes
    PROVE  /\ file[n].body \subseteq Landed(n) /\ doc[n].body \subseteq Landed(n)
           /\ page[n].text \subseteq Landed(n) /\ Inserted(page[n].queue) \subseteq Landed(n)
           /\ \A m \in In(toPage[n]) : m.text \subseteq Landed(n)
           /\ \A m \in In(toHost[n]) : m.text \subseteq Landed(n)
  BY DEF Landed

(* Texts are made of marks.                                                *)
LEMMA LandedMarks ==
    ASSUME TypeOK, NEW n \in Notes
    PROVE  Landed(n) \subseteq Nat
  <1>1. /\ file[n] \in Documents /\ doc[n] \in Documents /\ page[n] \in Pages
        /\ In(toPage[n]) \subseteq Messages(ToPageTypes)
        /\ In(toHost[n]) \subseteq Messages(ToHostTypes)
    BY Queues, InSeq DEF TypeOK, WindowTypeOK, PageTypeOK
  <1>2. /\ file[n].body \in Bodies /\ doc[n].body \in Bodies /\ page[n].text \in Bodies
        /\ page[n].queue \in Seq(Deferred)
    BY <1>1 DEF Documents, Pages
  <1>3. \A m \in In(toPage[n]) \cup In(toHost[n]) : m.text \in Bodies
    BY <1>1 DEF Messages
  <1>4. Marks \subseteq Nat /\ Deferred \subseteq Nat
    BY PageAssumption DEF Marks, Deferred, CloseAction
  <1>5. Inserted(page[n].queue) \subseteq Nat
    <2>1. \A i \in DOMAIN page[n].queue : page[n].queue[i] \in Deferred
      BY <1>2
    <2> QED
      BY <1>4, <2>1 DEF Inserted
  <1> QED
    BY <1>2, <1>3, <1>4, <1>5 DEF Landed, Bodies

(* A step of a page puts a mark somewhere only by making it.               *)
LEMMA LandedPage ==
    ASSUME TypeOK, NEW n \in Notes, PageStep(n)
    PROVE  /\ nextMark' \in {nextMark, nextMark + 1}
           /\ Landed(n)' \subseteq
                  Landed(n) \cup (IF nextMark' = nextMark + 1 THEN {nextMark} ELSE {})
  <1> DEFINE L == Landed(n) \cup (IF nextMark' = nextMark + 1 THEN {nextMark} ELSE {})
             h == Head(toPage[n])
  <1>1. UNCHANGED <<file, doc>>
    BY DEF PageStep, OnlyPage, hostVars
  <1>2. /\ file[n].body \subseteq L /\ doc[n].body \subseteq L
        /\ page[n].text \subseteq L /\ Inserted(page[n].queue) \subseteq L
        /\ \A m \in In(toPage[n]) : m.text \subseteq L
        /\ \A m \in In(toHost[n]) : m.text \subseteq L
    BY LandedHas
  <1>3. /\ In(toPage'[n]) \subseteq In(toPage[n])
        /\ toPage[n] # <<>> => Head(toPage[n]) \in In(toPage[n])
    BY PageSays, Queues
  <1>4. nextMark' \in {nextMark, nextMark + 1}
    BY DEF PageStep, Acts, Loads, Freezes, Sticks, Adopts, Frees, Takes
  <1>5. SUFFICES Landed(n)' \subseteq L
    BY <1>4
  <1>6. ASSUME page'[n].text \subseteq L, Inserted(page'[n].queue) \subseteq L,
               \A m \in In(toHost'[n]) : m \in In(toHost[n]) \/ m.text \subseteq L
        PROVE  Landed(n)' \subseteq L
    <2> HIDE DEF L
    <2>1. /\ file'[n].body \subseteq L /\ doc'[n].body \subseteq L
          /\ \A m \in In(toPage'[n]) : m.text \subseteq L
          /\ \A m \in In(toHost'[n]) : m.text \subseteq L
      BY <1>1, <1>2, <1>3, <1>6
    <2> QED
      BY <1>6, <2>1 DEF Landed
  <1>7. CASE Acts(n)
    <2>1. \A m \in In(toHost'[n]) : m \in In(toHost[n]) \/ m.text \subseteq L
      <3>1. \A m : MaySay(n, m) => m.text \subseteq L
        BY <1>2 DEF MaySay
      <3> QED
        BY <1>7, <3>1, PageSays
    <2>2. page'[n].text \subseteq L /\ Inserted(page'[n].queue) \subseteq L
      BY <1>2, <1>7 DEF Acts
    <2> QED
      BY <1>6, <2>1, <2>2
  <1>8. CASE Loads(n)
    <2>1. h \in In(toPage[n]) /\ page'[n].text = h.text /\ Inserted(page'[n].queue) = {}
          /\ toHost'[n] = toHost[n]
      BY <1>3, <1>8 DEF Loads, Takes
    <2> QED
      BY <1>2, <1>6, <2>1
  <1>9. CASE Freezes(n)
    <2>1. \A m \in In(toHost'[n]) : m \in In(toHost[n]) \/ m.text \subseteq L
      <3>1. \A m \in In(toHost'[n]) : m \in In(toHost[n])
                \/ m = Message("external_write_ready", h.req, page[n].gen, page[n].text)
        BY <1>9, PageSays
      <3> QED
        BY <1>2, <3>1 DEF Message
    <2> QED
      BY <1>2, <1>6, <1>9, <2>1 DEF Freezes
  <1>10. CASE Sticks(n)
    <2>1. \A m \in In(toHost'[n]) : m \in In(toHost[n]) \/ m.text \subseteq L
      <3>1. \A m \in In(toHost'[n]) : m \in In(toHost[n])
                \/ m = Message("external_write_apply_failed", h.req, 0, {})
        BY <1>10, PageSays
      <3> QED
        BY <3>1 DEF Message
    <2> QED
      BY <1>2, <1>6, <1>10, <2>1 DEF Sticks
  <1>11. CASE Adopts(n)
    <2>1. /\ h \in In(toPage[n])
          /\ page'[n].text = h.text \cup Inserted(page[n].queue)
          /\ Inserted(page'[n].queue) = {}
      BY <1>3, <1>11 DEF Adopts, Takes, Releases
    <2>2. \A m \in In(toHost'[n]) :
              \/ m \in In(toHost[n])
              \/ m = Message("external_write_applied", h.req, h.gen, {})
              \/ ClosedWith(n, h.gen, h.text, m)
      BY <1>11, PageSays
    <2> HIDE DEF h, L
    <2>3. h.text \cup Inserted(page[n].queue) \subseteq L
      BY <1>2, <2>1
    <2>4. \A m \in In(toHost'[n]) : m \in In(toHost[n]) \/ m.text \subseteq L
      BY <2>2, <2>3 DEF Message, ClosedWith
    <2> QED
      BY <1>6, <2>1, <2>3, <2>4
  <1>12. CASE Frees(n)
    <2>1. /\ page'[n].text = page[n].text \cup Inserted(page[n].queue)
          /\ Inserted(page'[n].queue) = {}
      BY <1>12 DEF Frees, Releases
    <2>2. \A m \in In(toHost'[n]) :
             m \in In(toHost[n]) \/ ClosedWith(n, page[n].gen, page[n].text, m)
      BY <1>12, PageSays
    <2> HIDE DEF L
    <2>3. page[n].text \cup Inserted(page[n].queue) \subseteq L
      BY <1>2
    <2>4. \A m \in In(toHost'[n]) : m \in In(toHost[n]) \/ m.text \subseteq L
      BY <2>2, <2>3 DEF ClosedWith
    <2> QED
      BY <1>6, <2>1, <2>3, <2>4
  <1> QED
    BY <1>7, <1>8, <1>9, <1>10, <1>11, <1>12 DEF PageStep

(* A step of the host moves them, and adds only what it commits.           *)
LEMMA LandedHost ==
    ASSUME TypeOK, NEW n \in Notes, Barrier(n), HostStep(n)
    PROVE  Landed(n)' \subseteq
               Landed(n) \cup (IF Direct(n) \/ Committed(n) THEN {task.mark} ELSE {})
  <1> DEFINE L == Landed(n) \cup (IF Direct(n) \/ Committed(n) THEN {task.mark} ELSE {})
  <1>1. /\ file[n].body \subseteq L /\ doc[n].body \subseteq L
        /\ page[n].text \subseteq L /\ Inserted(page[n].queue) \subseteq L
        /\ \A m \in In(toPage[n]) : m.text \subseteq L
        /\ \A m \in In(toHost[n]) : m.text \subseteq L
    BY LandedHas
  <1>2. \A m \in In(toHost'[n]) : m.text \subseteq L
    <2>1. \A m \in In(toHost'[n]) : m \in In(toHost[n]) \/ m = Message("ready", NoRequest, 0, {})
      BY HostQueues
    <2> QED
      BY <1>1, <2>1 DEF Message
  <1>3. Direct(n) \/ Committed(n) => task.mark \in L
    OBVIOUS
  <1> HIDE DEF L
  <1>4. SUFFICES Landed(n)' \subseteq L
    BY DEF L
  <1>5. ASSUME page'[n] = page[n], file'[n].body \subseteq L, doc'[n].body \subseteq L,
               \A m \in In(toPage'[n]) : m \in In(toPage[n]) \/ m.text \subseteq L
        PROVE  Landed(n)' \subseteq L
    <2>1. \A m \in In(toPage'[n]) : m.text \subseteq L
      BY <1>1, <1>5
    <2> QED
      BY <1>1, <1>2, <1>5, <2>1 DEF Landed
  <1>6. ASSUME NEW m, Keeps(n, <<m>>), m.text \subseteq L,
               file'[n].body \subseteq L, doc'[n].body \subseteq L
        PROVE  Landed(n)' \subseteq L
    <2>1. In(toPage'[n]) = In(toPage[n]) \cup {m} /\ page'[n] = page[n]
      BY <1>6, KeepsSays DEF Keeps
    <2> QED
      BY <1>5, <1>6, <2>1
  <1>7. \A was, is : Stored(n, was, is) /\ was \subseteq L => is \subseteq L
    <2>1. toHost[n] # <<>> => Head(toHost[n]) \in In(toHost[n])
      BY Queues
    <2> QED
      BY <1>1, <2>1 DEF Stored
  <1>8. StoresOwn(n) => file'[n].body \subseteq L /\ doc'[n].body \subseteq L
    BY <1>1, <1>7 DEF StoresOwn
  <1>9. toPage[n] \in Seq(Messages(ToPageTypes))
    BY Queues
  <1>10. CASE Gone(n)
    <2>1. /\ page'[n].text = {} /\ page'[n].queue = <<>>
          /\ In(toPage'[n]) = {} /\ StoresOwn(n)
      BY <1>10, InNothing DEF Gone, PageIn
    <2>2. Inserted(page'[n].queue) = {}
      BY <2>1 DEF Inserted
    <2> QED
      BY <1>2, <1>8, <2>1, <2>2 DEF Landed
  <1>11. CASE Opened(n)
    <2>1. /\ page'[n].text = {} /\ page'[n].queue = <<>>
          /\ In(toPage'[n]) = {} /\ file' = file /\ doc'[n] = file[n]
      BY <1>11, InNothing DEF Opened, OpenWindow, PageIn
    <2>2. Inserted(page'[n].queue) = {}
      BY <2>1 DEF Inserted
    <2> QED
      BY <1>1, <1>2, <2>1, <2>2 DEF Landed
  <1>12. CASE Quiet(n)
    <2> DEFINE f == Message("request_flush", nextReq, 0, {})
    <2>1. f.text = {}
      BY DEF Message
    <2>2. (Keeps(n, <<>>) \/ Keeps(n, <<f>>)) /\ StoresOwn(n)
      BY <1>12 DEF Quiet
    <2> HIDE DEF f
    <2>3. CASE Keeps(n, <<>>)
      <3>1. toPage'[n] = toPage[n] /\ page'[n] = page[n]
        BY <1>9, <2>3 DEF Keeps
      <3> QED
        BY <1>5, <1>8, <2>2, <3>1
    <2> QED
      BY <1>6, <1>8, <2>1, <2>2, <2>3
  <1>13. CASE Handed(n)
    <2> DEFINE m == Message("load_note", NoRequest, hostGen[n], doc[n].body)
    <2>1. toPage'[n] = Append(toPage[n], m) /\ UNCHANGED <<file, doc>> /\ page'[n] = page[n]
      BY <1>13 DEF Handed
    <2>2. m.text = doc[n].body /\ m \in Messages(ToPageTypes)
      BY DEF Message, Messages, ToPageTypes, TypeOK, WindowTypeOK, Documents, NoRequest
    <2> HIDE DEF m
    <2>3. In(toPage'[n]) = In(toPage[n]) \cup {m}
      BY <1>9, <2>1, <2>2, InAppend
    <2> QED
      BY <1>1, <1>5, <2>1, <2>2, <2>3
  <1>14. CASE Claimed(n)
    <2> DEFINE m == Message("begin_external_write", task.req, hostGen[n], {})
    <2>1. Keeps(n, <<m>>) /\ UNCHANGED <<file, doc>> /\ m.text = {}
      BY <1>14 DEF Claimed, Message
    <2> HIDE DEF m
    <2> QED
      BY <1>1, <1>6, <2>1
  <1>15. CASE LetGoOf(n)
    <2> DEFINE m == Message("abort_external_write", task.req, 0, {})
    <2>1. Keeps(n, <<m>>) /\ UNCHANGED <<file, doc>> /\ m.text = {}
      BY <1>15 DEF LetGoOf, Message
    <2> HIDE DEF m
    <2> QED
      BY <1>1, <1>6, <2>1
  <1>16. CASE Taken(n)
    BY <1>1, <1>5, <1>16 DEF Taken
  <1>17. CASE Lost(n)
    <2>1. PICK i \in DOMAIN toPage[n] :
             toPage'[n] = SubSeq(toPage[n], 1, i - 1) \o SubSeq(toPage[n], i + 1, Len(toPage[n]))
      BY <1>17 DEF Lost
    <2>2. In(toPage'[n]) \subseteq In(toPage[n])
      BY <1>9, <2>1, InWithout
    <2> QED
      BY <1>1, <1>5, <1>17, <2>2 DEF Lost
  <1>18. ASSUME NEW d \in Documents, d.body \subseteq L, task.mark \in L
         PROVE  Mutated(task, d).body \subseteq L
    BY <1>18, MutatedMarks
  <1>19. CASE Direct(n)
    <2>1. file'[n].body \subseteq L
      BY <1>1, <1>3, <1>18, <1>19 DEF Direct, TypeOK, WindowTypeOK
    <2>2. doc'[n].body \subseteq L
      BY <1>1, <1>19, <2>1 DEF Direct
    <2> QED
      BY <1>5, <1>19, <2>1, <2>2 DEF Direct
  <1>20. CASE Committed(n)
    <2> DEFINE m == Message("apply_external_document", task.req, hostGen[n] + 1, file'[n].body)
    <2>1. Keeps(n, <<m>>) /\ m.text = file'[n].body /\ doc'[n].body = file'[n].body
      BY <1>20 DEF Committed, Message
    <2> HIDE DEF m
    <2>2. /\ LiveBase(n, task.text) \in Documents
          /\ LiveBase(n, task.text).body = task.text
      BY DEF TypeOK, WindowTypeOK, Tasks, LiveBase, Documents
    <2>3. task.text \subseteq L
      BY <1>1, <1>20, CommittedOnPage
    <2>4. file'[n].body \subseteq L
      BY <1>3, <1>18, <1>20, <2>2, <2>3 DEF Committed
    <2> QED
      BY <1>6, <2>1, <2>4
  <1> QED
    BY <1>10, <1>11, <1>12, <1>13, <1>14, <1>15, <1>16, <1>17, <1>19, <1>20 DEF HostStep

(* A mark is in no note before its write is committed, nor ever after it   *)
(* was refused.                                                            *)
LEMMA MarksStep ==
    ASSUME TypeOK, TypeOK', ClaimsAccounted, PagesAccounted, RequestsToldApart, BarrierHolds,
           MarksAccounted, [Next]_vars
    PROVE  MarksAccounted'
  <1>1. /\ nextMark \in Nat /\ nextMark > 0 /\ nextMark' \in Nat
        /\ refused \subseteq Marks /\ refused' \subseteq Marks
        /\ task \in Tasks /\ task' \in Tasks
        /\ task.mark \in Marks \cup {0} /\ task'.mark \in Marks \cup {0}
        /\ Marks \subseteq Nat \ {0}
    <2>1. /\ nextMark \in 1 .. MaxMarks + 1 /\ nextMark' \in 1 .. MaxMarks + 1
          /\ refused \in Bodies /\ refused' \in Bodies
          /\ task \in Tasks /\ task' \in Tasks
      BY DEF TypeOK, WindowTypeOK, PageTypeOK
    <2> QED
      BY <2>1, PageAssumption DEF Marks, Bodies, Tasks
  <1>2. TaskMoves
    BY TasksMove
  <1>3. /\ \A i \in Unlanded : i < nextMark
        /\ \A n \in Notes : \A i \in Landed(n) : i < nextMark /\ i \notin Unlanded
        /\ Pending => task.mark \notin refused
    BY DEF MarksAccounted
  <1>4. Unlanded \subseteq Nat \ {0} /\ Unlanded' \subseteq Nat \ {0}
    BY <1>1 DEF Unlanded
  <1>5. \/ Unlanded' \subseteq Unlanded
        \/ /\ Unlanded' \subseteq Unlanded \cup {nextMark}
           /\ nextMark' = nextMark + 1
           /\ task.stage = "idle" /\ task' # task
    BY <1>2 DEF TaskMoves, Unlanded, Pending, HeldStages
  <1>6. \A i \in Unlanded' : i < nextMark'
    BY <1>1, <1>2, <1>3, <1>4, <1>5 DEF TaskMoves
  <1>7. Pending' => task'.mark \notin refused'
    <2>1. CASE task' = task /\ refused' = refused
      BY <1>3, <2>1 DEF Pending
    <2>2. CASE task'.mark = task.mark /\ (Pending' => Pending) /\ refused' = refused
      BY <1>3, <2>2
    <2>3. CASE task'.stage = "idle"
      BY <2>3 DEF Pending
    <2>4. CASE task'.mark \in {0, nextMark} /\ refused' = refused
      BY <1>1, <1>3, <2>4 DEF Unlanded
    <2> QED
      BY <1>2, <2>1, <2>2, <2>3, <2>4 DEF TaskMoves
  <1>8. ASSUME NEW n \in Notes, NEW i \in Landed(n)', i \in Landed(n)
        PROVE  i < nextMark' /\ i \notin Unlanded'
    <2>1. i < nextMark /\ i \notin Unlanded
      BY <1>3, <1>8
    <2>2. i # nextMark
      BY <1>1, <2>1
    <2>3. i < nextMark'
      <3>1. i \in Nat
        BY <1>8, LandedMarks
      <3>2. nextMark' \in {nextMark, nextMark + 1}
        BY <1>2 DEF TaskMoves
      <3> QED
        BY <1>1, <2>1, <3>1, <3>2
    <2> QED
      BY <1>5, <2>1, <2>2, <2>3
  <1>9. ASSUME NEW a \in Notes, PageStep(a), NEW n \in Notes, NEW i \in Landed(n)'
        PROVE  i < nextMark' /\ i \notin Unlanded'
    <2>1. UNCHANGED <<task, refused, file, doc>>
      BY <1>9 DEF PageStep, OnlyPage, hostVars
    <2>2. CASE n = a
      <3>1. i \in Landed(n) \/ (i = nextMark /\ nextMark' = nextMark + 1)
        BY <1>9, <2>2, LandedPage
      <3>2. CASE i = nextMark /\ nextMark' = nextMark + 1
        <4>1. Unlanded' = Unlanded
          BY <2>1 DEF Unlanded, Pending
        <4>2. nextMark \notin Unlanded
          BY <1>1, <1>3
        <4> QED
          BY <1>1, <3>2, <4>1, <4>2
      <3> QED
        BY <1>8, <1>9, <3>1, <3>2
    <2>3. CASE n # a
      <3>1. page'[n] = page[n] /\ toPage'[n] = toPage[n] /\ toHost'[n] = toHost[n]
        BY <1>9, <2>3 DEF PageStep, OnlyPage
      <3>2. Landed(n)' = Landed(n)
        BY <2>1, <3>1 DEF Landed
      <3> QED
        BY <1>8, <1>9, <3>2
    <2> QED
      BY <2>2, <2>3
  <1>10. ASSUME NEW n \in Notes, HostStep(n), NEW i \in Landed(n)'
         PROVE  i < nextMark' /\ i \notin Unlanded'
    <2>1. \/ i \in Landed(n)
          \/ (Direct(n) \/ Committed(n)) /\ i = task.mark
      BY <1>10, LandedHost DEF BarrierHolds
    <2>2. CASE (Direct(n) \/ Committed(n)) /\ i = task.mark
      <3>1. /\ task.stage \in {"queued", "resumed"}
            /\ task'.stage \in {"idle", "ack"}
            /\ Pending
        BY <1>1, <2>2 DEF Direct, Committed, IsIdle, Tasks, Pending
      <3>2. refused' = refused
        <4>1. CASE Direct(n)
          BY <4>1 DEF Direct
        <4>2. CASE Committed(n)
          <5>1. task'.stage = "ack"
            BY <1>1, <4>2 DEF Committed, Tasks
          <5> QED
            BY <1>2, <5>1 DEF TaskMoves
        <4> QED
          BY <2>2, <4>1, <4>2
      <3>3. Unlanded' = refused
        BY <3>1, <3>2 DEF Unlanded, Pending
      <3>4. i = 0 \/ i \in Unlanded
        BY <2>2, <3>1 DEF Unlanded
      <3>5. i < nextMark
        BY <1>1, <1>3, <3>4
      <3>6. i < nextMark'
        <4>1. i \in Nat
          <5>1. task.mark \in Marks \cup {0} /\ Marks \subseteq Nat
            BY <1>1
          <5>2. task.mark \in Nat
            BY <5>1, PageAssumption DEF Marks
          <5> QED
            BY <2>2, <5>2
        <4>2. nextMark' \in {nextMark, nextMark + 1}
          BY <1>2 DEF TaskMoves
        <4> QED
          BY <1>1, <3>5, <4>1, <4>2
      <3> QED
        BY <1>3, <2>2, <3>1, <3>3, <3>6
    <2> QED
      BY <1>8, <1>10, <2>1, <2>2
  <1>11. \A n \in Notes : \A i \in Landed(n)' : i < nextMark' /\ i \notin Unlanded'
    <2>1. CASE \E a \in Notes : PageStep(a)
      BY <1>9, <2>1
    <2>2. CASE \A n \in Notes : HostStep(n)
      BY <1>10, <2>2
    <2> QED
      BY <2>1, <2>2, EveryStep
  <1> QED
    BY <1>6, <1>7, <1>11 DEF MarksAccounted

(* A client told that nothing was changed may repeat its request: what it  *)
(* asked to be written is in no note, now or later, however late a         *)
(* snapshot arrives (settle_external_write and                             *)
(* abort_external_write in src/src/note_window.rs).                        *)
THEOREM RefusedNeverInFile == Spec => []RefusedNeverLands
  <1>1. Init => MarksAccounted
    <2> SUFFICES ASSUME Init
                 PROVE  MarksAccounted
      OBVIOUS
    <2>1. /\ \A n \in Notes : /\ toPage[n] = <<>> /\ toHost[n] = <<>>
                              /\ page[n].text = {} /\ page[n].queue = <<>>
                              /\ file[n].body = {} /\ doc[n].body = {}
          /\ refused = {} /\ task.stage = "idle"
      BY DEF Init, WindowInit, PageInit, PageIn, EmptyDocument, NoTask
    <2>2. \A n \in Notes : Landed(n) = {}
      BY <2>1, InNothing DEF Landed, Inserted
    <2> QED
      BY <2>1, <2>2 DEF MarksAccounted, Unlanded, Pending
  <1>2. /\ TypeOK /\ TypeOK' /\ ClaimsAccounted /\ PagesAccounted /\ RequestsToldApart
        /\ BarrierHolds /\ MarksAccounted /\ [Next]_vars
        => MarksAccounted'
    BY MarksStep
  <1>3. MarksAccounted => RefusedNeverLands
    BY DEF MarksAccounted, Landed, Unlanded, RefusedNeverLands
  <1> QED
    BY <1>1, <1>2, <1>3, TypeCorrect, ClaimsAlwaysAccounted, PagesAlwaysAccounted,
       BarrierAlwaysHolds, PTL DEF Spec

-----------------------------------------------------------------------------
(* What a discard takes away.                                              *)

(* A note leaves notes/ in a discard only after its file and its text were *)
(* compared with what the caller had read.                                 *)
LEMMA DiscardChecks ==
    ASSUME TypeOK, ClaimsAccounted, PagesAccounted, BarrierHolds, NEW n \in Notes,
           task.note = n, task.kind = "discard", task.stage # "idle", task'.stage = "idle",
           n \in live, n \notin live', [Next]_vars
    PROVE  /\ file[n] = task.expected
           /\ page[n].phase \in {"syncing", "slow"} => page[n].text = task.expected.body
  <1>1. task' # task /\ live' # live
    OBVIOUS
  <1>2. task \in Tasks
    BY DEF TypeOK, WindowTypeOK
  <1>3. ASSUME NEW a \in Notes
        PROVE  ~(ReaderActs(a) \/ PageWorks(a) \/ PageGrowsSlow(a) \/ SomebodyAsks(a)
                 \/ TimerFires(a) \/ DeliveryFails(a) \/ HostHears(a))
    <2>1. ~(ReaderActs(a) \/ PageWorks(a) \/ PageGrowsSlow(a))
      BY <1>1 DEF ReaderActs, PageWorks, PageGrowsSlow, hostVars
    <2>2. ~SomebodyAsks(a)
      BY <1>1 DEF SomebodyAsks, OpenWindow, TrashNote, Submit, IsIdle
    <2>3. ~(TimerFires(a) \/ DeliveryFails(a))
      BY <1>1, <1>2 DEF TimerFires, ExpireFlush, SnapshotTimeout, AckTimeout, DeliveryFails,
                        AckSettled, Tasks
    <2>4. ~HostHears(a)
      <3>1. ~(Ready(a) \/ ContentChanged(a) \/ PaperChanged(a) \/ SaveAndCloseAsked(a)
              \/ FlushResponse(a))
        BY <1>1 DEF Ready, ContentChanged, PaperChanged, SaveAndCloseAsked, FlushResponse
      <3>2. ~(SnapshotReady(a) \/ ApplyAnswered(a))
        BY <1>1 DEF SnapshotReady, ApplyAnswered
      <3> QED
        BY <3>1, <3>2 DEF HostHears
    <2> QED
      BY <2>1, <2>2, <2>3, <2>4
  <1>4. \A operation : ~StartFlushAll(operation)
    BY <1>1 DEF StartFlushAll
  <1>5. ~UNCHANGED vars
    BY <1>1 DEF vars, hostVars
  <1>6. PICK a \in Notes : AuthorityWorks(a)
    BY <1>3, <1>4, <1>5 DEF Next
  <1>7. ASSUME NEW ok, CommitTrash(a, live, ok)
        PROVE  ok
    BY <1>1, <1>7 DEF CommitTrash
  <1>8. CASE DiscardDirectly(a)
    <2>1. task.stage = "queued" /\ task.note = a /\ win[a] # "loaded"
      BY <1>8 DEF DiscardDirectly
    <2>2. file[n] = task.expected
      BY <1>7, <1>8, <2>1 DEF DiscardDirectly
    <2>3. page[n].phase \notin {"syncing", "slow"}
      <3>1. CASE win[n] = "loading"
        BY <3>1 DEF BarrierHolds, Barrier, LoadingPage
      <3>2. CASE win[n] = "none"
        BY <2>1, <3>2 DEF PagesAccounted, HeldByTask, HeldStages
      <3> QED
        BY <2>1, <3>1, <3>2 DEF TypeOK, WindowTypeOK
    <2> QED
      BY <2>2, <2>3
  <1>9. CASE ResumeDiscard(a)
    <2>1. /\ task.stage = "resumed" /\ task.note = a /\ task.ok
          /\ LiveBase(a, task.text) = task.expected
          /\ file[a] = task.expected
      BY <1>7, <1>9 DEF ResumeDiscard
    <2>2. LiveBase(a, task.text).body = task.text
      BY DEF LiveBase, TypeOK, WindowTypeOK, Documents
    <2>3. page[n].text = task.text
      BY <2>1 DEF BarrierHolds, Barrier, SnapshotsHold
    <2> QED
      BY <2>1, <2>2, <2>3
  <1>10. CASE MutateDirectly(a) \/ AskSnapshot(a) \/ ResumeMutation(a) \/ FinishWrite(a)
    BY <1>10, <1>1 DEF MutateDirectly, AskSnapshot, ResumeMutation, FinishWrite, SaveDocument,
                       CommitOnceWritten, GiveUp
  <1> QED
    BY <1>6, <1>8, <1>9, <1>10 DEF AuthorityWorks

(* A conditional discard takes away exactly the note its caller had read   *)
(* (discard_note and validate_discard_base in src/src/write_authority.rs). *)
THEOREM DiscardAlwaysTakesWhatWasRead == Spec => DiscardTakesWhatWasRead
  <1>1. /\ TypeOK /\ ClaimsAccounted /\ PagesAccounted /\ RequestsToldApart
        /\ BarrierHolds /\ [Next]_vars
        => [\A n \in Notes :
              /\ task.note = n /\ task.kind = "discard" /\ task.stage # "idle"
              /\ task'.stage = "idle"
              /\ n \in live /\ n \notin live'
              => /\ file[n] = task.expected
                 /\ page[n].phase \in {"syncing", "slow"} =>
                        page[n].text = task.expected.body]_vars
    BY DiscardChecks
  <1> QED
    BY <1>1, TypeCorrect, ClaimsAlwaysAccounted, PagesAlwaysAccounted, BarrierAlwaysHolds,
       PTL DEF Spec, DiscardTakesWhatWasRead

-----------------------------------------------------------------------------
(* The order of a queue.                                                   *)

(* Of any two messages of a queue, the earlier and the later are in R.     *)
Ordered(s, R) == \A i, j \in DOMAIN s : i < j => <<s[i], s[j]>> \in R

(* What is left of a queue is in order, and what was taken was before it.  *)
LEMMA OrderedTail ==
    ASSUME NEW T, NEW s \in Seq(T), s # <<>>, NEW R, Ordered(s, R)
    PROVE  Ordered(Tail(s), R) /\ \A m \in In(Tail(s)) : <<Head(s), m>> \in R
  <1>1. \A k \in DOMAIN Tail(s) :
            k \in Nat \ {0} /\ k + 1 \in DOMAIN s /\ Tail(s)[k] = s[k + 1]
    OBVIOUS
  <1>2. 1 \in DOMAIN s /\ Head(s) = s[1]
    OBVIOUS
  <1> DEFINE t == Tail(s)
  <1> HIDE DEF t
  <1>3. Ordered(t, R)
    <2> SUFFICES ASSUME NEW i \in DOMAIN t, NEW j \in DOMAIN t, i < j
                 PROVE  <<t[i], t[j]>> \in R
      BY DEF Ordered
    <2>1. /\ i \in Nat /\ j \in Nat /\ i + 1 < j + 1
          /\ i + 1 \in DOMAIN s /\ j + 1 \in DOMAIN s
          /\ t[i] = s[i + 1] /\ t[j] = s[j + 1]
      BY <1>1 DEF t
    <2> QED
      BY <2>1 DEF Ordered
  <1>4. ASSUME NEW m \in In(t)
        PROVE  <<Head(s), m>> \in R
    <2>1. PICK k \in DOMAIN t : m = t[k]
      BY DEF In
    <2>2. k \in Nat \ {0} /\ k + 1 \in DOMAIN s /\ m = s[k + 1]
      BY <1>1, <2>1 DEF t
    <2> QED
      BY <1>2, <2>2 DEF Ordered
  <1> QED
    BY <1>3, <1>4 DEF t

(* A queue stays in order when what is added may follow all there is.      *)
LEMMA OrderedAppend ==
    ASSUME NEW T, NEW s \in Seq(T), NEW m, NEW R, Ordered(s, R),
           \A i \in In(s) : <<i, m>> \in R
    PROVE  Ordered(Append(s, m), R)
  <1>1. \A k \in DOMAIN Append(s, m) :
            \/ k \in DOMAIN s /\ Append(s, m)[k] = s[k] /\ k <= Len(s)
            \/ k = Len(s) + 1 /\ Append(s, m)[k] = m
    OBVIOUS
  <1>2. \A k \in DOMAIN s : s[k] \in In(s) /\ k \in Nat /\ Len(s) \in Nat /\ k <= Len(s)
    BY DEF In
  <1> QED
    BY <1>1, <1>2 DEF Ordered

(* What a page may add to what it said.                                    *)
Adds(n, m) ==
    LET h == Head(toPage[n]) IN
    \/ Acts(n) /\ MaySay(n, m)
    \/ Freezes(n) /\ m = Message("external_write_ready", h.req, page[n].gen, page[n].text)
    \/ Sticks(n) /\ m = Message("external_write_apply_failed", h.req, 0, {})
    \/ Adopts(n) /\ ClosedWith(n, h.gen, h.text, m)
    \/ Frees(n) /\ ClosedWith(n, page[n].gen, page[n].text, m)

(* The close that was held comes before the answer of a page that adopted. *)
LEMMA ReleasesInOrder ==
    ASSUME TypeOK, NEW n \in Notes, NEW gen, NEW text, NEW answer, Releases(n, gen, text, answer),
           NEW R, Ordered(toHost[n], R),
           \A m \in Messages(ToHostTypes) :
               ClosedWith(n, gen, text, m) => \A i \in In(toHost[n]) : <<i, m>> \in R,
           \/ answer = <<>>
           \/ \E a \in Messages(ToHostTypes) :
                 answer = <<a>> /\ \A i \in Messages(ToHostTypes) : <<i, a>> \in R
    PROVE  Ordered(toHost'[n], R)
  <1>1. toHost[n] \in Seq(Messages(ToHostTypes)) /\ In(toHost[n]) \subseteq Messages(ToHostTypes)
    BY Queues, InSeq DEF TypeOK, PageTypeOK
  <1>2. PICK close \in Seq(Messages(ToHostTypes)) :
            /\ toHost'[n] = toHost[n] \o (close \o answer)
            /\ \/ close = <<>>
               \/ \E m \in Messages(ToHostTypes) : close = <<m>> /\ ClosedWith(n, gen, text, m)
    BY DEF Releases, ClosedWith
  <1>3. PICK s \in Seq(Messages(ToHostTypes)) :
            /\ s = toHost[n] \o close
            /\ Ordered(s, R)
            /\ In(s) \subseteq Messages(ToHostTypes)
    <2>1. CASE close = <<>>
      <3>1. toHost[n] \o close = toHost[n]
        BY <1>1, <2>1
      <3> QED
        BY <1>1, <3>1
    <2>2. ASSUME NEW m \in Messages(ToHostTypes), close = <<m>>, ClosedWith(n, gen, text, m)
          PROVE  \E s \in Seq(Messages(ToHostTypes)) :
                    s = toHost[n] \o close /\ Ordered(s, R)
                      /\ In(s) \subseteq Messages(ToHostTypes)
      <3>1. toHost[n] \o close = Append(toHost[n], m)
            /\ Append(toHost[n], m) \in Seq(Messages(ToHostTypes))
        BY <1>1, <2>2
      <3>2. Ordered(Append(toHost[n], m), R)
        BY <1>1, <2>2, OrderedAppend
      <3>3. In(Append(toHost[n], m)) = In(toHost[n]) \cup {m}
        BY <1>1, InAppend
      <3> QED
        BY <1>1, <3>1, <3>2, <3>3
    <2> QED
      BY <1>2, <2>1, <2>2
  <1>4. CASE answer = <<>>
    <2>1. toHost[n] \o (close \o <<>>) = toHost[n] \o close
      BY <1>1, <1>2
    <2> QED
      BY <1>2, <1>3, <1>4, <2>1
  <1>5. ASSUME NEW a \in Messages(ToHostTypes), answer = <<a>>,
               \A i \in Messages(ToHostTypes) : <<i, a>> \in R
        PROVE  Ordered(toHost'[n], R)
    <2>1. toHost[n] \o (close \o <<a>>) = Append(toHost[n] \o close, a)
      <3>1. \A x, y \in Seq(Messages(ToHostTypes)) : x \o (y \o <<a>>) = Append(x \o y, a)
        BY <1>5
      <3> QED
        BY <1>1, <1>2, <3>1
    <2>2. Ordered(Append(s, a), R)
      BY <1>3, <1>5, OrderedAppend
    <2> QED
      BY <1>2, <1>3, <1>5, <2>1, <2>2
  <1> QED
    BY <1>4, <1>5

(* What a page said stays in order when what it adds may follow it.        *)
LEMMA OrderedPage ==
    ASSUME TypeOK, NEW n \in Notes, PageStep(n), NEW R, Ordered(toHost[n], R),
           \A m \in Messages(ToHostTypes) :
               Adds(n, m) => \A i \in In(toHost[n]) : <<i, m>> \in R,
           \A i, m \in Messages(ToHostTypes) :
               m.type = "external_write_applied" => <<i, m>> \in R
    PROVE  Ordered(toHost'[n], R)
  <1>1. toHost[n] \in Seq(Messages(ToHostTypes)) /\ page[n] \in Pages
    BY DEF TypeOK, PageTypeOK, WindowTypeOK
  <1>2. ASSUME NEW m \in Messages(ToHostTypes), Adds(n, m), toHost'[n] = Append(toHost[n], m)
        PROVE  Ordered(toHost'[n], R)
    BY <1>1, <1>2, OrderedAppend
  <1>3. toPage[n] # <<>> => Head(toPage[n]) \in Messages(ToPageTypes)
    BY Queues
  <1>4. CASE Acts(n)
    BY <1>2, <1>4 DEF Acts, Adds, MaySay
  <1>5. CASE Loads(n)
    BY <1>5 DEF Loads
  <1>6. CASE Freezes(n)
    <2> DEFINE m == Message("external_write_ready", Head(toPage[n]).req, page[n].gen, page[n].text)
    <2>1. m \in Messages(ToHostTypes)
      BY <1>1, <1>3, <1>6 DEF Freezes, Takes, Message, Messages, Pages, ToHostTypes
    <2>2. toHost'[n] = Append(toHost[n], m) /\ Adds(n, m)
      BY <1>6 DEF Freezes, Adds
    <2> HIDE DEF m
    <2> QED
      BY <1>2, <2>1, <2>2
  <1>7. CASE Sticks(n)
    <2> DEFINE m == Message("external_write_apply_failed", Head(toPage[n]).req, 0, {})
    <2>1. m \in Messages(ToHostTypes)
      BY <1>1, <1>3, <1>7 DEF Sticks, Takes, Message, Messages, Bodies, ToHostTypes
    <2>2. toHost'[n] = Append(toHost[n], m) /\ Adds(n, m)
      BY <1>7 DEF Sticks, Adds
    <2> HIDE DEF m
    <2> QED
      BY <1>2, <2>1, <2>2
  <1>8. CASE Adopts(n)
    <2> DEFINE h == Head(toPage[n])
               a == Message("external_write_applied", h.req, h.gen, {})
    <2>1. a \in Messages(ToHostTypes) /\ a.type = "external_write_applied"
      BY <1>1, <1>3, <1>8 DEF Adopts, Takes, Message, Messages, Bodies, ToHostTypes
    <2>2. Releases(n, h.gen, h.text, <<a>>)
      BY <1>8 DEF Adopts
    <2>3. \A m : ClosedWith(n, h.gen, h.text, m) => Adds(n, m)
      BY <1>8 DEF Adds
    <2> HIDE DEF a, h
    <2> QED
      BY <2>1, <2>2, <2>3, ReleasesInOrder
  <1>9. CASE Frees(n)
    <2>1. Releases(n, page[n].gen, page[n].text, <<>>)
      BY <1>9 DEF Frees
    <2>2. \A m : ClosedWith(n, page[n].gen, page[n].text, m) => Adds(n, m)
      BY <1>9 DEF Adds
    <2> QED
      BY <2>1, <2>2, ReleasesInOrder
  <1> QED
    BY <1>4, <1>5, <1>6, <1>7, <1>8, <1>9 DEF PageStep

(* The host takes what a page said in the order it was said.               *)
LEMMA HostTakes ==
    ASSUME TypeOK, NEW n \in Notes, HostStep(n)
    PROVE  \/ toHost'[n] = toHost[n]
           \/ toHost[n] # <<>> /\ toHost'[n] = Tail(toHost[n])
           \/ toHost'[n] = <<>>
           \/ toHost'[n] = <<Message("ready", NoRequest, 0, {})>>
  BY DEF HostStep, Gone, Quiet, Opened, Handed, Hears, Direct, Claimed, Taken, LetGoOf, Committed,
         Lost, Keeps

(* So what is left of it is in order.                                      *)
LEMMA OrderedHost ==
    ASSUME TypeOK, NEW n \in Notes, HostStep(n), NEW R, Ordered(toHost[n], R)
    PROVE  Ordered(toHost'[n], R)
  <1>1. toHost[n] \in Seq(Messages(ToHostTypes))
    BY DEF TypeOK, PageTypeOK, WindowTypeOK
  <1>2. toHost[n] # <<>> => Ordered(Tail(toHost[n]), R)
    BY <1>1, OrderedTail
  <1>3. \A m : Ordered(<<m>>, R)
    BY DEF Ordered
  <1>4. Ordered(<<>>, R)
    BY DEF Ordered
  <1> QED
    BY <1>2, <1>3, <1>4, HostTakes

-----------------------------------------------------------------------------
(* What a page answered with.                                              *)

Pairs == Messages(ToHostTypes) \X Messages(ToHostTypes)

(* A text the host would save.                                             *)
Current(n, m) == Saves(m) /\ m.gen = hostGen[n]

Growing(n) ==
    {p \in Pairs : Current(n, p[1]) /\ Current(n, p[2]) => p[1].text \subseteq p[2].text}

(* The texts on their way grow, up to the one the page has.                *)
TextsGrow(n) ==
    /\ Ordered(toHost[n], Growing(n))
    /\ \A m \in In(toHost[n]) :
          Current(n, m) => /\ Holds(n) /\ page[n].gen = hostGen[n]
                           /\ m.text \subseteq page[n].text

NoCloseAfter(n) ==
    {p \in Pairs :
        p[1].type = "external_write_ready" /\ pendingWrite[n] # NoRequest
            /\ p[1].req = pendingWrite[n]
        => p[2].type # "save_and_close"}

(* A page asks to be closed with a text the host would save, and does not  *)
(* ask while it is frozen: the generation does not move under its request. *)
ClosesCurrent(n) ==
    /\ \A m \in In(toHost[n]) : m.type = "save_and_close" => m.gen = hostGen[n]
    /\ Ordered(toHost[n], NoCloseAfter(n))
    /\ task.note = n /\ task.stage = "resumed" /\ task.ok =>
          \A m \in In(toHost[n]) : m.type # "save_and_close"

(* What the page answered with is in every later text.                     *)
ReportedCarried(n) ==
    /\ Carried(n, reported[n])
    /\ page[n].phase = "loading" => reported[n] = {}

AnswersAccounted ==
    \A n \in Notes : TextsGrow(n) /\ ClosesCurrent(n) /\ ReportedCarried(n)

(* What is on its way to the host was there, or was added.                 *)
LEMMA AddedOrThere ==
    ASSUME TypeOK, NEW n \in Notes, PageStep(n), NEW m \in In(toHost'[n])
    PROVE  m \in In(toHost[n]) \/ Adds(n, m) \/ m.type = "external_write_applied"
  <1>1. Loads(n) => toHost'[n] = toHost[n]
    BY DEF Loads
  <1> QED
    BY <1>1, PageSays DEF PageStep, Adds, Message

(* The text of a page of the present generation only grows.                *)
LEMMA PageGrows ==
    ASSUME TypeOK, ClaimsAccounted, PagesAccounted, RequestsToldApart, NEW n \in Notes,
           Barrier(n), PageStep(n), Holds(n), page[n].gen = hostGen[n]
    PROVE  Holds(n)' /\ page'[n].gen = hostGen[n] /\ page[n].text \subseteq page'[n].text
  <1>1. toPage[n] # <<>> => Head(toPage[n]) \in In(toPage[n])
    BY Queues
  <1>2. ~Loads(n)
    BY <1>1 DEF Loads, Takes, Barrier, DocumentsAwaited, Holds
  <1>3. ~Sticks(n) /\ ~Adopts(n)
    BY <1>1, DocumentExpected DEF Sticks, Adopts, Takes
  <1> QED
    BY <1>2, <1>3 DEF PageStep, Acts, Freezes, Frees, Releases, Holds

(* What a page adds is its text, and no close while the host waits for it. *)
LEMMA AddedSays ==
    ASSUME TypeOK, ClaimsAccounted, PagesAccounted, RequestsToldApart, NEW n \in Notes,
           Barrier(n), PageStep(n), NEW m, Adds(n, m)
    PROVE  /\ Current(n, m) =>
                 /\ Holds(n)' /\ page'[n].gen = hostGen[n] /\ m.text \subseteq page'[n].text
                 /\ Holds(n) /\ page[n].gen = hostGen[n] => page[n].text \subseteq m.text
           /\ m.type = "save_and_close" =>
                 /\ m.gen = hostGen[n]
                 /\ pendingWrite[n] # NoRequest => ~Frozen(n, pendingWrite[n])
                 /\ ~(task.note = n /\ task.stage = "resumed" /\ task.ok)
  <1>1. toPage[n] # <<>> => Head(toPage[n]) \in In(toPage[n])
    BY Queues
  <1>2. page[n].phase \in Phases
    BY DEF TypeOK, WindowTypeOK, PageTypeOK, Pages
  <1> DEFINE h == Head(toPage[n])
  <1>3. CASE Acts(n) /\ MaySay(n, m)
    <2>1. Current(n, m) =>
             /\ Holds(n)' /\ page'[n].gen = hostGen[n] /\ m.text \subseteq page'[n].text
             /\ page[n].text \subseteq m.text
      BY <1>3 DEF MaySay, Acts, Current, Saves, Holds
    <2>2. ASSUME m.type = "save_and_close"
          PROVE  page[n].phase = "idle" /\ page[n].req = NoRequest /\ m.gen = hostGen[n]
      <3>1. Holds(n) /\ m.gen = page[n].gen /\ (page[n].phase = "idle" \/ page[n].req = NoRequest)
        BY <1>3, <2>2 DEF MaySay, Saves, Active
      <3> QED
        BY <1>2, <3>1 DEF Barrier, PageGeneration, Holds, Phases
    <2>3. task.note = n /\ task.stage = "resumed" /\ task.ok => Frozen(n, task.req)
      BY DEF Barrier, SnapshotsHold
    <2> QED
      BY <2>1, <2>2, <2>3 DEF Frozen
  <1>4. CASE Freezes(n) /\ m = Message("external_write_ready", h.req, page[n].gen, page[n].text)
    BY <1>4 DEF Message, Current, Saves
  <1>5. CASE Sticks(n) /\ m = Message("external_write_apply_failed", h.req, 0, {})
    BY <1>5 DEF Message, Current, Saves
  <1>6. CASE Adopts(n) /\ ClosedWith(n, h.gen, h.text, m)
    <2>1. /\ h \in In(toPage[n]) /\ h.type = "apply_external_document" /\ page[n].req = h.req
          /\ page'[n].phase = "idle" /\ page'[n].gen = h.gen
          /\ page'[n].text = h.text \cup Inserted(page[n].queue)
      BY <1>1, <1>6 DEF Adopts, Takes, Releases
    <2>2. /\ h.gen = hostGen[n]
          /\ page[n].gen # hostGen[n]
          /\ pendingWrite[n] # NoRequest => pendingWrite[n] # page[n].req
          /\ ~(task.note = n /\ task.stage = "resumed" /\ task.ok)
      BY <2>1, DocumentExpected
    <2> HIDE DEF h
    <2> QED
      BY <1>6, <2>1, <2>2 DEF ClosedWith, Holds, Frozen
  <1>7. CASE Frees(n) /\ ClosedWith(n, page[n].gen, page[n].text, m)
    <2>1. /\ h \in In(toPage[n]) /\ h.type = "abort_external_write" /\ page[n].req = h.req
          /\ page[n].phase # "unsynchronised"
          /\ page'[n].phase = "idle" /\ page'[n].gen = page[n].gen
          /\ page'[n].text = page[n].text \cup Inserted(page[n].queue)
      BY <1>1, <1>7 DEF Frees, Takes, Releases
    <2>2. /\ page[n].gen = hostGen[n]
          /\ pendingWrite[n] # NoRequest => pendingWrite[n] # page[n].req
          /\ ~(task.note = n /\ task.stage = "resumed" /\ task.ok)
      BY <2>1, AbortExpected
    <2> HIDE DEF h
    <2> QED
      BY <1>7, <2>1, <2>2 DEF ClosedWith, Holds, Frozen
  <1> QED
    BY <1>3, <1>4, <1>5, <1>6, <1>7 DEF Adds

(* A step of a page keeps its answers in order.                            *)
LEMMA AnswersPage ==
    ASSUME TypeOK, TypeOK', ClaimsAccounted, PagesAccounted, RequestsToldApart, NEW n \in Notes,
           Barrier(n), PageStep(n), TextsGrow(n), ClosesCurrent(n)
    PROVE  TextsGrow(n)' /\ ClosesCurrent(n)'
  <1>1. UNCHANGED <<hostGen, pendingWrite, task>>
    BY DEF PageStep, OnlyPage, hostVars
  <1>2. In(toHost[n]) \subseteq Messages(ToHostTypes)
    BY Queues, InSeq
  <1>3. \A i, m \in Messages(ToHostTypes) :
            /\ <<i, m>> \in Pairs /\ <<i, m>>[1] = i /\ <<i, m>>[2] = m
    BY DEF Pairs
  <1>4. \A i, m \in Messages(ToHostTypes) :
            m.type = "external_write_applied" =>
                <<i, m>> \in Growing(n) /\ <<i, m>> \in NoCloseAfter(n)
    BY <1>3 DEF Growing, NoCloseAfter, Current, Saves
  <1>5. \A m : Adds(n, m) =>
            /\ Current(n, m) =>
                 /\ Holds(n)' /\ page'[n].gen = hostGen[n] /\ m.text \subseteq page'[n].text
                 /\ Holds(n) /\ page[n].gen = hostGen[n] => page[n].text \subseteq m.text
            /\ m.type = "save_and_close" =>
                 /\ m.gen = hostGen[n]
                 /\ pendingWrite[n] # NoRequest => ~Frozen(n, pendingWrite[n])
                 /\ ~(task.note = n /\ task.stage = "resumed" /\ task.ok)
    BY AddedSays
  <1>6. \A m \in In(toHost'[n]) :
            m \in In(toHost[n]) \/ Adds(n, m) \/ m.type = "external_write_applied"
    BY AddedOrThere
  <1>7. Ordered(toHost'[n], Growing(n))
    <2>1. \A m \in Messages(ToHostTypes) :
              Adds(n, m) => \A i \in In(toHost[n]) : <<i, m>> \in Growing(n)
      BY <1>2, <1>3, <1>5 DEF Growing, TextsGrow
    <2> QED
      BY <1>4, <2>1, OrderedPage DEF TextsGrow
  <1>8. Ordered(toHost'[n], NoCloseAfter(n))
    <2>1. \A i \in In(toHost[n]) :
              i.type = "external_write_ready" /\ pendingWrite[n] # NoRequest
                  /\ i.req = pendingWrite[n] => Frozen(n, pendingWrite[n])
      BY DEF Barrier, SnapshotsHold
    <2>2. \A m \in Messages(ToHostTypes) :
              Adds(n, m) => \A i \in In(toHost[n]) : <<i, m>> \in NoCloseAfter(n)
      BY <1>2, <1>3, <1>5, <2>1 DEF NoCloseAfter
    <2> QED
      BY <1>4, <2>2, OrderedPage DEF ClosesCurrent
  <1>9. Growing(n)' = Growing(n) /\ NoCloseAfter(n)' = NoCloseAfter(n)
    BY <1>1 DEF Growing, NoCloseAfter, Current
  <1>10. ASSUME NEW m \in In(toHost'[n]), Current(n, m)
         PROVE  Holds(n)' /\ page'[n].gen = hostGen[n] /\ m.text \subseteq page'[n].text
    <2>1. CASE m \in In(toHost[n])
      <3>1. Holds(n) /\ page[n].gen = hostGen[n] /\ m.text \subseteq page[n].text
        BY <1>10, <2>1 DEF TextsGrow
      <3> QED
        BY <3>1, PageGrows
    <2>2. CASE m.type = "external_write_applied"
      BY <1>10, <2>2 DEF Current, Saves
    <2> QED
      BY <1>5, <1>6, <1>10, <2>1, <2>2
  <1>11. TextsGrow(n)'
    BY <1>1, <1>7, <1>9, <1>10 DEF TextsGrow, Current
  <1>12. ClosesCurrent(n)'
    BY <1>1, <1>5, <1>6, <1>8, <1>9 DEF ClosesCurrent
  <1> QED
    BY <1>11, <1>12

(* What a host step leaves of what the page said.                          *)
LEMMA HostLeaves ==
    ASSUME TypeOK, NEW n \in Notes, HostStep(n)
    PROVE  \A m \in In(toHost'[n]) : m \in In(toHost[n]) \/ m = Message("ready", NoRequest, 0, {})
  BY HostQueues

(* The host leaves the answers of a page in order.                         *)
LEMMA GrowsHost ==
    ASSUME TypeOK, TypeOK', ClaimsAccounted, PagesAccounted, RequestsToldApart, NEW n \in Notes,
           Barrier(n), HostStep(n), TextsGrow(n)
    PROVE  TextsGrow(n)'
  <1>1. ~Current(n, Message("ready", NoRequest, 0, {}))'
    BY DEF Current, Saves, Message
  <1>2. CASE hostGen'[n] = hostGen[n] /\ page'[n] = page[n]
    <2>1. Growing(n)' = Growing(n)
      BY <1>2 DEF Growing, Current
    <2>2. Ordered(toHost'[n], Growing(n))
      BY OrderedHost DEF TextsGrow
    <2>3. ASSUME NEW m \in In(toHost'[n]), Saves(m) /\ m.gen = hostGen'[n]
          PROVE  Holds(n)' /\ page'[n].gen = hostGen'[n] /\ m.text \subseteq page'[n].text
      <3>1. m \in In(toHost[n])
        BY <2>3, HostLeaves DEF Saves, Message
      <3> QED
        BY <1>2, <2>3, <3>1 DEF TextsGrow, Current, Holds
    <2>4. Ordered(toHost[n], Growing(n))'
      BY <2>1, <2>2 DEF Ordered
    <2> QED
      BY <2>3, <2>4 DEF TextsGrow, Current
  <1>3. ASSUME \A m \in In(toHost'[n]) : ~Current(n, m)'
        PROVE  TextsGrow(n)'
    <2>1. toHost'[n] \in Seq(Messages(ToHostTypes))
      BY DEF TypeOK, WindowTypeOK, PageTypeOK
    <2>2. \A i \in DOMAIN toHost'[n] :
              toHost'[n][i] \in In(toHost'[n]) /\ toHost'[n][i] \in Messages(ToHostTypes)
      BY <2>1 DEF In
    <2>3. \A i, j \in DOMAIN toHost'[n] :
              /\ <<toHost'[n][i], toHost'[n][j]>> \in Pairs
              /\ ~Current(n, toHost[n][i])'
      BY <1>3, <2>2 DEF Pairs
    <2> QED
      BY <1>3, <2>3 DEF TextsGrow, Ordered, Growing
  <1>4. CASE Gone(n)
    <2>1. In(toHost'[n]) = {}
      BY <1>4, InNothing DEF Gone
    <2> QED
      BY <1>3, <2>1
  <1>5. CASE Opened(n)
    BY <1>1, <1>3, <1>5, InOne DEF Opened
  <1>6. CASE Direct(n)
    <2>1. CASE win[n] = "loading"
      <3>1. toHost'[n] = <<Message("ready", NoRequest, 0, {})>>
        BY <1>6, <2>1 DEF Direct, Barrier, LoadingPage
      <3> QED
        BY <1>1, <1>3, <3>1, InOne
    <2> QED
      BY <1>2, <1>6, <2>1 DEF Direct
  <1>7. CASE Committed(n)
    <2>1. /\ toHost'[n] = toHost[n] /\ hostGen'[n] = hostGen[n] + 1
          /\ hostGen[n] \in Nat
      BY <1>7 DEF Committed, TypeOK, WindowTypeOK
    <2>2. \A m \in In(toHost[n]) : m.gen \in Nat /\ m.gen <= hostGen[n]
      <3>1. In(toHost[n]) \subseteq Messages(ToHostTypes)
        BY Queues, InSeq
      <3> QED
        BY <3>1 DEF Barrier, PageGeneration, Messages
    <2> QED
      BY <1>3, <2>1, <2>2 DEF Current
  <1>8. CASE Quiet(n)
    BY <1>2, <1>8 DEF Quiet, Keeps
  <1>9. CASE Handed(n) \/ Claimed(n) \/ Taken(n) \/ LetGoOf(n) \/ Lost(n)
    BY <1>2, <1>9 DEF Handed, Claimed, Taken, LetGoOf, Lost, Keeps
  <1> QED
    BY <1>4, <1>5, <1>6, <1>7, <1>8, <1>9 DEF HostStep

(* Nor does it move the generation under a request to close.               *)
LEMMA ClosesHost ==
    ASSUME TypeOK, TypeOK', ClaimsAccounted, PagesAccounted, RequestsToldApart, NEW n \in Notes,
           Barrier(n), HostStep(n), ClosesCurrent(n)
    PROVE  ClosesCurrent(n)'
  <1>1. toHost[n] \in Seq(Messages(ToHostTypes)) /\ In(toHost[n]) \subseteq Messages(ToHostTypes)
    BY Queues, InSeq
  <1>2. \A m \in In(toHost'[n]) :
            m \in In(toHost[n]) \/ (m.type # "save_and_close" /\ m.type # "external_write_ready")
    BY HostLeaves DEF Message
  <1>3. ASSUME hostGen'[n] = hostGen[n] \/ \A m \in In(toHost[n]) : m.type # "save_and_close"
        PROVE  \A m \in In(toHost'[n]) : m.type = "save_and_close" => m.gen = hostGen'[n]
    BY <1>2, <1>3 DEF ClosesCurrent
  <1>4. ASSUME pendingWrite'[n] \in {pendingWrite[n], NoRequest}
        PROVE  Ordered(toHost[n], NoCloseAfter(n))'
    <2>1. NoCloseAfter(n) \subseteq NoCloseAfter(n)'
      BY <1>4 DEF NoCloseAfter
    <2>2. Ordered(toHost'[n], NoCloseAfter(n))
      BY OrderedHost DEF ClosesCurrent
    <2> QED
      BY <2>1, <2>2 DEF Ordered
  <1>5. ASSUME task' = task
        PROVE  task'.note = n /\ task'.stage = "resumed" /\ task'.ok =>
                  \A m \in In(toHost'[n]) : m.type # "save_and_close"
    BY <1>2, <1>5 DEF ClosesCurrent
  <1>6. CASE Gone(n)
    <2>1. In(toHost'[n]) = {} /\ toHost'[n] = <<>>
      BY <1>6, InNothing DEF Gone
    <2> QED
      BY <2>1 DEF ClosesCurrent, Ordered
  <1>7. CASE Opened(n)
    <2>1. /\ In(toHost'[n]) = {Message("ready", NoRequest, 0, {})}
          /\ toHost'[n] = <<Message("ready", NoRequest, 0, {})>>
      BY <1>7, InOne DEF Opened
    <2>2. Ordered(toHost[n], NoCloseAfter(n))'
      BY <2>1 DEF Ordered
    <2>3. \A m \in In(toHost'[n]) : m.type # "save_and_close"
      BY <2>1 DEF Message
    <2> QED
      BY <2>2, <2>3 DEF ClosesCurrent
  <1>8. CASE Quiet(n)
    <2>1. hostGen'[n] = hostGen[n] /\ pendingWrite'[n] \in {pendingWrite[n], NoRequest}
      BY <1>8 DEF Quiet, TaskQuiet
    <2>2. task'.note = n /\ task'.stage = "resumed" /\ task'.ok => task' = task
      BY <1>8 DEF Quiet, TaskQuiet
    <2> QED
      BY <1>3, <1>4, <1>5, <2>1, <2>2 DEF ClosesCurrent
  <1>9. CASE Handed(n)
    BY <1>3, <1>4, <1>5, <1>9 DEF Handed, ClosesCurrent
  <1>10. CASE Direct(n)
    <2>1. CASE win[n] = "loading"
      <3>1. toHost[n] = <<Message("ready", NoRequest, 0, {})>>
        BY <2>1 DEF Barrier, LoadingPage
      <3>2. \A m \in In(toHost[n]) : m.type # "save_and_close"
        BY <3>1, InOne DEF Message
      <3> QED
        BY <1>3, <1>4, <1>10, <3>2 DEF Direct, IsIdle, ClosesCurrent
    <2> QED
      BY <1>3, <1>4, <1>10, <2>1 DEF Direct, IsIdle, ClosesCurrent
  <1>11. CASE Claimed(n)
    <2>1. /\ task.note = n /\ task.stage = "queued" /\ pendingWrite'[n] = task.req
          /\ hostGen'[n] = hostGen[n] /\ toHost'[n] = toHost[n] /\ task'.stage = "snapshot"
      BY <1>11 DEF Claimed, TypeOK, WindowTypeOK, Tasks
    <2>2. \A m \in In(toHost[n]) : m.req # task.req
      BY <2>1 DEF RequestsToldApart
    <2>3. Ordered(toHost[n], NoCloseAfter(n))'
      <3>1. \A i \in DOMAIN toHost[n] : toHost[n][i] \in In(toHost[n])
        BY DEF In
      <3>2. \A i, j \in DOMAIN toHost[n] :
                /\ <<toHost[n][i], toHost[n][j]>> \in Pairs
                /\ <<toHost[n][i], toHost[n][j]>>[1].req # pendingWrite'[n]
        BY <1>1, <2>1, <2>2, <3>1 DEF Pairs
      <3> QED
        BY <2>1, <3>2 DEF Ordered, NoCloseAfter
    <2> QED
      BY <1>3, <2>1, <2>3 DEF ClosesCurrent
  <1>12. CASE Taken(n)
    <2>1. /\ toHost[n] # <<>> /\ Head(toHost[n]).type = "external_write_ready"
          /\ pendingWrite[n] # NoRequest /\ pendingWrite[n] = Head(toHost[n]).req
          /\ toHost'[n] = Tail(toHost[n]) /\ pendingWrite'[n] = NoRequest
          /\ hostGen'[n] = hostGen[n]
      BY <1>12 DEF Taken, Hears
    <2>2. \A m \in In(Tail(toHost[n])) : <<Head(toHost[n]), m>> \in NoCloseAfter(n)
      BY <1>1, <2>1, OrderedTail DEF ClosesCurrent
    <2>3. \A m \in In(Tail(toHost[n])) : m.type # "save_and_close"
      BY <2>1, <2>2 DEF NoCloseAfter
    <2> QED
      BY <1>3, <1>4, <2>1, <2>3 DEF ClosesCurrent
  <1>13. CASE LetGoOf(n)
    <2>1. /\ ~(task'.stage = "resumed" /\ task'.ok)
          /\ hostGen'[n] = hostGen[n] /\ pendingWrite'[n] = NoRequest
      BY <1>13 DEF LetGoOf, IsIdle, TypeOK, WindowTypeOK, Tasks
    <2> QED
      BY <1>3, <1>4, <2>1 DEF ClosesCurrent
  <1>14. CASE Committed(n)
    <2>1. /\ task'.stage = "ack" /\ pendingWrite'[n] = pendingWrite[n]
          /\ \A m \in In(toHost[n]) : m.type # "save_and_close"
      BY <1>14 DEF Committed, ClosesCurrent, TypeOK, WindowTypeOK, Tasks
    <2> QED
      BY <1>3, <1>4, <2>1 DEF ClosesCurrent
  <1>15. CASE Lost(n)
    <2>1. task'.stage = "synced" /\ pendingWrite'[n] = pendingWrite[n] /\ hostGen'[n] = hostGen[n]
      BY <1>15 DEF Lost, TypeOK, WindowTypeOK, Tasks
    <2> QED
      BY <1>3, <1>4, <2>1 DEF ClosesCurrent
  <1> QED
    BY <1>6, <1>7, <1>8, <1>9, <1>10, <1>11, <1>12, <1>13, <1>14, <1>15 DEF HostStep

(* A page that is told nothing of weight is asked for a flush at most.     *)
LEMMA QuietTells ==
    ASSUME TypeOK, NEW n \in Notes, Quiet(n)
    PROVE  \A m \in In(toPage'[n]) :
               m \in In(toPage[n]) \/ m = Message("request_flush", nextReq, 0, {})
  <1> DEFINE f == Message("request_flush", nextReq, 0, {})
  <1>1. Keeps(n, <<>>) \/ Keeps(n, <<f>>)
    BY DEF Quiet
  <1> HIDE DEF f
  <1>2. Keeps(n, <<f>>) => In(toPage'[n]) = In(toPage[n]) \cup {f}
    BY KeepsSays
  <1>3. Keeps(n, <<>>) => toPage'[n] = toPage[n]
    <2>1. toPage[n] \in Seq(Messages(ToPageTypes))
      BY Queues
    <2> QED
      BY <2>1 DEF Keeps
  <1>4. \A m \in In(toPage'[n]) : m \in In(toPage[n]) \/ m = f
    BY <1>1, <1>2, <1>3
  <1> QED
    BY <1>4 DEF f

(* What the host hears from the page and reports is in every later text.   *)
LEMMA ReportedHost ==
    ASSUME TypeOK, TypeOK', ClaimsAccounted, PagesAccounted, RequestsToldApart, NEW n \in Notes,
           Barrier(n), HostStep(n), TextsGrow(n), ClosesCurrent(n), ReportedCarried(n)
    PROVE  ReportedCarried(n)'
  <1>1. toHost[n] \in Seq(Messages(ToHostTypes)) /\ In(toHost[n]) \subseteq Messages(ToHostTypes)
    BY Queues, InSeq
  <1>2. Carried(n, reported[n]) /\ (page[n].phase = "loading" => reported[n] = {})
    BY DEF ReportedCarried
  <1>3. page[n].phase = "loading" =>
            toHost[n] = <<>> \/ toHost[n] = <<Message("ready", NoRequest, 0, {})>>
    BY DEF Barrier, LoadingPage
  <1>4. ASSUME reported'[n] = reported[n], page'[n] = page[n],
               Handed(n) => reported[n] \subseteq file[n].body,
               Committed(n) => reported[n] \subseteq file'[n].body
        PROVE  ReportedCarried(n)'
    <2>1. PICK S : S = reported[n]
      OBVIOUS
    <2>2. Carried(n, S)'
      BY <1>2, <1>4, <2>1, CarriedHost
    <2>3. Carried(n, reported[n])'
      BY <1>4, <2>1, <2>2 DEF Carried
    <2> QED
      BY <1>2, <1>4, <2>3 DEF ReportedCarried
  <1>10. Handed(n) => reported[n] = {}
    <2>1. Handed(n) => Head(toHost[n]) \in In(toHost[n]) /\ Head(toHost[n]).type = "ready"
      BY Queues DEF Handed, Hears
    <2> QED
      BY <1>2, <2>1 DEF Barrier, LoadingPage
  <1>11. Committed(n) => reported'[n] \subseteq file'[n].body
    <2> SUFFICES ASSUME Committed(n)
                 PROVE  reported'[n] \subseteq file'[n].body
      OBVIOUS
    <2>1. Holds(n) /\ page[n].gen = hostGen[n] /\ task.text = page[n].text
      BY CommittedOnPage
    <2>2. /\ LiveBase(n, task.text) \in Documents
          /\ LiveBase(n, task.text).body = task.text
      BY DEF TypeOK, WindowTypeOK, Tasks, LiveBase, Documents
    <2>3. reported[n] \subseteq task.text
      BY <1>2, <2>1 DEF Carried
    <2>4. ASSUME NEW d \in Documents, reported[n] \subseteq d.body
          PROVE  Recorded(n) => reported'[n] \subseteq Mutated(task, d).body
      BY <2>4, MutatedMarks DEF Recorded, TypeOK, WindowTypeOK
    <2> QED
      BY <2>2, <2>3, <2>4 DEF Committed
  <1>5. CASE Gone(n)
    <2>1. page'[n].phase = "absent" /\ In(toPage'[n]) = {} /\ In(toHost'[n]) = {}
      BY <1>5, InNothing DEF Gone, PageIn
    <2> QED
      BY <2>1 DEF ReportedCarried, Carried, Holds
  <1>6. CASE Opened(n)
    <2>1. reported'[n] = {}
      BY <1>6 DEF Opened
    <2> QED
      BY <2>1 DEF ReportedCarried, Carried
  <1>7. CASE Quiet(n)
    <2>1. page'[n] = page[n] /\ hostGen'[n] = hostGen[n] /\ ReportsOwn(n)
      BY <1>7 DEF Quiet, Keeps
    <2>2. CASE reported'[n] = reported[n]
      BY <1>4, <1>10, <1>11, <2>1, <2>2
    <2>3. CASE reported'[n] # reported[n]
      <3> DEFINE h == Head(toHost[n])
      <3>1. /\ toHost[n] # <<>> /\ toHost'[n] = Tail(toHost[n])
            /\ Saves(h) /\ (h.gen = hostGen[n] \/ h.type = "save_and_close")
            /\ reported'[n] = reported[n] \cup h.text
        BY <2>1, <2>3 DEF ReportsOwn
      <3>2. h \in In(toHost[n]) /\ In(Tail(toHost[n])) \subseteq In(toHost[n])
        BY <1>1, <3>1, InTail
      <3>3. Current(n, h)
        BY <3>1, <3>2 DEF ClosesCurrent, Current
      <3>4. /\ Holds(n) /\ page[n].gen = hostGen[n] /\ h.text \subseteq page[n].text
        BY <3>2, <3>3 DEF TextsGrow
      <3>5. \A m \in In(toPage'[n]) : ~IsDocument(m)
        <4>1. \A m \in In(toPage[n]) : ~IsDocument(m)
          BY <3>4 DEF Barrier, DocumentsAwaited, IsDocument, Holds
        <4>2. \A m \in In(toPage'[n]) :
                 m \in In(toPage[n]) \/ m = Message("request_flush", nextReq, 0, {})
          BY <1>7, QuietTells
        <4> QED
          BY <4>1, <4>2 DEF IsDocument, Message
      <3>6. \A m \in In(Tail(toHost[n])) : <<h, m>> \in Growing(n)
        BY <1>1, <3>1, OrderedTail DEF TextsGrow
      <3>7. \A m \in In(Tail(toHost[n])) : Current(n, m) => h.text \subseteq m.text
        BY <3>3, <3>6 DEF Growing
      <3>8. \A m \in In(Tail(toHost[n])) : Current(n, m) => reported[n] \subseteq m.text
        BY <1>2, <3>2 DEF Carried, Current
      <3>9. reported[n] \cup h.text \subseteq page[n].text
        BY <1>2, <3>4 DEF Carried
      <3> HIDE DEF h
      <3>10. Carried(n, reported[n])'
        BY <2>1, <3>1, <3>5, <3>7, <3>8, <3>9 DEF Carried, Current
      <3> QED
        BY <2>1, <3>4, <3>10 DEF ReportedCarried, Holds
    <2> QED
      BY <2>2, <2>3
  <1>8. CASE Handed(n) \/ Claimed(n) \/ Taken(n) \/ LetGoOf(n) \/ Lost(n)
    BY <1>4, <1>8, <1>10, <1>11 DEF Handed, Claimed, Taken, LetGoOf, Lost, Keeps
  <1>9. ASSUME NEW S, S = reported'[n], Carried(n, S)', page'[n] = page[n],
               reported'[n] \subseteq reported[n]
        PROVE  ReportedCarried(n)'
    <2>1. Carried(n, reported[n])'
      BY <1>9 DEF Carried
    <2> QED
      BY <1>2, <1>9, <2>1 DEF ReportedCarried
  <1>12. reported'[n] \in {reported[n], {}} \/ ~Recorded(n)
    BY DEF Recorded, TypeOK, WindowTypeOK
  <1>13. CASE Direct(n)
    <2>1. PICK S : S = reported'[n]
      OBVIOUS
    <2>2. Carried(n, S)'
      BY <1>13, CarriedDirect
    <2> QED
      BY <1>9, <1>12, <1>13, <2>1, <2>2 DEF Direct
  <1>14. CASE Committed(n)
    <2>1. PICK S : S = reported'[n]
      OBVIOUS
    <2>2. Carried(n, S)'
      BY <1>11, <1>14, <2>1, CarriedCommitted
    <2> QED
      BY <1>9, <1>12, <1>14, <2>1, <2>2 DEF Committed, Keeps
  <1> QED
    BY <1>5, <1>6, <1>7, <1>8, <1>13, <1>14 DEF HostStep

(* Steps keep what the pages answered with.                                *)
LEMMA AnswersStep ==
    ASSUME TypeOK, TypeOK', ClaimsAccounted, PagesAccounted, RequestsToldApart, BarrierHolds,
           AnswersAccounted, [Next]_vars
    PROVE  AnswersAccounted'
  <1>1. ASSUME NEW a \in Notes, PageStep(a), NEW n \in Notes
        PROVE  (TextsGrow(n) /\ ClosesCurrent(n) /\ ReportedCarried(n))'
    <2>1. UNCHANGED <<reported, hostGen, pendingWrite, task>>
      BY <1>1 DEF PageStep, OnlyPage, hostVars
    <2>2. Barrier(n) /\ TextsGrow(n) /\ ClosesCurrent(n) /\ ReportedCarried(n)
      BY DEF BarrierHolds, AnswersAccounted
    <2>3. CASE n = a
      <3>1. TextsGrow(n)' /\ ClosesCurrent(n)'
        BY <1>1, <2>2, <2>3, AnswersPage
      <3>2. PICK S : S = reported[n]
        OBVIOUS
      <3>3. Carried(n, S)'
        BY <1>1, <2>2, <2>3, <3>2, CarriedPage DEF ReportedCarried
      <3>4. Carried(n, reported[n])'
        BY <2>1, <3>2, <3>3 DEF Carried
      <3>5. page'[n].phase = "loading" => page[n].phase = "loading"
        BY <1>1, <2>3 DEF PageStep, Acts, Loads, Freezes, Sticks, Adopts, Frees, Releases
      <3> QED
        BY <2>1, <2>2, <3>1, <3>4, <3>5 DEF ReportedCarried
    <2>4. CASE n # a
      <3>1. page'[n] = page[n] /\ toPage'[n] = toPage[n] /\ toHost'[n] = toHost[n]
        BY <1>1, <2>4 DEF PageStep, OnlyPage
      <3>2. TextsGrow(n)'
        BY <2>1, <2>2, <3>1 DEF TextsGrow, Ordered, Growing, Current, Holds
      <3>3. ClosesCurrent(n)'
        BY <2>1, <2>2, <3>1 DEF ClosesCurrent, Ordered, NoCloseAfter
      <3>4. ReportedCarried(n)'
        BY <2>1, <2>2, <3>1 DEF ReportedCarried, Carried, Holds
      <3> QED
        BY <3>2, <3>3, <3>4
    <2> QED
      BY <2>3, <2>4
  <1>2. ASSUME NEW n \in Notes, HostStep(n)
        PROVE  (TextsGrow(n) /\ ClosesCurrent(n) /\ ReportedCarried(n))'
    BY <1>2, GrowsHost, ClosesHost, ReportedHost DEF BarrierHolds, AnswersAccounted
  <1> QED
    BY <1>1, <1>2, EveryStep DEF AnswersAccounted

(* What a page answers with, in the order it answers: every text on its    *)
(* way to the host has what the earlier ones had, a close is never of an   *)
(* older generation, and what was answered is in every later text          *)
(* (ExternalWriteBarrier.defer in ui/src/bridge/externalWrite.ts, the      *)
(* handlers of save_and_close and flush_response in                        *)
(* src/src/note_window.rs).                                                *)
THEOREM AnswersAlwaysAccounted == Spec => []AnswersAccounted
  <1>1. Init => AnswersAccounted
    <2> SUFFICES ASSUME Init, NEW n \in Notes
                 PROVE  TextsGrow(n) /\ ClosesCurrent(n) /\ ReportedCarried(n)
      BY DEF AnswersAccounted
    <2>1. /\ toPage[n] = <<>> /\ toHost[n] = <<>>
          /\ page[n].phase = "absent"
          /\ reported[n] = {}
      BY DEF Init, WindowInit, PageInit, PageIn
    <2>2. In(toPage[n]) = {} /\ In(toHost[n]) = {} /\ \A R : Ordered(toHost[n], R)
      BY <2>1, InNothing DEF Ordered
    <2> QED
      BY <2>1, <2>2 DEF TextsGrow, ClosesCurrent, ReportedCarried, Carried, Holds
  <1>2. /\ TypeOK /\ TypeOK' /\ ClaimsAccounted /\ PagesAccounted /\ RequestsToldApart
        /\ BarrierHolds /\ AnswersAccounted /\ [Next]_vars
        => AnswersAccounted'
    BY AnswersStep
  <1> QED
    BY <1>1, <1>2, TypeCorrect, ClaimsAlwaysAccounted, PagesAlwaysAccounted, BarrierAlwaysHolds,
       PTL DEF Spec

-----------------------------------------------------------------------------
(* The batch of a hide or a quit.                                          *)

Batched(n) == {f \in flushes[n] : f.why = "batch"}
Asked == {n \in Notes : Batched(n) # {}}

(* The batch waits for as many answers as windows were asked.              *)
BatchCounted ==
    /\ batch.remaining = Cardinality(Asked)
    /\ active = NoOperation => Asked = {}
    /\ \A n \in Notes : \A f, g \in Batched(n) : f = g

(* The requests a step makes and settles.                                  *)
FlushMoves ==
    \/ UNCHANGED <<flushes, batch, active>>
    \/ /\ UNCHANGED <<batch, active>>
       /\ \E notes : RequestFlush(notes, "trash")
    \/ \E operation \in LifecycleOperation :
          /\ StartFlushAll(operation)
          /\ Windows # {}
    \/ \E n \in Notes :
          \E flush \in flushes[n] : \E ok, nowLive, heard, told :
              FlushSettled(n, flush, ok, nowLive, heard, told)

(* Nothing else moves them.                                                *)
LEMMA FlushesMove ==
    ASSUME [Next]_vars
    PROVE  FlushMoves
  <1>1. CASE UNCHANGED vars
    BY <1>1 DEF vars, hostVars, lifecycleVars, FlushMoves
  <1>2. ASSUME NEW a \in Notes,
               ReaderActs(a) \/ PageWorks(a) \/ PageGrowsSlow(a) \/ DeliveryFails(a)
        PROVE  UNCHANGED <<flushes, batch, active>>
    BY <1>2 DEF ReaderActs, PageWorks, PageGrowsSlow, DeliveryFails, hostVars, lifecycleVars
  <1>3. ASSUME NEW a \in Notes,
               \/ Ready(a) \/ ContentChanged(a) \/ PaperChanged(a) \/ SaveAndCloseAsked(a)
               \/ SnapshotReady(a) \/ ApplyAnswered(a) \/ SnapshotTimeout(a) \/ AckTimeout(a)
               \/ OpenWindow(a)
        PROVE  UNCHANGED <<flushes, batch, active>>
    BY <1>3 DEF Ready, ContentChanged, PaperChanged, SaveAndCloseAsked, SnapshotReady,
                ApplyAnswered, SnapshotTimeout, AckTimeout, OpenWindow, lifecycleVars
  <1>4. ASSUME NEW a \in Notes, NEW kind, Submit(a, kind)
        PROVE  UNCHANGED <<flushes, batch, active>>
    BY <1>4 DEF Submit, lifecycleVars
  <1>5. ASSUME NEW a \in Notes, AuthorityWorks(a)
        PROVE  UNCHANGED <<flushes, batch, active>>
    BY <1>5 DEF AuthorityWorks, MutateDirectly, Unanswered, DiscardDirectly, AskSnapshot,
                ResumeMutation, ResumeDiscard, FinishWrite, GiveUp, lifecycleVars,
                BeginExternalWrite, FinishExternalWrite
  <1>6. ASSUME NEW a \in Notes, FlushResponse(a)
        PROVE  FlushMoves
    <2>1. \/ UNCHANGED <<flushes, batch, active>>
          \/ \E flush \in flushes[a] : \E ok, nowLive, heard, told :
                FlushSettled(a, flush, ok, nowLive, heard, told)
      BY <1>6 DEF FlushResponse, lifecycleVars
    <2> QED
      BY <2>1 DEF FlushMoves
  <1>7. ASSUME NEW a \in Notes, ExpireFlush(a)
        PROVE  FlushMoves
    BY <1>7 DEF ExpireFlush, FlushMoves
  <1>8. ASSUME NEW a \in Notes, TrashNote(a)
        PROVE  FlushMoves
    BY <1>8 DEF TrashNote, lifecycleVars, FlushMoves
  <1>9. ASSUME NEW operation \in LifecycleOperation, StartFlushAll(operation)
        PROVE  FlushMoves
    BY <1>9 DEF StartFlushAll, lifecycleVars, FlushMoves
  <1>10. UNCHANGED <<flushes, batch, active>> => FlushMoves
    BY DEF FlushMoves
  <1> QED
    BY <1>1, <1>2, <1>3, <1>4, <1>5, <1>6, <1>7, <1>8, <1>9, <1>10
       DEF Next, HostHears, TimerFires, SomebodyAsks

(* Steps keep the count of the batch.                                      *)
LEMMA CountStep ==
    ASSUME TypeOK, BatchCounted, FlushMoves
    PROVE  BatchCounted'
  <1>1. /\ flushes \in [Notes -> SUBSET Flushes] /\ batch \in Batches
        /\ IsFiniteSet(Asked) /\ Cardinality(Asked) \in Nat
    <2>1. IsFiniteSet(Asked)
      BY PageAssumption, FS_Subset DEF Asked
    <2> QED
      BY <2>1, FS_CardinalityType DEF TypeOK, WindowTypeOK
  <1>2. ASSUME \A n \in Notes : Batched(n)' = Batched(n), batch' = batch, active' = active
        PROVE  BatchCounted'
    <2>1. Asked' = Asked
      BY <1>2 DEF Asked
    <2> QED
      BY <1>2, <2>1 DEF BatchCounted
  <1>3. CASE UNCHANGED <<flushes, batch, active>>
    BY <1>2, <1>3 DEF Batched
  <1>4. ASSUME NEW notes, RequestFlush(notes, "trash"), UNCHANGED <<batch, active>>
        PROVE  BatchCounted'
    <2>1. \A n \in Notes : Batched(n)' = Batched(n)
      BY <1>4 DEF RequestFlush, Batched
    <2> QED
      BY <1>2, <1>4, <2>1
  <1>5. ASSUME NEW operation \in LifecycleOperation, StartFlushAll(operation), Windows # {}
        PROVE  BatchCounted'
    <2>0. /\ BeginLifecycle(operation) /\ RequestFlush(Windows, "batch")
          /\ batch' = [remaining |-> Cardinality(Windows), failed |-> FALSE]
      BY <1>5 DEF StartFlushAll
    <2>1. /\ active = NoOperation /\ active' = operation
          /\ RequestFlush(Windows, "batch")
          /\ batch'.remaining = Cardinality(Windows)
      BY <2>0 DEF BeginLifecycle
    <2>2. \A n \in Notes : Batched(n) = {}
      BY <2>1 DEF BatchCounted, Asked
    <2>3. \A n \in Notes : Batched(n)' = IF n \in Windows THEN {[req |-> nextReq, why |-> "batch"]}
                                         ELSE {}
      BY <2>1, <2>2 DEF RequestFlush, Batched
    <2>4. Asked' = Windows
      BY <2>3 DEF Asked, Windows
    <2> QED
      BY <2>1, <2>3, <2>4 DEF BatchCounted, LifecycleOperation, NoOperation
  <1>6. ASSUME NEW n \in Notes, NEW flush \in flushes[n],
               NEW ok, NEW nowLive, NEW heard, NEW told,
               FlushSettled(n, flush, ok, nowLive, heard, told)
        PROVE  BatchCounted'
    <2>1. flushes' = [flushes EXCEPT ![n] = @ \ {flush}]
      BY <1>6 DEF FlushSettled
    <2>2. CASE flush.why # "batch"
      <3>1. \A i \in Notes : Batched(i)' = Batched(i)
        BY <1>1, <2>1, <2>2 DEF Batched
      <3>2. batch' = batch /\ active' = active
        BY <1>6, <2>2 DEF FlushSettled, lifecycleVars
      <3> QED
        BY <1>2, <3>1, <3>2
    <2>3. CASE flush.why = "batch"
      <3>1. flush \in Batched(n) /\ n \in Asked /\ active # NoOperation
        BY <2>3 DEF Batched, Asked, BatchCounted
      <3>2. \A i \in Notes : Batched(i)' = IF i = n THEN {} ELSE Batched(i)
        BY <1>1, <2>1, <3>1 DEF Batched, BatchCounted
      <3>3. Asked' = Asked \ {n}
        BY <3>2 DEF Asked
      <3>4. Cardinality(Asked \ {n}) = Cardinality(Asked) - 1 /\ IsFiniteSet(Asked \ {n})
        BY <1>1, <3>1, FS_RemoveElement
      <3>5. Cardinality(Asked) # 0
        BY <1>1, <3>1, FS_EmptySet
      <3>6. /\ batch' = Record(ok).batch
            /\ IF Record(ok).ends THEN FinishLifecycle(active) ELSE UNCHANGED lifecycleVars
        BY <1>6, <2>3 DEF FlushSettled
      <3>7. batch.remaining = Cardinality(Asked)
        BY DEF BatchCounted
      <3>8. /\ batch'.remaining = batch.remaining - 1
            /\ Record(ok).ends <=> batch.remaining = 1
        BY <3>5, <3>6, <3>7 DEF Record
      <3>9. active' = IF batch.remaining = 1 THEN NoOperation ELSE active
        BY <3>6, <3>8 DEF FinishLifecycle, lifecycleVars
      <3>10. batch.remaining = 1 => Asked' = {}
        <4>1. IsFiniteSet(Asked') /\ (batch.remaining = 1 => Cardinality(Asked') = 0)
          BY <1>1, <3>3, <3>4, <3>7
        <4> QED
          BY <4>1, FS_EmptySet
      <3> QED
        BY <3>1, <3>2, <3>3, <3>4, <3>7, <3>8, <3>9, <3>10 DEF BatchCounted
    <2> QED
      BY <2>2, <2>3
  <1> QED
    BY <1>3, <1>4, <1>5, <1>6 DEF FlushMoves

-----------------------------------------------------------------------------
(* The answers a hide or a quit waits for.                                 *)

(* No answer to a flush follows the one to req, in what the page said.     *)
LastAnswer(req) ==
    {p \in Pairs :
        p[1].type = "flush_response" /\ p[1].req = req => p[2].type # "flush_response"}

(* No flush is asked for after req, in what the page is told.              *)
LastRequest(req) ==
    {p \in Messages(ToPageTypes) \X Messages(ToPageTypes) :
        p[1].type = "request_flush" /\ p[1].req = req => p[2].type # "request_flush"}

(* No flush was asked for after req: the page answers it, and no other.    *)
LastAsked(n, req) ==
    /\ Ordered(toHost[n], LastAnswer(req))
    /\ Ordered(toPage[n], LastRequest(req))
    /\ (\E m \in In(toHost[n]) : m.type = "flush_response" /\ m.req = req) =>
           \A m \in In(toPage[n]) : m.type # "request_flush"

(* The page has no flush to answer and no answer on its way.               *)
Unasked(n) ==
    /\ \A m \in In(toHost[n]) : m.type # "flush_response"
    /\ \A m \in In(toPage[n]) : m.type # "request_flush"

(* A window was asked last by the batch, or all it answered is on file.    *)
Saved(n) ==
    \/ \E f \in Batched(n) : LastAsked(n, f.req)
    \/ reported[n] \subseteq file[n].body /\ Unasked(n)

BatchSaved == active # NoOperation /\ ~batch.failed => \A n \in Windows : Saved(n)

(* A page answers what it is asked, in the order it was asked.             *)
LEMMA AskedPage ==
    ASSUME TypeOK, NEW n \in Notes, PageStep(n), NEW req, LastAsked(n, req)
    PROVE  LastAsked(n, req)'
  <1>1. /\ toPage[n] \in Seq(Messages(ToPageTypes))
        /\ toPage[n] # <<>> => Head(toPage[n]) \in In(toPage[n])
    BY Queues
  <1>2. toPage'[n] = toPage[n] \/ (toPage[n] # <<>> /\ toPage'[n] = Tail(toPage[n]))
    BY DEF PageStep, Acts, Loads, Freezes, Sticks, Adopts, Frees, Takes
  <1>3. toPage[n] # <<>> =>
            /\ Ordered(Tail(toPage[n]), LastRequest(req))
            /\ In(Tail(toPage[n])) \subseteq In(toPage[n])
            /\ \A m \in In(Tail(toPage[n])) : <<Head(toPage[n]), m>> \in LastRequest(req)
    BY <1>1, Queues, OrderedTail DEF LastAsked
  <1>4. Ordered(toPage'[n], LastRequest(req)) /\ In(toPage'[n]) \subseteq In(toPage[n])
    BY <1>2, <1>3 DEF LastAsked
  <1>5. ASSUME NEW m, Adds(n, m), m.type = "flush_response"
        PROVE  /\ toPage[n] # <<>> /\ Head(toPage[n]).type = "request_flush"
               /\ m.req = Head(toPage[n]).req
               /\ toPage'[n] = Tail(toPage[n])
    BY <1>5 DEF Adds, MaySay, ClosedWith, Message
  <1>6. In(toHost[n]) \subseteq Messages(ToHostTypes)
    BY Queues, InSeq
  <1>7. ASSUME NEW m \in Messages(ToHostTypes), Adds(n, m), NEW i \in In(toHost[n])
        PROVE  <<i, m>> \in LastAnswer(req)
    <2>1. i.type = "flush_response" /\ i.req = req => m.type # "flush_response"
      BY <1>1, <1>5, <1>7 DEF LastAsked
    <2> QED
      BY <1>6, <1>7, <2>1 DEF LastAnswer, Pairs
  <1>8. \A i, m \in Messages(ToHostTypes) :
            m.type = "external_write_applied" => <<i, m>> \in LastAnswer(req)
    BY DEF LastAnswer, Pairs
  <1>9. Ordered(toHost'[n], LastAnswer(req))
    BY <1>7, <1>8, OrderedPage DEF LastAsked
  <1>10. ASSUME NEW m \in In(toHost'[n]), m.type = "flush_response", m.req = req,
                NEW i \in In(toPage'[n])
         PROVE  i.type # "request_flush"
    <2>1. CASE m \in In(toHost[n])
      BY <1>4, <1>10, <2>1 DEF LastAsked
    <2>2. CASE Adds(n, m)
      <3>1. /\ toPage[n] # <<>> /\ Head(toPage[n]).type = "request_flush"
            /\ Head(toPage[n]).req = req
            /\ toPage'[n] = Tail(toPage[n])
        BY <1>5, <1>10, <2>2
      <3>2. <<Head(toPage[n]), i>> \in LastRequest(req)
        BY <1>3, <1>10, <3>1
      <3> QED
        BY <3>1, <3>2 DEF LastRequest
    <2> QED
      BY <1>10, <2>1, <2>2, AddedOrThere
  <1> QED
    BY <1>4, <1>9, <1>10 DEF LastAsked, Ordered

(* A page that is asked nothing answers nothing.                           *)
LEMMA UnaskedPage ==
    ASSUME TypeOK, NEW n \in Notes, PageStep(n), Unasked(n)
    PROVE  Unasked(n)'
  <1>1. toPage[n] # <<>> => Head(toPage[n]) \in In(toPage[n])
    BY Queues
  <1>2. In(toPage'[n]) \subseteq In(toPage[n])
    BY PageQueues
  <1>3. \A m : Adds(n, m) => m.type # "flush_response"
    BY <1>1 DEF Adds, MaySay, ClosedWith, Message, Unasked
  <1>4. \A m \in In(toHost'[n]) : m.type # "flush_response"
    BY <1>3, AddedOrThere DEF Unasked
  <1> QED
    BY <1>2, <1>4 DEF Unasked

(* Nothing is owed by a step of a page.                                    *)
LEMMA SavedPage ==
    ASSUME TypeOK, NEW a \in Notes, PageStep(a), BatchSaved
    PROVE  BatchSaved'
  <1>1. UNCHANGED <<active, batch, win, flushes, reported, file>>
    BY DEF PageStep, OnlyPage, hostVars, lifecycleVars
  <1>2. ASSUME NEW n \in Notes, Saved(n)
        PROVE  Saved(n)'
    <2>1. CASE n = a
      <3>1. Batched(n)' = Batched(n)
        BY <1>1 DEF Batched
      <3>2. ASSUME NEW f \in Batched(n), LastAsked(n, f.req)
            PROVE  Saved(n)'
        <4>1. PICK req : req = f.req
          OBVIOUS
        <4>2. LastAsked(n, req)'
          BY <2>1, <3>2, <4>1, AskedPage
        <4>3. LastAsked(n, f.req)'
          BY <4>1, <4>2
        <4> QED
          BY <3>1, <4>3 DEF Saved
      <3>3. Unasked(n) => Unasked(n)'
        BY <2>1, UnaskedPage
      <3> QED
        BY <1>1, <1>2, <3>2, <3>3 DEF Saved
    <2>2. CASE n # a
      <3>1. toPage'[n] = toPage[n] /\ toHost'[n] = toHost[n]
        BY <2>2 DEF PageStep, OnlyPage
      <3> QED
        BY <1>1, <1>2, <3>1 DEF Saved, Batched, LastAsked, LastAnswer, LastRequest, Ordered,
                                Unasked
    <2> QED
      BY <2>1, <2>2
  <1> QED
    BY <1>1, <1>2 DEF BatchSaved, Windows

(* A hide or a quit that begins asks every window, last.                   *)
LEMMA BatchBegins ==
    ASSUME TypeOK, RequestsToldApart, NEW operation \in LifecycleOperation,
           StartFlushAll(operation), Windows # {}
    PROVE  BatchSaved'
  <1>1. /\ win' = win /\ toHost' = toHost
        /\ RequestFlush(Windows, "batch") /\ nextReq \in RequestIds
    BY DEF StartFlushAll, NewRequest
  <1>2. ASSUME NEW n \in Windows
        PROVE  Saved(n)'
    <2> DEFINE m == Message("request_flush", nextReq, 0, {})
               f == [req |-> nextReq, why |-> "batch"]
    <2>1. n \in Notes /\ toPage'[n] = Append(toPage[n], m) /\ f \in Batched(n)'
      BY <1>1 DEF RequestFlush, Windows, Batched
    <2>2. m \in Messages(ToPageTypes) /\ f.req = nextReq
      BY <1>1 DEF Message, Messages, ToPageTypes, Bodies
    <2>3. /\ toPage[n] \in Seq(Messages(ToPageTypes))
          /\ toHost[n] \in Seq(Messages(ToHostTypes))
          /\ In(toPage[n]) \subseteq Messages(ToPageTypes)
          /\ In(toHost[n]) \subseteq Messages(ToHostTypes)
      BY <2>1, Queues, InSeq
    <2>4. \A i \in In(toPage[n]) \cup In(toHost[n]) : i.req # nextReq
      <3>1. nextReq \in Nat /\ \A i \in In(toPage[n]) \cup In(toHost[n]) : i.req < nextReq
        BY <1>1, <2>1 DEF RequestsToldApart, RequestIds
      <3>2. \A i \in In(toPage[n]) \cup In(toHost[n]) : i.req \in Nat
        BY <2>3 DEF Messages, RequestIds, NoRequest
      <3> QED
        BY <3>1, <3>2
    <2>5. PICK req : req = nextReq
      OBVIOUS
    <2> HIDE DEF m, f
    <2>6. Ordered(toPage'[n], LastRequest(req))
      <3>1. \A i \in In(toPage[n]) : <<i, m>> \in LastRequest(req)
        BY <2>2, <2>3, <2>4, <2>5 DEF LastRequest
      <3>2. Ordered(toPage[n], LastRequest(req))
        <4>1. \A i \in DOMAIN toPage[n] : toPage[n][i] \in In(toPage[n])
          BY DEF In
        <4> QED
          BY <2>3, <2>4, <2>5, <4>1 DEF LastRequest, Ordered
      <3> QED
        BY <2>1, <2>3, <3>1, <3>2, OrderedAppend
    <2>7. Ordered(toHost'[n], LastAnswer(req))
      <3>1. \A i \in DOMAIN toHost[n] : toHost[n][i] \in In(toHost[n])
        BY DEF In
      <3> QED
        BY <1>1, <2>3, <2>4, <2>5, <3>1 DEF LastAnswer, Ordered, Pairs
    <2>8. LastAsked(n, req)'
      BY <1>1, <2>4, <2>5, <2>6, <2>7 DEF LastAsked, LastAnswer, LastRequest, Ordered
    <2> QED
      BY <2>1, <2>2, <2>5, <2>8 DEF Saved
  <1> QED
    BY <1>1, <1>2 DEF BatchSaved, Windows

(* The text of n was just answered, and is on file.                        *)
AnsweredWell(n) ==
    /\ Hears(n, "flush_response")
    /\ Head(toHost[n]).gen = hostGen[n]
    /\ win'[n] # "none" => toHost'[n] = Tail(toHost[n])
    /\ file'[n].body = Head(toHost[n]).text
    /\ reported'[n] = reported[n] \cup Head(toHost[n]).text

(* A text that is answered has all that was answered before.               *)
LEMMA AnsweredIsSaved ==
    ASSUME TypeOK, NEW n \in Notes, ReportedCarried(n), AnsweredWell(n)
    PROVE  reported'[n] \subseteq file'[n].body
  <1>1. Head(toHost[n]) \in In(toHost[n])
    BY Queues DEF AnsweredWell, Hears
  <1> QED
    BY <1>1 DEF AnsweredWell, Hears, ReportedCarried, Carried, Saves

(* The callback of a flush of n runs, with the result ok.                  *)
Settles(n, flush, ok) ==
    /\ flush \in flushes[n]
    /\ \E nowLive, heard : FlushSettled(n, flush, ok, nowLive, heard, Silence)
    /\ \A i \in Notes \ {n} : reported'[i] = reported[i] /\ file'[i] = file[i]
    /\ ok => AnsweredWell(n) /\ Head(toHost[n]).req = flush.req

(* A flush that ended well has saved what the page answered.               *)
LEMMA ResponseSettles ==
    ASSUME TypeOK, PagesAccounted, NEW a \in Notes, FlushResponse(a)
    PROVE  \/ UNCHANGED <<flushes, batch, active, trashed, win>>
           \/ \E flush, ok : Settles(a, flush, ok)
  <1> DEFINE m == Head(toHost[a])
             waiting == {f \in flushes[a] : f.req = m.req}
             saves == doc[a].body # m.text
             d == [doc[a] EXCEPT !.body = m.text]
  <1>1. /\ file \in [Notes -> Documents]
        /\ doc \in [Notes -> Documents]
        /\ reported \in [Notes -> Bodies]
        /\ toHost \in [Notes -> Seq(Messages(ToHostTypes))]
        /\ win \in [Notes -> {"none", "loading", "loaded"}]
    BY DEF TypeOK, WindowTypeOK, PageTypeOK
  <1>2. Hears(a, "flush_response") /\ doc[a] = file[a] /\ d.body = m.text
    <2>1. Hears(a, "flush_response")
      BY DEF FlushResponse
    <2> QED
      BY <1>1, <2>1, HeardDescribes DEF Documents
  <1>3. \/ /\ Turn({a}, {}, Silence)
           /\ UNCHANGED <<trashed, flushes, batch, lifecycleVars>>
        \/ \E flush \in waiting :
              /\ FlushSettled(a, flush, FALSE, live, {a}, Silence)
              /\ UNCHANGED <<file, reported>>
        \/ \E flush \in waiting, ok \in Outcomes :
              /\ AcceptsGeneration(a, m.gen)
              /\ file' = IF saves /\ ok THEN [file EXCEPT ![a] = d] ELSE file
              /\ FlushSettled(a, flush, ok \/ ~saves,
                              IF saves /\ ok THEN live \cup {a} ELSE live, {a}, Silence)
              /\ Reports(a)
    BY DEF FlushResponse
  <1>4. CASE Turn({a}, {}, Silence) /\ UNCHANGED <<trashed, flushes, batch, lifecycleVars>>
    <2>1. win' = [n \in Notes |-> win[n]]
      BY <1>4 DEF Turn
    <2> QED
      BY <1>1, <1>4, <2>1 DEF lifecycleVars
  <1>5. ASSUME NEW flush \in waiting, FlushSettled(a, flush, FALSE, live, {a}, Silence),
               UNCHANGED <<file, reported>>
        PROVE  Settles(a, flush, FALSE)
    BY <1>5 DEF Settles
  <1>6. ASSUME NEW flush \in waiting, NEW ok \in Outcomes, NEW nowLive,
               AcceptsGeneration(a, m.gen),
               file' = IF saves /\ ok THEN [file EXCEPT ![a] = d] ELSE file,
               FlushSettled(a, flush, ok \/ ~saves, nowLive, {a}, Silence),
               Reports(a)
        PROVE  Settles(a, flush, ok \/ ~saves)
    <2>1. flush \in flushes[a] /\ flush.req = m.req
      OBVIOUS
    <2>2. \A n \in Notes \ {a} : reported'[n] = reported[n] /\ file'[n] = file[n]
      BY <1>1, <1>6 DEF Reports
    <2>3. reported'[a] = reported[a] \cup m.text
      BY <1>1, <1>6 DEF Reports
    <2>4. ASSUME ok \/ ~saves
          PROVE  file'[a].body = m.text
      <3>1. CASE saves
        <4>1. file'[a] = d
          BY <1>1, <1>6, <2>4, <3>1
        <4> QED
          BY <1>2, <4>1
      <3>2. CASE ~saves
        BY <1>2, <1>6, <3>2
      <3> QED
        BY <3>1, <3>2
    <2>5. win'[a] # "none" => toHost'[a] = Tail(toHost[a])
      <3>1. PICK gone : Turn({a}, gone, Silence)
        BY <1>6, SettledTurn
      <3>2. /\ win'[a] = IF a \in gone THEN "none" ELSE win[a]
            /\ toHost'[a] = IF a \in {i \in gone : ~HeldByTask(i)} THEN <<>> ELSE Tail(toHost[a])
        BY <1>1, <3>1 DEF Turn
      <3> QED
        BY <3>2
    <2>6. ok \/ ~saves => AnsweredWell(a)
      BY <1>2, <1>6, <2>3, <2>4, <2>5 DEF AnsweredWell, AcceptsGeneration
    <2> HIDE DEF m, saves, d
    <2> QED
      BY <1>6, <2>1, <2>2, <2>6 DEF Settles, m
  <1> HIDE DEF saves, d, m, waiting
  <1> QED
    BY <1>3, <1>4, <1>5, <1>6

(* A flush that runs out of time has not ended well.                       *)
LEMMA ExpirySettles ==
    ASSUME NEW a \in Notes, ExpireFlush(a)
    PROVE  \E flush, ok : Settles(a, flush, ok)
  <1>1. PICK flush \in flushes[a] : FlushSettled(a, flush, FALSE, live, {}, Silence)
    BY DEF ExpireFlush
  <1>2. UNCHANGED <<reported, file>>
    BY DEF ExpireFlush
  <1>3. Settles(a, flush, FALSE)
    BY <1>1, <1>2 DEF Settles
  <1> QED
    BY <1>3

(* What settling a flush of the batch does to it.                          *)
LEMMA BatchSettles ==
    ASSUME TypeOK, BatchCounted, NEW a \in Notes, NEW flush, NEW ok, Settles(a, flush, ok),
           flush.why = "batch"
    PROVE  /\ flush \in Batched(a)
           /\ active # NoOperation
           /\ batch'.failed = (batch.failed \/ ~ok)
           /\ \A n \in Notes : batch.remaining = 1 /\ n # a => Batched(n) = {}
           /\ \/ win' = win /\ batch.remaining # 1
              \/ batch.remaining = 1 /\ active' = NoOperation
                 /\ \/ win' = win
                    \/ ~batch.failed /\ ok
  <1>1. flush \in Batched(a) /\ a \in Asked /\ active # NoOperation
    BY DEF Settles, Batched, Asked, BatchCounted
  <1>2. IsFiniteSet(Asked) /\ Cardinality(Asked) \in Nat /\ Cardinality(Asked) = batch.remaining
    <2>1. IsFiniteSet(Asked)
      BY PageAssumption, FS_Subset DEF Asked
    <2> QED
      BY <2>1, FS_CardinalityType DEF BatchCounted
  <1>3. batch.remaining # 0
    BY <1>1, <1>2, FS_EmptySet
  <1>4. ASSUME batch.remaining = 1, NEW n \in Notes, n # a
        PROVE  Batched(n) = {}
    <2>1. Cardinality(Asked \ {a}) = 0 /\ IsFiniteSet(Asked \ {a})
      BY <1>1, <1>2, <1>4, FS_RemoveElement
    <2>2. Asked \ {a} = {}
      BY <2>1, FS_EmptySet
    <2> QED
      BY <1>4, <2>2 DEF Asked
  <1>5. PICK heard, persisted :
            /\ batch' = Record(ok).batch
            /\ IF Record(ok).ends THEN FinishLifecycle(active) ELSE UNCHANGED lifecycleVars
            /\ Turn(heard, IF Record(ok).commits /\ persisted THEN Windows ELSE {}, Silence)
    BY DEF Settles, FlushSettled
  <1>6. /\ batch'.failed = (batch.failed \/ ~ok)
        /\ Record(ok).ends <=> batch.remaining = 1
        /\ Record(ok).commits => batch.remaining = 1 /\ ~batch.failed /\ ok
    BY <1>3, <1>5 DEF Record
  <1>7. win' = win \/ Record(ok).commits
    <2>1. ~Record(ok).commits => win' = [n \in Notes |-> win[n]]
      BY <1>5 DEF Turn
    <2> QED
      BY <2>1 DEF TypeOK, WindowTypeOK
  <1>8. Record(ok).ends => active' = NoOperation
    BY <1>5 DEF FinishLifecycle
  <1> QED
    BY <1>1, <1>4, <1>6, <1>7, <1>8

(* What no step does while a hide or a quit runs: report anything but the  *)
(* answer to a flush, number a request, or drop a flush of the batch but   *)
(* by its callback.                                                        *)
BatchRuns(n) ==
    /\ reported'[n] \in {reported[n], {}} \/ Hears(n, "flush_response")
    /\ task' = task => nextReq' = nextReq
    /\ \/ batch' = batch /\ \A i \in Notes : Batched(i) \subseteq flushes'[i]
       \/ \E a \in Notes : \E flush, ok : Settles(a, flush, ok) /\ flush.why = "batch"

LEMMA BatchesRun ==
    ASSUME TypeOK, PagesAccounted, [Next]_vars, ~StructuralActionAllowed, NEW n \in Notes
    PROVE  BatchRuns(n)
  <1>1. /\ reported \in [Notes -> Bodies]
        /\ flushes \in [Notes -> SUBSET Flushes]
    BY DEF TypeOK, WindowTypeOK
  <1>2. ASSUME UNCHANGED <<flushes, batch>>,
               reported'[n] \in {reported[n], {}}, task' = task => nextReq' = nextReq
        PROVE  BatchRuns(n)
    BY <1>2 DEF BatchRuns, Batched
  <1>3. CASE UNCHANGED vars
    BY <1>2, <1>3 DEF vars, hostVars
  <1>4. ASSUME NEW a \in Notes,
               ReaderActs(a) \/ PageWorks(a) \/ PageGrowsSlow(a) \/ DeliveryFails(a)
        PROVE  BatchRuns(n)
    <2>1. UNCHANGED <<flushes, batch, reported, nextReq>>
      BY <1>4 DEF ReaderActs, PageWorks, PageGrowsSlow, DeliveryFails, hostVars
    <2> QED
      BY <1>2, <2>1
  <1>5. ASSUME NEW a \in Notes,
               \/ Ready(a) \/ ContentChanged(a) \/ PaperChanged(a) \/ SaveAndCloseAsked(a)
               \/ SnapshotReady(a) \/ ApplyAnswered(a) \/ SnapshotTimeout(a) \/ AckTimeout(a)
        PROVE  BatchRuns(n)
    <2>1. UNCHANGED <<flushes, batch, reported, nextReq>>
      BY <1>5 DEF Ready, ContentChanged, PaperChanged, SaveAndCloseAsked, SnapshotReady,
                  ApplyAnswered, SnapshotTimeout, AckTimeout
    <2> QED
      BY <1>2, <2>1
  <1>6. ASSUME NEW a \in Notes, OpenWindow(a) \/ TrashNote(a)
        PROVE  BatchRuns(n)
    <2>1. UNCHANGED <<flushes, batch, nextReq>> /\ reported'[n] \in {reported[n], {}}
      BY <1>1, <1>6 DEF OpenWindow, TrashNote
    <2> QED
      BY <1>2, <2>1
  <1>7. ASSUME NEW a \in Notes, NEW kind, Submit(a, kind)
        PROVE  BatchRuns(n)
    <2>1. UNCHANGED <<flushes, batch, reported>> /\ task'.stage = "queued" /\ task.stage = "idle"
      BY <1>7 DEF Submit, IsIdle, NoTask
    <2> QED
      BY <1>2, <2>1
  <1>8. ASSUME NEW a \in Notes, AuthorityWorks(a)
        PROVE  BatchRuns(n)
    <2>1. UNCHANGED <<flushes, batch, nextReq>>
      BY <1>8 DEF AuthorityWorks, MutateDirectly, Unanswered, DiscardDirectly, AskSnapshot,
                  ResumeMutation, ResumeDiscard, FinishWrite
    <2>2. UNCHANGED reported \/ Recorded(a)
      BY <1>8 DEF AuthorityWorks, MutateDirectly, DiscardDirectly, AskSnapshot,
                  ResumeMutation, ResumeDiscard, FinishWrite, GiveUp
    <2>3. reported'[n] \in {reported[n], {}}
      BY <1>1, <2>2 DEF Recorded
    <2> QED
      BY <1>2, <2>1, <2>3
  <1>9. ASSUME NEW a \in Notes, NEW flush, NEW ok, Settles(a, flush, ok),
               reported'[n] = reported[n] \/ Hears(n, "flush_response"), nextReq' = nextReq
        PROVE  BatchRuns(n)
    <2>1. CASE flush.why = "batch"
      BY <1>9, <2>1 DEF BatchRuns
    <2>2. CASE flush.why # "batch"
      <3>1. batch' = batch /\ flushes' = [flushes EXCEPT ![a] = @ \ {flush}]
        BY <1>9, <2>2 DEF Settles, FlushSettled
      <3>2. \A i \in Notes : Batched(i) \subseteq flushes'[i]
        BY <1>1, <2>2, <3>1 DEF Batched
      <3> QED
        BY <1>9, <3>1, <3>2 DEF BatchRuns
    <2> QED
      BY <2>1, <2>2
  <1>10. ASSUME NEW a \in Notes, FlushResponse(a)
         PROVE  BatchRuns(n)
    <2>1. nextReq' = nextReq /\ (reported'[n] = reported[n] \/ Hears(n, "flush_response"))
      BY <1>1, <1>10 DEF FlushResponse, Reports
    <2>2. CASE UNCHANGED <<flushes, batch>>
      BY <2>1, <2>2 DEF BatchRuns, Batched
    <2> QED
      BY <1>9, <1>10, <2>1, <2>2, ResponseSettles
  <1>11. ASSUME NEW a \in Notes, ExpireFlush(a)
         PROVE  BatchRuns(n)
    <2>1. UNCHANGED <<nextReq, reported>>
      BY <1>11 DEF ExpireFlush
    <2> QED
      BY <1>9, <1>11, <2>1, ExpirySettles
  <1>12. \A operation : ~StartFlushAll(operation)
    BY DEF StartFlushAll
  <1> QED
    BY <1>3, <1>4, <1>5, <1>6, <1>7, <1>8, <1>10, <1>11, <1>12
       DEF Next, HostHears, TimerFires, SomebodyAsks

(* What the host hears and tells leaves the last request the last.         *)
LEMMA AskedHost ==
    ASSUME TypeOK, TypeOK', NEW n \in Notes, NEW req, LastAsked(n, req),
           \/ toHost'[n] = toHost[n]
           \/ toHost[n] # <<>> /\ toHost'[n] = Tail(toHost[n]),
           \/ toPage'[n] = toPage[n]
           \/ \E m \in Messages(ToPageTypes) :
                 m.type # "request_flush" /\ toPage'[n] = Append(toPage[n], m)
    PROVE  LastAsked(n, req)'
  <1>1. /\ toPage[n] \in Seq(Messages(ToPageTypes)) /\ In(toPage[n]) \subseteq Messages(ToPageTypes)
        /\ toHost[n] \in Seq(Messages(ToHostTypes))
    BY Queues, InSeq
  <1>2. toHost[n] # <<>> =>
            /\ Ordered(Tail(toHost[n]), LastAnswer(req))
            /\ In(Tail(toHost[n])) \subseteq In(toHost[n])
    BY <1>1, Queues, OrderedTail DEF LastAsked
  <1>3. ASSUME NEW m \in Messages(ToPageTypes), m.type # "request_flush"
        PROVE  /\ Ordered(Append(toPage[n], m), LastRequest(req))
               /\ In(Append(toPage[n], m)) = In(toPage[n]) \cup {m}
    <2>1. \A i \in In(toPage[n]) : <<i, m>> \in LastRequest(req)
      BY <1>1, <1>3 DEF LastRequest
    <2> QED
      BY <1>1, <2>1, OrderedAppend, InAppend DEF LastAsked
  <1>4. Ordered(toHost'[n], LastAnswer(req)) /\ In(toHost'[n]) \subseteq In(toHost[n])
    BY <1>2 DEF LastAsked
  <1>5. /\ Ordered(toPage'[n], LastRequest(req))
        /\ \A m \in In(toPage'[n]) : m \in In(toPage[n]) \/ m.type # "request_flush"
    BY <1>3 DEF LastAsked
  <1> QED
    BY <1>4, <1>5 DEF LastAsked, Ordered

(* While a hide or a quit runs, a note that is open is heard, handed to    *)
(* its page, or written before it is; a page is asked no other flush.      *)
HeardOrHanded(n) ==
    /\ \/ toHost'[n] = toHost[n]
       \/ toHost[n] # <<>> /\ toHost'[n] = Tail(toHost[n])
    /\ \/ toPage'[n] = toPage[n]
       \/ \E m \in Messages(ToPageTypes) :
             m.type # "request_flush" /\ toPage'[n] = Append(toPage[n], m)
    /\ reported[n] \subseteq file[n].body =>
           reported[n] \subseteq file'[n].body \/ reported'[n] = {}
    /\ win[n] # "none"

LEMMA HeardWhileBatch ==
    ASSUME TypeOK, TypeOK', ClaimsAccounted, ClaimsAccounted', PagesAccounted, NEW n \in Notes,
           Barrier(n), ReportedCarried(n), HostStep(n), BatchRuns(n),
           active # NoOperation, active' # NoOperation, win'[n] # "none"
    PROVE  Opened(n) \/ HeardOrHanded(n)
  <1>1. /\ task.stage \notin HeldStages /\ task'.stage \notin HeldStages
        /\ task \in Tasks /\ task' \in Tasks
        /\ pendingWrite[n] = NoRequest
    BY DEF ClaimsAccounted, TypeOK, WindowTypeOK, HeldStages
  <1>2. ~(Claimed(n) \/ Taken(n) \/ LetGoOf(n) \/ Committed(n) \/ Lost(n))
    BY <1>1 DEF Claimed, Taken, LetGoOf, Committed, Lost, HeldStages, Tasks
  <1>3. ~Gone(n)
    BY DEF Gone
  <1>4. /\ toPage[n] \in Seq(Messages(ToPageTypes))
        /\ reported \in [Notes -> Bodies] /\ nextReq \in Nat
    BY Queues DEF TypeOK, WindowTypeOK
  <1>5. CASE Quiet(n)
    <2>1. ~(nextReq' = nextReq + 1 /\ task' = task)
      BY <1>4 DEF BatchRuns
    <2>2. Keeps(n, <<>>)
      BY <1>5, <2>1 DEF Quiet
    <2>3. toPage[n] \o <<>> = toPage[n]
      BY <1>4
    <2>4. reported[n] \subseteq file[n].body => reported[n] \subseteq file'[n].body
      <3>1. PICK S : S = reported[n]
        OBVIOUS
      <3>2. Stored(n, file[n].body, file'[n].body) /\ Carried(n, S)
        BY <1>5, <3>1 DEF Quiet, StoresOwn, ReportedCarried
      <3> QED
        BY <3>1, <3>2, StoredCarries
    <2>5. win[n] # "none"
      BY <1>5 DEF Quiet
    <2> QED
      BY <2>2, <2>3, <2>4, <2>5 DEF Keeps, HeardOrHanded
  <1>6. CASE Handed(n)
    <2> DEFINE m == Message("load_note", NoRequest, hostGen[n], doc[n].body)
    <2>1. m \in Messages(ToPageTypes) /\ m.type # "request_flush"
      BY DEF Message, Messages, ToPageTypes, TypeOK, WindowTypeOK, Documents, NoRequest
    <2>2. /\ toHost[n] # <<>> /\ toHost'[n] = Tail(toHost[n]) /\ file' = file
          /\ toPage'[n] = Append(toPage[n], m)
      BY <1>6 DEF Handed, Hears
    <2> HIDE DEF m
    <2>3. win[n] # "none"
      BY <1>1, <2>2 DEF PagesAccounted, HeldByTask
    <2> QED
      BY <2>1, <2>2, <2>3 DEF HeardOrHanded
  <1>7. CASE Direct(n)
    <2>1. /\ toHost'[n] = toHost[n] /\ toPage'[n] = toPage[n] /\ Recorded(n)
          /\ win[n] = "loading"
      BY <1>7 DEF Direct, TypeOK, WindowTypeOK
    <2>2. reported[n] = {}
      BY <2>1 DEF Barrier, LoadingPage, ReportedCarried
    <2> QED
      BY <2>1, <2>2 DEF HeardOrHanded
  <1> QED
    BY <1>2, <1>3, <1>5, <1>6, <1>7 DEF HostStep, HeardOrHanded

(* While a hide or a quit runs and nothing failed, what was asked last is  *)
(* still owed, or was answered and is on file.                             *)
LEMMA SavedHost ==
    ASSUME TypeOK, TypeOK', ClaimsAccounted, ClaimsAccounted', PagesAccounted, BatchCounted,
           NEW n \in Notes, Barrier(n), ReportedCarried(n), HostStep(n), BatchRuns(n),
           active # NoOperation, active' # NoOperation, ~batch'.failed,
           win'[n] # "none", win[n] # "none" => Saved(n)
    PROVE  Saved(n)'
  <1>1. CASE Opened(n)
    <2>1. /\ In(toHost'[n]) = {Message("ready", NoRequest, 0, {})}
          /\ In(toPage'[n]) = {} /\ reported'[n] = {}
      BY <1>1, InNothing, InOne DEF Opened
    <2>2. Unasked(n)'
      BY <2>1 DEF Unasked, Message
    <2> QED
      BY <2>1, <2>2 DEF Saved
  <1>2. CASE HeardOrHanded(n)
    <2>1. /\ toHost[n] \in Seq(Messages(ToHostTypes)) /\ toPage[n] \in Seq(Messages(ToPageTypes))
          /\ toHost[n] # <<>> => /\ In(Tail(toHost[n])) \subseteq In(toHost[n])
                                 /\ Head(toHost[n]) \in In(toHost[n])
      BY Queues
    <2>2. Saved(n)
      BY <1>2 DEF HeardOrHanded
    <2>3. /\ In(toHost'[n]) \subseteq In(toHost[n])
          /\ \A m \in In(toPage'[n]) : m \in In(toPage[n]) \/ m.type # "request_flush"
      <3>1. \A m \in Messages(ToPageTypes) :
                In(Append(toPage[n], m)) = In(toPage[n]) \cup {m}
        BY <2>1, InAppend
      <3> QED
        BY <1>2, <2>1, <3>1 DEF HeardOrHanded
    <2>4. Unasked(n) => Unasked(n)'
      BY <2>3 DEF Unasked
    <2>5. CASE Batched(n) \subseteq flushes'[n]
      <3>1. ASSUME NEW f \in Batched(n), LastAsked(n, f.req)
            PROVE  Saved(n)'
        <4>1. PICK req : req = f.req
          OBVIOUS
        <4>2. LastAsked(n, req)'
          BY <1>2, <3>1, <4>1, AskedHost DEF HeardOrHanded
        <4>3. f \in Batched(n)'
          BY <2>5, <3>1 DEF Batched
        <4> QED
          BY <4>1, <4>2, <4>3 DEF Saved
      <3>2. ASSUME reported[n] \subseteq file[n].body, Unasked(n)
            PROVE  Saved(n)'
        <4>1. ~Hears(n, "flush_response")
          BY <2>1, <3>2 DEF Hears, Unasked
        <4>2. reported'[n] \in {reported[n], {}}
          BY <4>1 DEF BatchRuns
        <4>3. reported'[n] \subseteq file'[n].body
          BY <1>2, <3>2, <4>2 DEF HeardOrHanded
        <4> QED
          BY <2>4, <3>2, <4>3 DEF Saved
      <3> QED
        BY <2>2, <3>1, <3>2 DEF Saved
    <2>6. ASSUME NEW a \in Notes, NEW flush, NEW ok, Settles(a, flush, ok), flush.why = "batch"
          PROVE  Saved(n)'
      <3>1. /\ flush \in Batched(a)
            /\ batch'.failed = (batch.failed \/ ~ok)
        BY <2>6, BatchSettles
      <3>2. ok
        BY <3>1
      <3>3. CASE n # a
        <4>1. flushes'[n] = flushes[n]
          BY <2>6, <3>3 DEF Settles, FlushSettled, TypeOK, WindowTypeOK
        <4> QED
          BY <2>5, <4>1 DEF Batched
      <3>4. CASE n = a
        <4>1. AnsweredWell(n) /\ Head(toHost[n]).req = flush.req
          BY <2>6, <3>2, <3>4 DEF Settles
        <4>2. /\ toHost[n] # <<>> /\ Head(toHost[n]).type = "flush_response"
              /\ toHost'[n] = Tail(toHost[n])
          BY <4>1 DEF AnsweredWell, Hears
        <4>3. reported'[n] \subseteq file'[n].body
          BY <4>1, AnsweredIsSaved
        <4>4. LastAsked(n, flush.req)
          <5>1. ~Unasked(n)
            BY <2>1, <4>2 DEF Unasked
          <5>2. PICK f \in Batched(n) : LastAsked(n, f.req)
            BY <2>2, <5>1 DEF Saved
          <5>3. f = flush
            BY <3>1, <3>4, <5>2 DEF BatchCounted
          <5> QED
            BY <5>2, <5>3
        <4>5. \A m \in In(Tail(toHost[n])) : <<Head(toHost[n]), m>> \in LastAnswer(flush.req)
          BY <2>1, <4>2, <4>4, OrderedTail DEF LastAsked
        <4>6. \A m \in In(toHost'[n]) : m.type # "flush_response"
          BY <4>1, <4>2, <4>5 DEF LastAnswer
        <4>7. \A m \in In(toPage'[n]) : m.type # "request_flush"
          BY <2>1, <2>3, <4>1, <4>2, <4>4 DEF LastAsked
        <4> QED
          BY <4>3, <4>6, <4>7 DEF Saved, Unasked
      <3> QED
        BY <3>3, <3>4
    <2> QED
      BY <2>5, <2>6 DEF BatchRuns
  <1> QED
    BY <1>1, <1>2, HeardWhileBatch

(* Only a hide or a quit that asks the windows begins one.                 *)
LEMMA OnlyStartBegins ==
    ASSUME TypeOK, active = NoOperation, active' # NoOperation, [Next]_vars
    PROVE  \E operation \in LifecycleOperation : StartFlushAll(operation) /\ Windows # {}
  <1>1. \A n, flush, ok, nowLive, heard, told :
            ~FlushSettled(n, flush, ok, nowLive, heard, told)
    BY DEF FlushSettled, FinishLifecycle, lifecycleVars
  <1> QED
    BY <1>1, FlushesMove DEF FlushMoves

(* Steps keep what a hide or a quit waits for.                             *)
LEMMA SavedStep ==
    ASSUME TypeOK, TypeOK', ClaimsAccounted, ClaimsAccounted', PagesAccounted, RequestsToldApart,
           BarrierHolds, AnswersAccounted, BatchCounted, BatchSaved, [Next]_vars
    PROVE  BatchSaved'
  <1>1. CASE \E a \in Notes : PageStep(a)
    BY <1>1, SavedPage
  <1>2. CASE \A n \in Notes : HostStep(n)
    <2>1. CASE active' = NoOperation
      BY <2>1 DEF BatchSaved
    <2>2. CASE active' # NoOperation /\ active = NoOperation
      BY <2>2, OnlyStartBegins, BatchBegins
    <2>3. ASSUME active' # NoOperation, active # NoOperation, ~batch'.failed,
                 NEW n \in Notes, win'[n] # "none"
          PROVE  Saved(n)'
      <3>1. BatchRuns(n)
        BY <2>3, BatchesRun DEF StructuralActionAllowed
      <3>2. ~batch.failed
        <4>1. ASSUME NEW a \in Notes, NEW flush, NEW ok, Settles(a, flush, ok),
                     flush.why = "batch"
              PROVE  batch'.failed = (batch.failed \/ ~ok)
          BY <4>1, BatchSettles
        <4> QED
          BY <2>3, <3>1, <4>1 DEF BatchRuns
      <3>3. win[n] # "none" => Saved(n)
        BY <2>3, <3>2 DEF BatchSaved, Windows
      <3> QED
        BY <1>2, <2>3, <3>1, <3>3, SavedHost DEF BarrierHolds, AnswersAccounted
    <2> QED
      BY <2>1, <2>2, <2>3 DEF BatchSaved, Windows
  <1> QED
    BY <1>1, <1>2, EveryStep

-----------------------------------------------------------------------------
(* How a window closes.                                                    *)

(* The ways a window closes.                                               *)
LEMMA WindowsClose ==
    ASSUME TypeOK, PagesAccounted, [Next]_vars, NEW n \in Notes, win[n] # "none", win'[n] = "none"
    PROVE  \/ SaveAndCloseAsked(n)
           \/ \E a \in Notes : \E flush, ok : Settles(a, flush, ok)
           \/ DiscardDirectly(n) \/ ResumeDiscard(n)
  <1>1. win \in [Notes -> {"none", "loading", "loaded"}]
    BY DEF TypeOK, WindowTypeOK
  <1>2. win' # win
    OBVIOUS
  <1>3. ~UNCHANGED vars
    BY <1>2 DEF vars, hostVars
  <1>4. \A heard, told : ~Turn(heard, {}, told)
    <2> SUFFICES ASSUME NEW heard, NEW told, Turn(heard, {}, told)
                 PROVE  FALSE
      OBVIOUS
    <2>1. win' = [i \in Notes |-> win[i]]
      BY DEF Turn
    <2> QED
      BY <1>1, <1>2, <2>1
  <1>5. \A a, told : ~LetGo(a, FALSE, told)
    BY <1>1, <1>2 DEF LetGo
  <1>6. ASSUME NEW a \in Notes
        PROVE  ~(ReaderActs(a) \/ PageWorks(a) \/ PageGrowsSlow(a) \/ DeliveryFails(a)
                 \/ SomebodyAsks(a))
    <2>1. ~(ReaderActs(a) \/ PageWorks(a) \/ PageGrowsSlow(a) \/ DeliveryFails(a))
      BY <1>2 DEF ReaderActs, PageWorks, PageGrowsSlow, DeliveryFails, hostVars
    <2>2. ~OpenWindow(a)
      BY <1>1 DEF OpenWindow
    <2>3. ~(TrashNote(a) \/ \E kind \in Kinds : Submit(a, kind))
      BY <1>2 DEF TrashNote, Submit
    <2> QED
      BY <2>1, <2>2, <2>3 DEF SomebodyAsks
  <1>7. \A operation : ~StartFlushAll(operation)
    BY <1>2 DEF StartFlushAll
  <1>8. ASSUME NEW a \in Notes, HostHears(a)
        PROVE  SaveAndCloseAsked(n) \/ \E flush, ok : Settles(a, flush, ok)
    <2>1. ~(ContentChanged(a) \/ PaperChanged(a) \/ SnapshotReady(a) \/ ApplyAnswered(a))
      BY <1>4 DEF ContentChanged, PaperChanged, SnapshotReady, ApplyAnswered
    <2>2. ~Ready(a)
      BY <1>1 DEF Ready
    <2>3. SaveAndCloseAsked(a) => a = n
      <3> SUFFICES ASSUME SaveAndCloseAsked(a)
                   PROVE  a = n
        OBVIOUS
      <3>1. PICK gone : Turn({a}, gone, Silence) /\ gone \subseteq {a}
        BY DEF SaveAndCloseAsked
      <3> QED
        BY <3>1 DEF Turn
    <2> QED
      BY <1>2, <1>8, <2>1, <2>2, <2>3, ResponseSettles DEF HostHears
  <1>9. ASSUME NEW a \in Notes, TimerFires(a)
        PROVE  \E flush, ok : Settles(a, flush, ok)
    <2>1. ~(SnapshotTimeout(a) \/ AckTimeout(a))
      BY <1>2, <1>4 DEF SnapshotTimeout, AckTimeout
    <2> QED
      BY <1>9, <2>1, ExpirySettles DEF TimerFires
  <1>10. ASSUME NEW a \in Notes, AuthorityWorks(a)
         PROVE  DiscardDirectly(n) \/ ResumeDiscard(n)
    <2>1. ~(MutateDirectly(a) \/ AskSnapshot(a) \/ FinishWrite(a))
      BY <1>2, <1>5 DEF MutateDirectly, Unanswered, AskSnapshot, FinishWrite
    <2>2. ~ResumeMutation(a)
      BY <1>4, <1>5 DEF ResumeMutation, GiveUp
    <2>3. DiscardDirectly(a) => a = n
      <3> SUFFICES ASSUME DiscardDirectly(a)
                   PROVE  a = n
        OBVIOUS
      <3>1. PICK gone : Turn({}, gone, Silence) /\ gone \subseteq {a}
        BY DEF DiscardDirectly
      <3> QED
        BY <3>1 DEF Turn
    <2>4. ResumeDiscard(a) => a = n
      BY <1>1 DEF ResumeDiscard, LetGo
    <2> QED
      BY <1>10, <2>1, <2>2, <2>3, <2>4 DEF AuthorityWorks
  <1> QED
    BY <1>3, <1>6, <1>7, <1>8, <1>9, <1>10 DEF Next

(* A window closes on what its page answered.                              *)
LEMMA ClosesSaved ==
    ASSUME TypeOK, ClaimsAccounted, PagesAccounted, BarrierHolds, AnswersAccounted, BatchCounted,
           BatchSaved, [Next]_vars, NEW n \in Notes, win[n] # "none", win'[n] = "none"
    PROVE  reported'[n] \subseteq file'[n].body
  <1>1. /\ reported \in [Notes -> Bodies]
        /\ file \in [Notes -> Documents]
        /\ task \in Tasks
    BY DEF TypeOK, WindowTypeOK
  <1>2. Barrier(n) /\ ClosesCurrent(n) /\ ReportedCarried(n)
    BY DEF BarrierHolds, AnswersAccounted
  <1>3. CASE SaveAndCloseAsked(n)
    <2> DEFINE m == Head(toHost[n])
    <2>1. Hears(n, "save_and_close")
      BY <1>3 DEF SaveAndCloseAsked
    <2>2. m \in In(toHost[n]) /\ m.type = "save_and_close"
      BY <2>1, Queues DEF Hears
    <2>3. m.gen = hostGen[n]
      BY <1>2, <2>2 DEF ClosesCurrent
    <2>4. reported[n] \subseteq m.text
      BY <1>2, <2>2, <2>3 DEF ReportedCarried, Carried, Saves
    <2>5. ~Turn({n}, {}, Silence)
      BY DEF Turn
    <2>6. /\ \E ok \in Outcomes : ok /\ SaveContent(n, m.text, ok)
          /\ Reports(n)
      BY <1>3, <2>3, <2>5 DEF SaveAndCloseAsked, AcceptsGeneration
    <2>7. file'[n].body = m.text
      BY <2>1, <2>6, SaveContentStores
    <2>8. reported'[n] = reported[n] \cup m.text
      BY <1>1, <2>6 DEF Reports
    <2> QED
      BY <2>4, <2>7, <2>8
  <1>4. ASSUME NEW a \in Notes, NEW flush, NEW ok, Settles(a, flush, ok)
        PROVE  reported'[n] \subseteq file'[n].body
    <2>1. CASE n = a
      <3>1. ok
        <4>1. CASE flush.why = "batch"
          BY <1>4, <4>1, BatchSettles
        <4>2. CASE flush.why # "batch"
          <5>1. PICK nowLive, heard, moves :
                   /\ CommitTrash(a, nowLive, ok /\ moves)
                   /\ Turn(heard, IF trashed' # trashed THEN {a} ELSE {}, Silence)
            BY <1>4, <4>2 DEF Settles, FlushSettled
          <5>2. trashed' # trashed
            BY <5>1 DEF Turn
          <5> QED
            BY <5>1, <5>2 DEF CommitTrash
        <4> QED
          BY <4>1, <4>2
      <3> QED
        BY <1>2, <1>4, <2>1, <3>1, AnsweredIsSaved DEF Settles
    <2>2. CASE n # a
      <3>1. flush.why = "batch"
        <4> SUFFICES ASSUME flush.why # "batch"
                     PROVE  FALSE
          OBVIOUS
        <4>1. PICK heard, gone : Turn(heard, gone, Silence) /\ gone \subseteq {a}
          BY <1>4 DEF Settles, FlushSettled
        <4> QED
          BY <2>2, <4>1 DEF Turn
      <3>2. active # NoOperation /\ batch.remaining = 1 /\ ~batch.failed /\ Batched(n) = {}
        BY <1>4, <2>2, <3>1, BatchSettles
      <3>3. Saved(n)
        BY <3>2 DEF BatchSaved, Windows
      <3> QED
        BY <1>4, <2>2, <3>2, <3>3 DEF Saved, Settles
    <2> QED
      BY <2>1, <2>2
  <1>5. CASE DiscardDirectly(n)
    <2>1. win[n] = "loading" /\ UNCHANGED reported
      BY <1>5 DEF DiscardDirectly, TypeOK, WindowTypeOK
    <2> QED
      BY <1>2, <2>1 DEF Barrier, LoadingPage, ReportedCarried
  <1>6. CASE ResumeDiscard(n)
    <2>1. UNCHANGED <<reported, file>> /\ task.stage = "resumed" /\ task.note = n
      BY <1>6 DEF ResumeDiscard
    <2>2. /\ task.ok
          /\ LiveBase(n, task.text) = task.expected
          /\ file[n] = task.expected
      <3>1. PICK valid, moves, closes :
               /\ valid => /\ task.ok
                           /\ LiveBase(n, task.text) = task.expected
                           /\ file[n] = task.expected
               /\ CommitTrash(n, live, valid /\ moves)
               /\ closes = (trashed' # trashed)
               /\ LetGo(n, closes, <<AbortWrite(n)>>)
        BY <1>6 DEF ResumeDiscard
      <3>2. closes
        BY <3>1 DEF LetGo, TypeOK, WindowTypeOK
      <3> QED
        BY <3>1, <3>2 DEF CommitTrash
    <2>3. LiveBase(n, task.text).body = task.text
      BY DEF LiveBase, TypeOK, WindowTypeOK, Documents
    <2>4. Frozen(n, task.req) /\ page[n].text = task.text
      BY <1>2, <2>1, <2>2 DEF Barrier, SnapshotsHold
    <2>5. Holds(n) /\ page[n].gen = hostGen[n]
      BY <1>2, <2>1, <2>4 DEF Barrier, PageGeneration, PastAborting, Pending, Frozen, Holds
    <2> QED
      BY <1>2, <2>1, <2>2, <2>3, <2>4, <2>5 DEF ReportedCarried, Carried
  <1> QED
    BY <1>3, <1>4, <1>5, <1>6, WindowsClose

(* While a hide or a quit waits and nothing failed, every window either    *)
(* owes it an answer, asked of it last, or has all it answered on file     *)
(* (flush_all_then and FlushBatch in src/src/app.rs).                      *)
THEOREM BatchAlwaysSaved == Spec => [](BatchCounted /\ BatchSaved)
  <1>1. Init => BatchCounted /\ BatchSaved
    <2> SUFFICES ASSUME Init
                 PROVE  BatchCounted /\ BatchSaved
      OBVIOUS
    <2>1. /\ flushes = [n \in Notes |-> {}] /\ batch.remaining = 0
          /\ active = NoOperation
      BY DEF Init, WindowInit, LifecycleInit
    <2>2. (\A n \in Notes : Batched(n) = {}) /\ Asked = {}
      BY <2>1 DEF Batched, Asked
    <2>3. Cardinality(Asked) = 0
      BY <2>2, FS_EmptySet
    <2> QED
      BY <2>1, <2>2, <2>3 DEF BatchCounted, BatchSaved
  <1>2. /\ TypeOK /\ TypeOK' /\ ClaimsAccounted /\ ClaimsAccounted' /\ PagesAccounted
        /\ RequestsToldApart /\ BarrierHolds /\ AnswersAccounted
        /\ BatchCounted /\ BatchSaved /\ [Next]_vars
        => (BatchCounted /\ BatchSaved)'
    BY FlushesMove, CountStep, SavedStep
  <1> QED
    BY <1>1, <1>2, TypeCorrect, ClaimsAlwaysAccounted, PagesAlwaysAccounted, BarrierAlwaysHolds,
       AnswersAlwaysAccounted, PTL DEF Spec

(* What a page answered to a flush, or to the close that closes it, is on  *)
(* file when its window closes, whichever way it closes (save_and_close in *)
(* src/src/note_window.rs, FlushBatch::record in src/src/app.rs).          *)
THEOREM AnswersAlwaysSaved == Spec => SavedBeforeClosed
  <1>1. /\ TypeOK /\ ClaimsAccounted /\ PagesAccounted /\ RequestsToldApart /\ BarrierHolds
        /\ AnswersAccounted /\ BatchCounted /\ BatchSaved /\ [Next]_vars
        => [\A n \in Notes :
              win[n] # "none" /\ win'[n] = "none" => reported'[n] \subseteq file'[n].body]_vars
    BY ClosesSaved
  <1> QED
    BY <1>1, TypeCorrect, ClaimsAlwaysAccounted, PagesAlwaysAccounted, BarrierAlwaysHolds,
       AnswersAlwaysAccounted, BatchAlwaysSaved, PTL DEF Spec, SavedBeforeClosed

=============================================================================
