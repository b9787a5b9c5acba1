---------------------------- MODULE CaptureProofs ----------------------------
(***************************************************************************)
(* What holds of clipboard capture for every set of notes and every bound. *)
(***************************************************************************)
EXTENDS Capture, FiniteSetTheorems, SequenceTheorems, TLAPS

-----------------------------------------------------------------------------
(* Types.                                                                  *)

LEMMA PolicyTypes ==
    ASSUME PolicyTypeOK
    PROVE  /\ \A n \in Notes : Arm(n) => PolicyTypeOK'
           /\ Disarm => PolicyTypeOK'
           /\ \A own, text \in BOOLEAN : Observe(own, text) => PolicyTypeOK'
           /\ FinishRead => PolicyTypeOK'
  <1>1. ASSUME NEW n \in Notes, Arm(n) PROVE PolicyTypeOK'
    <2>1. [note |-> n, generation |-> nextGeneration + 1] \in Sessions
      BY DEF PolicyTypeOK, Sessions
    <2>2. armed' \in Sessions
      BY <1>1, <2>1 DEF Arm
    <2>3. nextGeneration' \in Nat
      BY <1>1 DEF Arm, PolicyTypeOK
    <2>4. reading' \in BOOLEAN /\ queued' \in BOOLEAN
      BY <1>1 DEF Arm, PolicyTypeOK
    <2>5. QED BY <2>2, <2>3, <2>4 DEF PolicyTypeOK
  <1>2. ASSUME Disarm PROVE PolicyTypeOK'
    <2>1. armed' \in Sessions \cup {NotArmed}
      BY <1>2 DEF Disarm
    <2>2. nextGeneration' \in Nat
      BY <1>2 DEF Disarm, PolicyTypeOK
    <2>3. reading' \in BOOLEAN /\ queued' \in BOOLEAN
      BY <1>2 DEF Disarm, PolicyTypeOK
    <2>4. QED BY <2>1, <2>2, <2>3 DEF PolicyTypeOK
  <1>3. ASSUME NEW own \in BOOLEAN, NEW text \in BOOLEAN, Observe(own, text)
        PROVE  PolicyTypeOK'
    BY <1>3 DEF Observe, PolicyTypeOK
  <1>4. FinishRead => PolicyTypeOK'
    BY DEF FinishRead, ReadsAgain, IsArmed, PolicyTypeOK
  <1>5. QED BY <1>1, <1>2, <1>3, <1>4

LEMMA DisarmTypes ==
    ASSUME TypeOK, NEW notes, DisarmAutopaste(notes)
    PROVE  PolicyTypeOK' /\ watch' \in BOOLEAN
  <1>1. PolicyTypeOK
    BY DEF TypeOK
  <1>2. CASE TargetSet \cap notes # {}
    BY <1>1, <1>2, PolicyTypes DEF DisarmAutopaste
  <1>3. CASE TargetSet \cap notes = {}
    BY <1>1, <1>3 DEF DisarmAutopaste, policyVars, PolicyTypeOK, TypeOK
  <1>4. QED BY <1>2, <1>3

LEMMA MessagesTyped ==
    /\ NoFlush \in Flushes
    /\ \A type \in MessageTypes \ {"auto_paste_captured"} : Message(type) \in Messages
    /\ \A on \in BOOLEAN : Switch(on) \in Messages
    /\ \A i \in Items : Captured(i) \in Messages
  <1>1. NoFlush \in Flushes
    BY DEF NoFlush, Flushes
  <1>2. <<>> \in Seq(Items)
    OBVIOUS
  <1>3. \A i \in Items : i \in Nat
    BY DEF Items
  <1>4. QED BY <1>1, <1>2, <1>3 DEF Message, Messages, MessageTypes, Switch, Captured

LEMMA PublishedTypes ==
    \A notes : Published(notes) \in [Notes -> Seq(Messages)]
  <1> SUFFICES ASSUME NEW notes, NEW n \in Notes
               PROVE  Published(notes)[n] \in Seq(Messages)
    BY DEF Published
  <1>1. Switch(armed' # NotArmed /\ armed'.note = n) \in Messages
    BY MessagesTyped
  <1>2. QED BY <1>1 DEF Published

LEMMA TurnTypes ==
    ASSUME TypeOK, NEW heard, NEW gone, NEW told \in [Notes -> Seq(Messages)],
           \A n \in heard : toHost[n] # <<>>, Turn(heard, gone, told)
    PROVE  /\ window' \subseteq Notes
           /\ page' \in [Notes -> Pages]
           /\ toHost' \in [Notes -> Seq(Messages)]
           /\ toPage' \in [Notes -> Seq(Messages)]
  <1>1. window' \subseteq Notes
    BY DEF Turn, TypeOK
  <1>2. PageOf(<<>>) \in Pages
    BY DEF PageOf, Pages
  <1>3. page' \in [Notes -> Pages]
    BY <1>2 DEF Turn, TypeOK
  <1>4. toHost' \in [Notes -> Seq(Messages)]
    <2>1. \A n \in Notes : toHost[n] \in Seq(Messages)
      BY DEF TypeOK
    <2>2. \A n \in heard : n \in Notes => Tail(toHost[n]) \in Seq(Messages)
      BY <2>1
    <2>3. QED BY <2>1, <2>2 DEF Turn
  <1>5. toPage' \in [Notes -> Seq(Messages)]
    <2>1. \A n \in Notes : toPage[n] \o told[n] \in Seq(Messages)
      BY DEF TypeOK
    <2>2. QED BY <2>1 DEF Turn
  <1>6. QED BY <1>1, <1>3, <1>4, <1>5

LEMMA SendTypes ==
    ASSUME TypeOK, NEW n \in Notes, NEW message \in Messages, Send(n, message)
    PROVE  toHost' \in [Notes -> Seq(Messages)]
  BY DEF Send, TypeOK

LEMMA InitTypes == Init => TypeOK
  <1> SUFFICES ASSUME Init PROVE TypeOK
    OBVIOUS
  <1>1. PageOf(<<>>) \in Pages
    BY DEF PageOf, Pages
  <1>2. <<>> \in Seq(Copies) /\ <<>> \in Seq(Items) /\ <<>> \in Seq(Messages)
    OBVIOUS
  <1>3. PolicyTypeOK
    BY DEF Init, PolicyInit, PolicyTypeOK
  <1>4. LifecycleTypeOK
    BY DEF Init, LifecycleInit, LifecycleTypeOK
  <1>5. QED BY <1>1, <1>2, <1>3, <1>4 DEF Init, TypeOK

LEMMA CopyTypes ==
    ASSUME TypeOK, NEW kind \in Kinds, Copy(kind)
    PROVE  TypeOK'
  <1>1. [session |-> armed, kind |-> kind] \in Copies
    BY DEF Copies, TypeOK, PolicyTypeOK
  <1>2. copies' \in Seq(Copies)
    BY <1>1 DEF Copy, TypeOK
  <1>3. PolicyTypeOK'
    <2>1. PolicyTypeOK /\ (kind = "own") \in BOOLEAN /\ (kind # "image") \in BOOLEAN
      BY DEF TypeOK
    <2>2. CASE watch
      BY <2>1, <2>2, PolicyTypes DEF Copy
    <2>3. CASE ~watch
      BY <2>1, <2>3 DEF Copy, policyVars, PolicyTypeOK
    <2>4. QED BY <2>2, <2>3
  <1>4. reads' \subseteq Reads
    <2>1. ASSUME ReadsNow(kind = "own", kind # "image")
          PROVE  [session |-> armed, item |-> Len(copies) + 1] \in Reads
      BY <2>1, CaptureAssumption
      DEF ReadsNow, IsArmed, Reads, Items, TypeOK, PolicyTypeOK, Copy
    <2>2. QED BY <2>1 DEF Copy, TypeOK
  <1>5. QED
    BY <1>2, <1>3, <1>4
    DEF Copy, TypeOK, LifecycleTypeOK, lifecycleVars, windowVars, boundVars

LEMMA FinishReadTypes ==
    ASSUME TypeOK, NEW r \in reads, FinishClipboardRead(r),
           queued => IsArmed /\ Len(copies) \in Items
    PROVE  TypeOK'
  <1>1. PolicyTypeOK'
    BY PolicyTypes DEF FinishClipboardRead, TypeOK
  <1>2. reads' \subseteq Reads
    <2>1. ASSUME ReadsAgain PROVE [session |-> armed, item |-> Len(copies)] \in Reads
      BY <2>1 DEF ReadsAgain, IsArmed, Reads, TypeOK, PolicyTypeOK
    <2>2. QED BY <2>1 DEF FinishClipboardRead, TypeOK
  <1>3. r.item \in Items /\ r.item \in Nat
    BY DEF TypeOK, Reads, Items
  <1>4. Captured(r.item) \in Messages
    BY <1>3, MessagesTyped
  <1>5. \E to \in SUBSET window :
           /\ toPage' = [n \in Notes |-> IF n \in to THEN Append(toPage[n], Captured(r.item))
                                         ELSE toPage[n]]
           /\ taken' = [n \in Notes |-> IF n \in to THEN taken[n] \cup {r.item} ELSE taken[n]]
    BY DEF FinishClipboardRead
  <1>6. PICK to \in SUBSET window :
           /\ toPage' = [n \in Notes |-> IF n \in to THEN Append(toPage[n], Captured(r.item))
                                         ELSE toPage[n]]
           /\ taken' = [n \in Notes |-> IF n \in to THEN taken[n] \cup {r.item} ELSE taken[n]]
    BY <1>5
  <1>7. toPage' \in [Notes -> Seq(Messages)]
    BY <1>4, <1>6 DEF TypeOK
  <1>8. taken' \in [Notes -> SUBSET Items]
    BY <1>3, <1>6 DEF TypeOK
  <1>9. QED
    BY <1>1, <1>2, <1>7, <1>8
    DEF FinishClipboardRead, TypeOK, LifecycleTypeOK, lifecycleVars

LEMMA RequestFlushTypes ==
    ASSUME TypeOK, commands' \in Nat, nextGeneration' \in Nat, NEW notes,
           NEW why \in {"trash", "batch"}, NEW told, RequestFlush(notes, why, told)
    PROVE  /\ flushes' \in [Notes -> SUBSET Flushes]
           /\ window' \subseteq Notes
           /\ page' \in [Notes -> Pages]
           /\ toHost' \in [Notes -> Seq(Messages)]
           /\ toPage' \in [Notes -> Seq(Messages)]
  <1> DEFINE flush == [why |-> why, id |-> commands', generation |-> nextGeneration']
             message == [Message("request_flush") EXCEPT !.flush = flush]
             said == [n \in Notes |-> Published(told)[n] \o
                                      IF n \in notes THEN <<message>> ELSE <<>>]
  <1>1. flush \in Flushes
    BY DEF Flushes
  <1>2. message \in Messages
    BY <1>1, MessagesTyped DEF MessageTypes, Messages
  <1>3. flushes' \in [Notes -> SUBSET Flushes]
    BY <1>1 DEF RequestFlush, TypeOK
  <1>4. said \in [Notes -> Seq(Messages)]
    <2>1. ASSUME NEW n \in Notes PROVE said[n] \in Seq(Messages)
      <3>1. Published(told)[n] \in Seq(Messages)
        BY PublishedTypes
      <3>2. (IF n \in notes THEN <<message>> ELSE <<>>) \in Seq(Messages)
        BY <1>2
      <3>3. QED BY <3>1, <3>2
    <2>2. QED BY <2>1
  <1>5. Turn({}, {}, said)
    BY DEF RequestFlush
  <1> HIDE DEF flush, message, said
  <1>6. QED BY <1>3, <1>4, <1>5, TurnTypes

LEMMA DisarmThenFlushTypes ==
    ASSUME TypeOK, commands' \in Nat, NEW targets, NEW notes, NEW why \in {"trash", "batch"},
           DisarmThenFlush(targets, notes, why)
    PROVE  /\ PolicyTypeOK' /\ watch' \in BOOLEAN
           /\ flushes' \in [Notes -> SUBSET Flushes]
           /\ window' \subseteq Notes
           /\ page' \in [Notes -> Pages]
           /\ toHost' \in [Notes -> Seq(Messages)]
           /\ toPage' \in [Notes -> Seq(Messages)]
  <1>1. PolicyTypeOK' /\ watch' \in BOOLEAN
    BY DisarmTypes DEF DisarmThenFlush
  <1>2. nextGeneration' \in Nat
    BY <1>1 DEF PolicyTypeOK
  <1>3. RequestFlush(notes, why, TargetSet \cap targets)
    BY DEF DisarmThenFlush
  <1>4. QED BY <1>1, <1>2, <1>3, RequestFlushTypes

LEMMA ReaderTypes ==
    ASSUME TypeOK, NEW n \in Notes, ReaderActs(n)
    PROVE  TypeOK'
  <1>1. ASSUME NEW on \in BOOLEAN, AskSwitch(n, on) PROVE TypeOK'
    <2>1. [Message("auto_paste_requested") EXCEPT !.on = on] \in Messages
      BY MessagesTyped DEF MessageTypes, Messages
    <2>2. toHost' \in [Notes -> Seq(Messages)]
      BY <1>1, <2>1, SendTypes DEF AskSwitch
    <2>3. QED
      BY <1>1, <2>2
      DEF AskSwitch, Command, TypeOK, PolicyTypeOK, LifecycleTypeOK, policyVars, lifecycleVars,
          captureVars
  <1>2. CASE SaveAndClose(n)
    <2>1. page[n].text \in Seq(Items) /\ Message("save_and_close") \in Messages
      BY MessagesTyped DEF MessageTypes, TypeOK, Pages
    <2>a. [Message("save_and_close") EXCEPT !.text = page[n].text] \in Messages
      BY <2>1 DEF Messages
    <2>2. toHost' \in [Notes -> Seq(Messages)]
      BY <1>2, <2>a, SendTypes DEF SaveAndClose
    <2>3. QED
      BY <1>2, <2>2
      DEF SaveAndClose, Command, TypeOK, PolicyTypeOK, LifecycleTypeOK, policyVars,
          lifecycleVars, captureVars
  <1>3. CASE OpenWindow(n)
    <2>1. PageOf(file[n]) \in Pages
      BY DEF PageOf, Pages, TypeOK
    <2>2. QED
      BY <1>3, <2>1
      DEF OpenWindow, Command, TypeOK, PolicyTypeOK, LifecycleTypeOK, policyVars, lifecycleVars,
          captureVars
  <1>4. CASE TrashNote(n)
    <2>1. commands' \in Nat
      BY <1>4 DEF TrashNote, Command, TypeOK
    <2>2. DisarmThenFlush({n}, {n}, "trash")
      BY <1>4 DEF TrashNote
    <2>3. LifecycleTypeOK'
      BY <1>4 DEF TrashNote, TypeOK, LifecycleTypeOK, lifecycleVars
    <2>4. UNCHANGED <<copies, reads, live, file, batch, holding, writes, taken, flushed, opened>>
      BY <1>4 DEF TrashNote
    <2>5. QED
      BY <2>1, <2>2, <2>3, <2>4, DisarmThenFlushTypes DEF TypeOK
  <1>5. QED BY <1>1, <1>2, <1>3, <1>4 DEF ReaderActs

LEMMA PageOperationsTyped ==
    ASSUME NEW p \in Pages
    PROVE  /\ \A items \in Seq(Items) : Filed(p, items) \in Pages
           /\ \A i \in Items : [p EXCEPT !.held = Append(@, i)] \in Pages
           /\ \A on \in BOOLEAN : [p EXCEPT !.active = on] \in Pages
           /\ [p EXCEPT !.frozen = TRUE] \in Pages
           /\ [p EXCEPT !.frozen = FALSE, !.held = <<>>] \in Pages
           /\ p.held \in Seq(Items) /\ p.text \in Seq(Items)
  <1>1. ASSUME NEW items \in Seq(Items) PROVE Filed(p, items) \in Pages
    <2>1. p.text \o items \in Seq(Items)
      BY DEF Pages
    <2>2. QED BY <2>1 DEF Filed, Pages
  <1>2. ASSUME NEW i \in Items PROVE [p EXCEPT !.held = Append(@, i)] \in Pages
    <2>1. Append(p.held, i) \in Seq(Items)
      BY DEF Pages
    <2>2. QED BY <2>1 DEF Pages
  <1>3. \A on \in BOOLEAN : [p EXCEPT !.active = on] \in Pages
    BY DEF Pages
  <1>4. [p EXCEPT !.frozen = TRUE] \in Pages
    BY DEF Pages
  <1>5. [p EXCEPT !.frozen = FALSE, !.held = <<>>] \in Pages
    <2>1. <<>> \in Seq(Items)
      OBVIOUS
    <2>2. QED BY <2>1 DEF Pages
  <1>6. p.held \in Seq(Items) /\ p.text \in Seq(Items)
    BY DEF Pages
  <1>7. QED BY <1>1, <1>2, <1>3, <1>4, <1>5, <1>6

LEMMA PageTypes ==
    ASSUME TypeOK, NEW n \in Notes, PageHears(n)
    PROVE  TypeOK'
  <1> DEFINE m == Head(toPage[n])
             p == page[n]
  <1>1. m \in Messages /\ p \in Pages /\ Tail(toPage[n]) \in Seq(Messages)
    BY DEF TypeOK, PageHears
  <1>2. toPage' \in [Notes -> Seq(Messages)]
    BY <1>1 DEF PageHears, TypeOK
  <1>a. /\ m.type = "auto_paste_captured" => m.item \in Items
        /\ m.on \in BOOLEAN /\ m.flush \in Flushes
    BY <1>1 DEF Messages
  <1> HIDE DEF m, p
  <1>3. page' \in [Notes -> Pages] /\ toHost' \in [Notes -> Seq(Messages)]
    <2>1. CASE page' = [page EXCEPT ![n].active = m.on] /\ UNCHANGED toHost
      <3>1. [p EXCEPT !.active = m.on] \in Pages
        BY <1>1, <1>a, PageOperationsTyped
      <3>2. QED BY <2>1, <3>1 DEF TypeOK, p
    <2>2. CASE /\ m.type = "auto_paste_captured" /\ UNCHANGED toHost
               /\ page' = [page EXCEPT ![n] =
                              IF p.frozen /\ p.active
                              THEN [p EXCEPT !.held = Append(@, m.item)]
                              ELSE Filed(p, <<m.item>>)]
      <3>1. <<m.item>> \in Seq(Items)
        BY <1>a, <2>2
      <3>2. /\ [p EXCEPT !.held = Append(@, m.item)] \in Pages
            /\ Filed(p, <<m.item>>) \in Pages
        BY <1>1, <1>a, <2>2, <3>1, PageOperationsTyped
      <3>3. QED BY <2>2, <3>2 DEF TypeOK
    <2>3. CASE /\ Send(n, [Message("flush_response") EXCEPT !.flush = m.flush, !.text = p.text])
               /\ UNCHANGED page
      <3>1. p.text \in Seq(Items) /\ Message("flush_response") \in Messages
        BY <1>1, PageOperationsTyped, MessagesTyped DEF MessageTypes
      <3>2. [Message("flush_response") EXCEPT !.flush = m.flush, !.text = p.text] \in Messages
        BY <1>a, <3>1 DEF Messages
      <3>3. QED BY <2>3, <3>2, SendTypes DEF TypeOK
    <2>4. CASE page' = [page EXCEPT ![n].frozen = TRUE] /\ UNCHANGED toHost
      <3>1. [p EXCEPT !.frozen = TRUE] \in Pages
        BY <1>1, PageOperationsTyped
      <3>2. QED BY <2>4, <3>1 DEF TypeOK, p
    <2>5. CASE /\ page' = [page EXCEPT ![n] =
                              [Filed(p, p.held) EXCEPT !.frozen = FALSE, !.held = <<>>]]
               /\ UNCHANGED toHost
      <3>1. Filed(p, p.held) \in Pages
        BY <1>1, PageOperationsTyped
      <3>2. [Filed(p, p.held) EXCEPT !.frozen = FALSE, !.held = <<>>] \in Pages
        BY <3>1, PageOperationsTyped
      <3>3. QED BY <2>5, <3>2 DEF TypeOK
    <2>6. QED BY <2>1, <2>2, <2>3, <2>4, <2>5 DEF PageHears, m, p
  <1>4. QED
    BY <1>2, <1>3
    DEF PageHears, TypeOK, PolicyTypeOK, LifecycleTypeOK, policyVars, lifecycleVars,
        captureVars, boundVars

LEMMA SilenceTypes ==
    /\ Silence \in [Notes -> Seq(Messages)]
    /\ \A n \in Notes, message \in Messages :
          [Silence EXCEPT ![n] = <<message>>] \in [Notes -> Seq(Messages)]
  <1>1. Silence \in [Notes -> Seq(Messages)]
    <2>1. <<>> \in Seq(Messages)
      OBVIOUS
    <2>2. QED BY <2>1 DEF Silence
  <1>2. ASSUME NEW n \in Notes, NEW message \in Messages
        PROVE  [Silence EXCEPT ![n] = <<message>>] \in [Notes -> Seq(Messages)]
    <2>1. <<message>> \in Seq(Messages)
      OBVIOUS
    <2>2. QED BY <1>1, <2>1
  <1>3. QED BY <1>1, <1>2

LEMMA FlushSettledTypes ==
    ASSUME TypeOK, NEW n \in Notes, NEW flush \in Flushes, NEW ok \in BOOLEAN, NEW heard,
           \A i \in heard : toHost[i] # <<>>, FlushSettled(n, flush, ok, heard)
    PROVE  /\ flushes' \in [Notes -> SUBSET Flushes]
           /\ live' \subseteq Notes
           /\ batch' \in [remaining : Nat, failed : BOOLEAN]
           /\ LifecycleTypeOK'
           /\ window' \subseteq Notes
           /\ page' \in [Notes -> Pages]
           /\ toHost' \in [Notes -> Seq(Messages)]
           /\ toPage' \in [Notes -> Seq(Messages)]
  <1>1. flushes' \in [Notes -> SUBSET Flushes]
    BY DEF FlushSettled, TypeOK
  <1>2. live' \subseteq Notes
    BY DEF FlushSettled, TypeOK
  <1>3. batch' \in [remaining : Nat, failed : BOOLEAN]
    BY DEF FlushSettled, TypeOK
  <1>4. LifecycleTypeOK'
    BY DEF FlushSettled, FinishLifecycle, lifecycleVars, TypeOK, LifecycleTypeOK
  <1>5. \E gone : Turn(heard, gone, Silence)
    BY DEF FlushSettled
  <1>6. PICK gone : Turn(heard, gone, Silence)
    BY <1>5
  <1>7. QED BY <1>1, <1>2, <1>3, <1>4, <1>6, SilenceTypes, TurnTypes

LEMMA HostTypes ==
    ASSUME TypeOK, NEW n \in Notes, HostHears(n)
    PROVE  TypeOK'
  <1>1. CASE SwitchAsked(n)
    <2>1. PolicyTypeOK' /\ watch' \in BOOLEAN
      <3>1. CASE Head(toHost[n]).on
        BY <1>1, <3>1, PolicyTypes DEF SwitchAsked, TypeOK
      <3>2. CASE ~Head(toHost[n]).on
        BY <1>1, <3>2, DisarmTypes DEF SwitchAsked
      <3>3. QED BY <3>1, <3>2
    <2>2. Turn({n}, {}, Published(Told(n))) /\ toHost[n] # <<>>
      BY <1>1 DEF SwitchAsked, Hears
    <2>3. /\ window' \subseteq Notes
          /\ page' \in [Notes -> Pages]
          /\ toHost' \in [Notes -> Seq(Messages)]
          /\ toPage' \in [Notes -> Seq(Messages)]
      BY <2>2, PublishedTypes, TurnTypes
    <2>4. QED
      BY <1>1, <2>1, <2>3
      DEF SwitchAsked, TypeOK, LifecycleTypeOK, lifecycleVars, boundVars
  <1>2. CASE SaveAndCloseAsked(n)
    <2>1. Head(toHost[n]) \in Messages /\ toHost[n] # <<>>
      BY <1>2 DEF SaveAndCloseAsked, Hears, TypeOK
    <2>2. file' \in [Notes -> Seq(Items)]
      <3>1. Head(toHost[n]).text \in Seq(Items)
        BY <2>1 DEF Messages
      <3>2. QED BY <1>2, <3>1 DEF SaveAndCloseAsked, TypeOK
    <2>3. \E notes : DisarmAutopaste(notes)
      BY <1>2 DEF SaveAndCloseAsked
    <2>4. PolicyTypeOK' /\ watch' \in BOOLEAN
      BY <2>3, DisarmTypes
    <2>5. \E gone, notes : Turn({n}, gone, Published(notes))
      BY <1>2 DEF SaveAndCloseAsked
    <2>6. /\ window' \subseteq Notes
          /\ page' \in [Notes -> Pages]
          /\ toHost' \in [Notes -> Seq(Messages)]
          /\ toPage' \in [Notes -> Seq(Messages)]
      BY <2>1, <2>5, PublishedTypes, TurnTypes
    <2>7. QED
      BY <1>2, <2>2, <2>4, <2>6
      DEF SaveAndCloseAsked, TypeOK, LifecycleTypeOK, lifecycleVars, boundVars
  <1>3. CASE FlushResponse(n)
    <2> DEFINE m == Head(toHost[n])
    <2>1. m \in Messages /\ toHost[n] # <<>>
      BY <1>3 DEF FlushResponse, Hears, TypeOK
    <2>2. m.text \in Seq(Items) /\ m.flush \in Flushes /\ m.flush.generation \in Nat
      BY <2>1 DEF Messages, Flushes
    <2>3. CASE m.flush \in flushes[n]
      <3>1. PICK ok \in Outcomes :
               /\ file' = IF ok THEN [file EXCEPT ![n] = m.text] ELSE file
               /\ flushed' = IF ok THEN [flushed EXCEPT ![n] = m.flush.generation] ELSE flushed
               /\ FlushSettled(n, m.flush, ok, {n})
        BY <1>3, <2>3 DEF FlushResponse
      <3>2. ok \in BOOLEAN
        BY CaptureAssumption
      <3>3. file' \in [Notes -> Seq(Items)] /\ flushed' \in [Notes -> Nat]
        BY <2>2, <3>1 DEF TypeOK
      <3> HIDE DEF m
      <3>4. QED
        BY <1>3, <2>1, <2>2, <3>1, <3>2, <3>3, FlushSettledTypes
        DEF FlushResponse, TypeOK, PolicyTypeOK, policyVars, captureVars, m
    <2>4. CASE m.flush \notin flushes[n]
      <3>1. Turn({n}, {}, Silence)
        BY <1>3, <2>4 DEF FlushResponse
      <3>2. /\ window' \subseteq Notes
            /\ page' \in [Notes -> Pages]
            /\ toHost' \in [Notes -> Seq(Messages)]
            /\ toPage' \in [Notes -> Seq(Messages)]
        BY <2>1, <3>1, SilenceTypes, TurnTypes
      <3>3. UNCHANGED <<lifecycleVars, live, file, flushes, batch, flushed>>
        BY <1>3, <2>4 DEF FlushResponse
      <3>4. QED
        BY <1>3, <3>2, <3>3
        DEF FlushResponse, TypeOK, PolicyTypeOK, LifecycleTypeOK, policyVars, lifecycleVars,
            captureVars
    <2>5. QED BY <2>3, <2>4
  <1>4. CASE ExpireFlush(n)
    <2>1. PICK flush \in flushes[n] : FlushSettled(n, flush, FALSE, {})
      BY <1>4 DEF ExpireFlush
    <2>2. flush \in Flushes
      BY DEF TypeOK
    <2>a. \A ok \in BOOLEAN : FlushSettled(n, flush, ok, {})
             => /\ flushes' \in [Notes -> SUBSET Flushes]
                /\ live' \subseteq Notes
                /\ batch' \in [remaining : Nat, failed : BOOLEAN]
                /\ LifecycleTypeOK'
                /\ window' \subseteq Notes
                /\ page' \in [Notes -> Pages]
                /\ toHost' \in [Notes -> Seq(Messages)]
                /\ toPage' \in [Notes -> Seq(Messages)]
      BY <2>2, FlushSettledTypes
    <2>3. /\ flushes' \in [Notes -> SUBSET Flushes]
          /\ live' \subseteq Notes
          /\ batch' \in [remaining : Nat, failed : BOOLEAN]
          /\ LifecycleTypeOK'
          /\ window' \subseteq Notes
          /\ page' \in [Notes -> Pages]
          /\ toHost' \in [Notes -> Seq(Messages)]
          /\ toPage' \in [Notes -> Seq(Messages)]
      BY <2>1, <2>a
    <2>4. UNCHANGED <<policyVars, captureVars, file, holding, boundVars>>
      BY <1>4 DEF ExpireFlush
    <2>5. PolicyTypeOK'
      BY <2>4 DEF policyVars, PolicyTypeOK, TypeOK
    <2>6. QED
      BY <2>3, <2>4, <2>5 DEF TypeOK, captureVars, boundVars
  <1>5. QED BY <1>1, <1>2, <1>3, <1>4 DEF HostHears

LEMMA WriteTypes ==
    ASSUME TypeOK, NEW n \in Notes, WriteFromOutside(n)
    PROVE  TypeOK'
  <1> DEFINE begin == Message("begin_external_write")
             abort == Message("abort_external_write")
  <1>1. begin \in Messages /\ abort \in Messages
    BY MessagesTyped DEF MessageTypes
  <1> HIDE DEF begin, abort
  <1>2. CASE HoldNote(n)
    <2> DEFINE told == [Silence EXCEPT ![n] = <<begin>>]
    <2>1. Turn({}, {}, told)
      BY <1>2 DEF HoldNote, begin
    <2>a. told \in [Notes -> Seq(Messages)]
      BY <1>1, SilenceTypes
    <2> HIDE DEF told
    <2>2. LifecycleTypeOK' /\ holding' \subseteq Notes /\ writes' \in Nat
      BY <1>2 DEF HoldNote, BeginExternalWrite, TypeOK, LifecycleTypeOK
    <2>3. /\ window' \subseteq Notes
          /\ page' \in [Notes -> Pages]
          /\ toHost' \in [Notes -> Seq(Messages)]
          /\ toPage' \in [Notes -> Seq(Messages)]
      BY <2>1, <2>a, TurnTypes
    <2>4. UNCHANGED <<policyVars, captureVars, live, file, flushes, batch, commands, taken,
                      flushed, opened>>
      BY <1>2 DEF HoldNote
    <2>5. PolicyTypeOK'
      BY <2>4 DEF policyVars, PolicyTypeOK, TypeOK
    <2>6. QED
      BY <2>2, <2>3, <2>4, <2>5 DEF TypeOK, captureVars
  <1>3. CASE FreeNote(n)
    <2> DEFINE told == [Silence EXCEPT ![n] = <<abort>>]
    <2>1. Turn({}, {}, told)
      BY <1>3 DEF FreeNote, abort
    <2>a. told \in [Notes -> Seq(Messages)]
      BY <1>1, SilenceTypes
    <2> HIDE DEF told
    <2>2. LifecycleTypeOK' /\ holding' \subseteq Notes
      BY <1>3 DEF FreeNote, FinishExternalWrite, TypeOK, LifecycleTypeOK
    <2>3. /\ window' \subseteq Notes
          /\ page' \in [Notes -> Pages]
          /\ toHost' \in [Notes -> Seq(Messages)]
          /\ toPage' \in [Notes -> Seq(Messages)]
      BY <2>1, <2>a, TurnTypes
    <2>4. UNCHANGED <<policyVars, captureVars, live, file, flushes, batch, boundVars>>
      BY <1>3 DEF FreeNote
    <2>5. PolicyTypeOK'
      BY <2>4 DEF policyVars, PolicyTypeOK, TypeOK
    <2>6. QED
      BY <2>2, <2>3, <2>4, <2>5 DEF TypeOK, captureVars, boundVars
  <1>4. CASE DiscardNote(n)
    <2> DEFINE told == [Silence EXCEPT ![n] = Published({n} \cap TargetSet)[n] \o <<abort>>]
    <2>1. \E gone : Turn({}, gone, told)
      BY <1>4 DEF DiscardNote, abort
    <2>2. told \in [Notes -> Seq(Messages)]
      <3>1. Published({n} \cap TargetSet)[n] \in Seq(Messages)
        BY PublishedTypes
      <3>2. <<abort>> \in Seq(Messages)
        BY <1>1
      <3>3. QED BY <3>1, <3>2, SilenceTypes
    <2>3. LifecycleTypeOK' /\ holding' \subseteq Notes /\ live' \subseteq Notes
      BY <1>4 DEF DiscardNote, FinishExternalWrite, TypeOK, LifecycleTypeOK
    <2>4. PolicyTypeOK' /\ watch' \in BOOLEAN
      BY <1>4, DisarmTypes DEF DiscardNote
    <2> HIDE DEF told
    <2>5. /\ window' \subseteq Notes
          /\ page' \in [Notes -> Pages]
          /\ toHost' \in [Notes -> Seq(Messages)]
          /\ toPage' \in [Notes -> Seq(Messages)]
      BY <2>1, <2>2, TurnTypes
    <2>6. QED
      BY <1>4, <2>3, <2>4, <2>5 DEF DiscardNote, TypeOK, boundVars
  <1>5. QED BY <1>2, <1>3, <1>4 DEF WriteFromOutside

LEMMA CommandTypes ==
    ASSUME TypeOK, SetCaptureDelimiter \/ Hide
    PROVE  TypeOK'
  <1>1. CASE SetCaptureDelimiter
    <2>1. Turn({}, {}, Published(window))
      BY <1>1 DEF SetCaptureDelimiter
    <2>2. /\ window' \subseteq Notes
          /\ page' \in [Notes -> Pages]
          /\ toHost' \in [Notes -> Seq(Messages)]
          /\ toPage' \in [Notes -> Seq(Messages)]
      BY <2>1, PublishedTypes, TurnTypes
    <2>3. QED
      BY <1>1, <2>2
      DEF SetCaptureDelimiter, Command, TypeOK, PolicyTypeOK, LifecycleTypeOK, policyVars,
          lifecycleVars, captureVars
  <1>2. CASE Hide
    <2>1. commands' \in Nat
      BY <1>2 DEF Hide, Command, TypeOK
    <2>2. DisarmThenFlush(Notes, window, "batch")
      BY <1>2 DEF Hide
    <2>3. LifecycleTypeOK'
      BY <1>2
      DEF Hide, BeginLifecycle, LifecycleOperation, TypeOK, LifecycleTypeOK, lifecycleVars
    <2>4. batch' \in [remaining : Nat, failed : BOOLEAN]
      <3>1. IsFiniteSet(window)
        BY CaptureAssumption, FS_Subset DEF TypeOK
      <3>2. Cardinality(window) \in Nat
        BY <3>1, FS_CardinalityType
      <3>3. batch' = batch \/ batch' = [remaining |-> Cardinality(window), failed |-> FALSE]
        BY <1>2 DEF Hide
      <3>4. batch \in [remaining : Nat, failed : BOOLEAN]
        BY DEF TypeOK
      <3>5. [remaining |-> Cardinality(window), failed |-> FALSE]
               \in [remaining : Nat, failed : BOOLEAN]
        BY <3>2
      <3>6. QED BY <3>3, <3>4, <3>5
    <2>5. UNCHANGED <<copies, reads, live, file, holding, writes, taken, flushed, opened>>
      BY <1>2 DEF Hide
    <2>6. QED
      BY <2>1, <2>2, <2>3, <2>4, <2>5, DisarmThenFlushTypes DEF TypeOK
  <1>3. QED BY <1>1, <1>2

-----------------------------------------------------------------------------
(* Sessions.                                                               *)

LEMMA InitAccounted == Init => SessionsAccounted
  BY CaptureAssumption DEF Init, PolicyInit, SessionsAccounted, IsArmed

(* A session ends with its queue, and takes the handler with it.           *)
LEMMA DisarmAccounted ==
    ASSUME TypeOK, SessionsAccounted, NEW notes, DisarmAutopaste(notes),
           UNCHANGED <<copies, reads>>
    PROVE  SessionsAccounted'
  <1>1. CASE TargetSet \cap notes # {}
    BY <1>1 DEF DisarmAutopaste, Disarm, SessionsAccounted
  <1>2. CASE TargetSet \cap notes = {}
    BY <1>2 DEF DisarmAutopaste, policyVars, SessionsAccounted, IsArmed
  <1>3. QED BY <1>1, <1>2

LEMMA QuietAccounted ==
    ASSUME SessionsAccounted, UNCHANGED <<policyVars, captureVars>>
    PROVE  SessionsAccounted'
  BY DEF SessionsAccounted, policyVars, captureVars, IsArmed

LEMMA CopyAccounted ==
    ASSUME TypeOK, SessionsAccounted, NEW kind \in Kinds, Copy(kind)
    PROVE  SessionsAccounted'
  <1> DEFINE copy == [session |-> armed, kind |-> kind]
  <1>1. copies \in Seq(Copies) /\ copy \in Copies
    BY DEF TypeOK, Copies, PolicyTypeOK
  <1>2. copies' = Append(copies, copy) /\ Len(copies) < MaxCopies
    BY DEF Copy
  <1>3. /\ Len(copies') = Len(copies) + 1
        /\ \A i \in 1 .. Len(copies) : copies'[i] = copies[i]
        /\ copies'[Len(copies) + 1].session = armed
        /\ copies' # <<>>
    BY <1>1, <1>2
  <1>4. Len(copies) \in Nat /\ MaxCopies \in Nat
    BY <1>1, CaptureAssumption
  <1>5. UNCHANGED <<armed, watch>>
    BY DEF Copy, Observe, policyVars
  <1>6. \A r \in reads' : r.item <= Len(copies') /\ copies'[r.item].session = r.session
    <2>1. ASSUME NEW r \in reads
          PROVE  r.item <= Len(copies') /\ copies'[r.item].session = r.session
      <3>1. r.item \in Nat \ {0} /\ r.item <= Len(copies) /\ copies[r.item].session = r.session
        BY DEF TypeOK, Reads, Items, SessionsAccounted
      <3>2. QED BY <1>3, <1>4, <3>1
    <2>2. \A r \in reads' : r \in reads
              \/ r = [session |-> armed, item |-> Len(copies) + 1]
      BY DEF Copy
    <2>3. QED BY <1>3, <1>4, <2>1, <2>2
  <1>7. queued' => IsArmed /\ copies'[Len(copies')].session = armed
    <2>1. queued' => IsArmed
      BY DEF Copy, Observe, SessionsAccounted, policyVars
    <2>2. QED BY <1>3, <2>1
  <1>8. Len(copies') <= MaxCopies
    BY <1>2, <1>3, <1>4
  <1>9. QED
    BY <1>3, <1>5, <1>6, <1>7, <1>8 DEF SessionsAccounted, IsArmed

LEMMA FinishReadAccounted ==
    ASSUME TypeOK, SessionsAccounted, NEW r \in reads, FinishClipboardRead(r)
    PROVE  SessionsAccounted'
  <1>1. UNCHANGED <<armed, watch, copies>> /\ ~queued'
    BY DEF FinishClipboardRead, FinishRead
  <1>2. Len(copies) \in Nat
    BY DEF TypeOK
  <1>3. \A s \in reads' : s.item <= Len(copies) /\ copies[s.item].session = s.session
    <2>1. ASSUME NEW s \in reads', s \notin reads
          PROVE  ReadsAgain /\ s = [session |-> armed, item |-> Len(copies)]
      BY <2>1 DEF FinishClipboardRead
    <2>2. ASSUME NEW s \in reads
          PROVE  s.item <= Len(copies) /\ copies[s.item].session = s.session
      BY DEF SessionsAccounted
    <2>3. ASSUME ReadsAgain, NEW s, s = [session |-> armed, item |-> Len(copies)]
          PROVE  s.item <= Len(copies) /\ copies[s.item].session = s.session
      <3>1. s.item = Len(copies) /\ s.session = armed
        BY <2>3
      <3>2. copies[Len(copies)].session = armed
        BY <2>3 DEF SessionsAccounted, ReadsAgain
      <3>3. QED BY <1>2, <3>1, <3>2
    <2>4. QED BY <2>1, <2>2, <2>3
  <1>4. QED BY <1>1, <1>3 DEF SessionsAccounted, IsArmed

LEMMA SwitchAccounted ==
    ASSUME TypeOK, SessionsAccounted, NEW n \in Notes, SwitchAsked(n)
    PROVE  SessionsAccounted'
  <1>1. CASE Head(toHost[n]).on
    <2>1. Arm(n) /\ UNCHANGED <<copies, reads>>
      BY <1>1 DEF SwitchAsked
    <2>2. nextGeneration + 1 # 0
      BY DEF TypeOK, PolicyTypeOK
    <2>3. armed' # NotArmed
      BY <2>1, <2>2 DEF Arm, NotArmed
    <2>4. QED BY <2>1, <2>3 DEF Arm, SessionsAccounted, IsArmed
  <1>2. CASE ~Head(toHost[n]).on
    <2>1. DisarmAutopaste({n}) /\ UNCHANGED <<copies, reads>>
      BY <1>2 DEF SwitchAsked
    <2>2. QED BY <2>1, DisarmAccounted
  <1>3. QED BY <1>1, <1>2

-----------------------------------------------------------------------------
(* The inductive invariant, and what follows from it.                      *)

LEMMA InvariantStep == TypeOK /\ SessionsAccounted /\ [Next]_vars
                           => TypeOK' /\ SessionsAccounted'
  <1> SUFFICES ASSUME TypeOK, SessionsAccounted, [Next]_vars
               PROVE  TypeOK' /\ SessionsAccounted'
    OBVIOUS
  <1>1. ASSUME NEW n \in Notes, ReaderActs(n) PROVE TypeOK' /\ SessionsAccounted'
    <2>1. TypeOK'
      BY <1>1, ReaderTypes
    <2>2. CASE TrashNote(n)
      <3>1. DisarmAutopaste({n}) /\ UNCHANGED <<copies, reads>>
        BY <2>2 DEF TrashNote, DisarmThenFlush
      <3>2. QED BY <2>1, <3>1, DisarmAccounted
    <2>3. CASE ~TrashNote(n)
      <3>1. UNCHANGED <<policyVars, captureVars>>
        BY <1>1, <2>3 DEF ReaderActs, AskSwitch, SaveAndClose, OpenWindow
      <3>2. QED BY <2>1, <3>1, QuietAccounted
    <2>4. QED BY <2>1, <2>2, <2>3
  <1>2. ASSUME NEW n \in Notes, PageHears(n) PROVE TypeOK' /\ SessionsAccounted'
    <2>1. UNCHANGED <<policyVars, captureVars>>
      BY <1>2 DEF PageHears
    <2>2. QED BY <1>2, <2>1, PageTypes, QuietAccounted
  <1>3. ASSUME NEW n \in Notes, HostHears(n) PROVE TypeOK' /\ SessionsAccounted'
    <2>1. TypeOK'
      BY <1>3, HostTypes
    <2>2. CASE SwitchAsked(n)
      BY <2>1, <2>2, SwitchAccounted
    <2>3. CASE SaveAndCloseAsked(n)
      <3>1. UNCHANGED <<copies, reads>>
        BY <2>3 DEF SaveAndCloseAsked
      <3>2. \E notes : DisarmAutopaste(notes)
        BY <2>3 DEF SaveAndCloseAsked
      <3>3. QED BY <2>1, <3>1, <3>2, DisarmAccounted
    <2>4. CASE FlushResponse(n) \/ ExpireFlush(n)
      <3>1. UNCHANGED <<policyVars, captureVars>>
        BY <2>4 DEF FlushResponse, ExpireFlush
      <3>2. QED BY <2>1, <3>1, QuietAccounted
    <2>5. QED BY <1>3, <2>1, <2>2, <2>3, <2>4 DEF HostHears
  <1>4. ASSUME NEW n \in Notes, WriteFromOutside(n) PROVE TypeOK' /\ SessionsAccounted'
    <2>1. TypeOK'
      BY <1>4, WriteTypes
    <2>2. CASE DiscardNote(n)
      <3>1. DisarmAutopaste({n}) /\ UNCHANGED <<copies, reads>>
        BY <2>2 DEF DiscardNote
      <3>2. QED BY <2>1, <3>1, DisarmAccounted
    <2>3. CASE HoldNote(n) \/ FreeNote(n)
      <3>1. UNCHANGED <<policyVars, captureVars>>
        BY <2>3 DEF HoldNote, FreeNote
      <3>2. QED BY <2>1, <3>1, QuietAccounted
    <2>4. QED BY <1>4, <2>1, <2>2, <2>3 DEF WriteFromOutside
  <1>5. ASSUME NEW kind \in Kinds, Copy(kind) PROVE TypeOK' /\ SessionsAccounted'
    BY <1>5, CopyTypes, CopyAccounted
  <1>6. ASSUME ClipboardReadEnds PROVE TypeOK' /\ SessionsAccounted'
    <2>1. PICK r \in reads : FinishClipboardRead(r)
      BY <1>6 DEF ClipboardReadEnds
    <2>2. copies \in Seq(Copies) /\ MaxCopies \in Nat
      BY CaptureAssumption DEF TypeOK
    <2>3. queued => IsArmed /\ Len(copies) \in Items
      BY <2>2 DEF SessionsAccounted, Items
    <2>4. QED BY <2>1, <2>3, FinishReadTypes, FinishReadAccounted
  <1>7. ASSUME SetCaptureDelimiter \/ Hide PROVE TypeOK' /\ SessionsAccounted'
    <2>1. TypeOK'
      BY <1>7, CommandTypes
    <2>2. CASE SetCaptureDelimiter
      <3>1. UNCHANGED <<policyVars, captureVars>>
        BY <2>2 DEF SetCaptureDelimiter
      <3>2. QED BY <2>1, <3>1, QuietAccounted
    <2>3. CASE Hide
      <3>1. DisarmAutopaste(Notes) /\ UNCHANGED <<copies, reads>>
        BY <2>3 DEF Hide, DisarmThenFlush
      <3>2. QED BY <2>1, <3>1, DisarmAccounted
    <2>4. QED BY <1>7, <2>1, <2>2, <2>3
  <1>8. ASSUME UNCHANGED vars PROVE TypeOK' /\ SessionsAccounted'
    BY <1>8, QuietAccounted
    DEF vars, TypeOK, PolicyTypeOK, LifecycleTypeOK, policyVars, lifecycleVars, captureVars,
        windowVars, boundVars
  <1>9. QED
    BY <1>1, <1>2, <1>3, <1>4, <1>5, <1>6, <1>7, <1>8 DEF Next

(* Every variable keeps its type.                                          *)
THEOREM CaptureTyped == Spec => []TypeOK
  BY InitTypes, InitAccounted, InvariantStep, PTL DEF Spec

(* Whatever is being read, or waits to be, was copied in the session that  *)
(* reads it: disarming and arming leave no change behind for the next      *)
(* target (autopaste.rs, arm, disarm, finish_read).                        *)
THEOREM SessionsAlwaysAccounted == Spec => []SessionsAccounted
  BY InitTypes, InitAccounted, InvariantStep, PTL DEF Spec

(* Nothing is read but what was copied in the session that reads it.       *)
THEOREM NeverReadsWhatItDidNotSee == Spec => []ReadsOnlyWhatItSaw
  <1>1. SessionsAccounted => ReadsOnlyWhatItSaw
    BY DEF SessionsAccounted, ReadsOnlyWhatItSaw
  <1>2. QED BY <1>1, SessionsAlwaysAccounted, PTL

(* The clipboard is observed only while some note captures.                *)
THEOREM OffAlwaysObservesNothing == Spec => []OffObservesNothing
  <1>1. SessionsAccounted => OffObservesNothing
    BY DEF SessionsAccounted, OffObservesNothing
  <1>2. QED BY <1>1, SessionsAlwaysAccounted, PTL

(* A capture is handed over only in the run of the mode it was copied in,  *)
(* to the note that was the target then and is now.                        *)
THEOREM AlwaysDeliveredInItsSession == Spec => DeliveredInItsSession
  <1> DEFINE Handover == \A n \in Notes : \A i \in taken'[n] \ taken[n] :
                            IsTarget(n) /\ copies[i].session = armed
  <1>1. TypeOK /\ SessionsAccounted /\ [Next]_vars => [Handover]_vars
    <2> SUFFICES ASSUME TypeOK, SessionsAccounted, Next PROVE Handover
      BY DEF vars
    <2>1. CASE ClipboardReadEnds
      <3>1. PICK r \in reads : FinishClipboardRead(r)
        BY <2>1 DEF ClipboardReadEnds
      <3>2. copies[r.item].session = r.session
        BY DEF SessionsAccounted
      <3>3. ASSUME NEW n \in Notes, NEW i \in taken'[n] \ taken[n]
            PROVE  IsTarget(n) /\ i = r.item /\ Accepts(r.session)
        BY <3>1, <3>3 DEF FinishClipboardRead, TypeOK
      <3>4. QED BY <3>2, <3>3 DEF Accepts
    <2>2. ASSUME NEW n \in Notes, OpenWindow(n) PROVE Handover
      BY <2>2 DEF OpenWindow, TypeOK
    <2>3. CASE UNCHANGED taken
      BY <2>3
    <2>4. QED
      BY <2>1, <2>2, <2>3
      DEF Next, ReaderActs, AskSwitch, SaveAndClose, TrashNote, PageHears, HostHears,
          SwitchAsked, SaveAndCloseAsked, FlushResponse, ExpireFlush, WriteFromOutside,
          HoldNote, FreeNote, DiscardNote, Copy, SetCaptureDelimiter, Hide, boundVars
  <1>2. QED
    BY <1>1, CaptureTyped, SessionsAlwaysAccounted, PTL DEF Spec, DeliveredInItsSession

-----------------------------------------------------------------------------
(* What a queue of messages says.  Some messages set a flag, some clear    *)
(* it: this is the flag when the k-th message of the queue is heard, if it *)
(* is start now.                                                           *)
Before(s, start, k, sets, clears) ==
    \/ start /\ \A i \in DOMAIN s : i < k => s[i] \notin clears
    \/ \E i \in DOMAIN s : /\ i < k
                           /\ s[i] \in sets
                           /\ \A j \in DOMAIN s : i < j /\ j < k => s[j] \notin clears

LEMMA BeforeNothing ==
    ASSUME NEW start \in BOOLEAN, NEW k, NEW sets, NEW clears
    PROVE  Before(<<>>, start, k, sets, clears) <=> start
  <1>1. DOMAIN <<>> = {}
    OBVIOUS
  <1>2. QED BY <1>1 DEF Before

LEMMA BeforeAppend ==
    ASSUME NEW s \in Seq(Messages), NEW m \in Messages, NEW start \in BOOLEAN,
           NEW sets, NEW clears
    PROVE  /\ \A k \in 1 .. Len(s) + 1 :
                 Before(Append(s, m), start, k, sets, clears)
                    <=> Before(s, start, k, sets, clears)
           /\ Before(Append(s, m), start, Len(s) + 2, sets, clears)
                 <=> \/ m \in sets
                     \/ m \notin clears /\ Before(s, start, Len(s) + 1, sets, clears)
  <1> DEFINE t == Append(s, m)
  <1>1. /\ Len(s) \in Nat
        /\ DOMAIN s = 1 .. Len(s)
        /\ DOMAIN t = 1 .. Len(s) + 1
        /\ t[Len(s) + 1] = m
        /\ \A i \in 1 .. Len(s) : t[i] = s[i]
    OBVIOUS
  <1> HIDE DEF t
  <1>2. ASSUME NEW k \in 1 .. Len(s) + 1
        PROVE  Before(t, start, k, sets, clears) <=> Before(s, start, k, sets, clears)
    <2>1. \A i : i \in DOMAIN t /\ i < k <=> i \in DOMAIN s /\ i < k
      BY <1>1
    <2>2. \A i : i \in DOMAIN s /\ i < k => t[i] = s[i]
      BY <1>1
    <2>3. QED BY <2>1, <2>2 DEF Before
  <1>3. Before(t, start, Len(s) + 2, sets, clears)
           <=> m \in sets \/ (m \notin clears /\ Before(s, start, Len(s) + 1, sets, clears))
    <2>1. ASSUME m \in sets PROVE Before(t, start, Len(s) + 2, sets, clears)
      BY <1>1, <2>1 DEF Before
    <2>2. ASSUME m \notin clears, Before(s, start, Len(s) + 1, sets, clears)
          PROVE  Before(t, start, Len(s) + 2, sets, clears)
      <3>1. CASE start /\ \A i \in DOMAIN s : i < Len(s) + 1 => s[i] \notin clears
        BY <1>1, <2>2, <3>1 DEF Before
      <3>2. CASE \E i \in DOMAIN s : /\ i < Len(s) + 1 /\ s[i] \in sets
                     /\ \A j \in DOMAIN s : i < j /\ j < Len(s) + 1 => s[j] \notin clears
        BY <1>1, <2>2, <3>2 DEF Before
      <3>3. QED BY <2>2, <3>1, <3>2 DEF Before
    <2>3. ASSUME m \notin sets, Before(t, start, Len(s) + 2, sets, clears)
          PROVE  m \notin clears /\ Before(s, start, Len(s) + 1, sets, clears)
      <3>1. CASE start /\ \A i \in DOMAIN t : i < Len(s) + 2 => t[i] \notin clears
        BY <1>1, <3>1 DEF Before
      <3>2. CASE \E i \in DOMAIN t : /\ i < Len(s) + 2 /\ t[i] \in sets
                     /\ \A j \in DOMAIN t : i < j /\ j < Len(s) + 2 => t[j] \notin clears
        <4>1. PICK i \in DOMAIN t : /\ i < Len(s) + 2 /\ t[i] \in sets
                     /\ \A j \in DOMAIN t : i < j /\ j < Len(s) + 2 => t[j] \notin clears
          BY <3>2
        <4>2. i \in 1 .. Len(s) /\ s[i] \in sets
          BY <1>1, <2>3, <4>1
        <4>3. m \notin clears
          BY <1>1, <4>1, <4>2
        <4>4. \A j \in DOMAIN s : i < j /\ j < Len(s) + 1 => s[j] \notin clears
          BY <1>1, <4>1, <4>2
        <4>5. QED BY <1>1, <4>2, <4>3, <4>4 DEF Before
      <3>3. QED BY <2>3, <3>1, <3>2 DEF Before
    <2>4. QED BY <2>1, <2>2, <2>3
  <1>4. QED BY <1>2, <1>3 DEF t

LEMMA BeforeTail ==
    ASSUME NEW s \in Seq(Messages), s # <<>>, NEW start \in BOOLEAN, NEW sets, NEW clears,
           NEW after \in BOOLEAN,
           after <=> Head(s) \in sets \/ (start /\ Head(s) \notin clears)
    PROVE  \A k \in 1 .. Len(s) :
              Before(Tail(s), after, k, sets, clears) => Before(s, start, k + 1, sets, clears)
  <1> DEFINE t == Tail(s)
  <1>1. /\ Len(s) \in Nat \ {0}
        /\ DOMAIN s = 1 .. Len(s)
        /\ DOMAIN t = 1 .. Len(s) - 1
        /\ Head(s) = s[1]
        /\ \A i \in 1 .. Len(s) - 1 : t[i] = s[i + 1]
    OBVIOUS
  <1> HIDE DEF t
  <1> SUFFICES ASSUME NEW k \in 1 .. Len(s), Before(t, after, k, sets, clears)
               PROVE  Before(s, start, k + 1, sets, clears)
    BY DEF t
  <1>2. \A j \in DOMAIN s : 1 < j => j - 1 \in DOMAIN t /\ s[j] = t[j - 1]
    BY <1>1
  <1>3. CASE after /\ \A i \in DOMAIN t : i < k => t[i] \notin clears
    <2>1. \A j \in DOMAIN s : 1 < j /\ j < k + 1 => s[j] \notin clears
      BY <1>1, <1>2, <1>3
    <2>2. CASE s[1] \in sets
      BY <1>1, <2>1, <2>2 DEF Before
    <2>3. CASE start /\ s[1] \notin clears
      <3>1. \A j \in DOMAIN s : j < k + 1 => s[j] \notin clears
        BY <1>1, <2>1, <2>3
      <3>2. QED BY <2>3, <3>1 DEF Before
    <2>4. QED BY <1>1, <1>3, <2>2, <2>3
  <1>4. CASE \E i \in DOMAIN t : /\ i < k /\ t[i] \in sets
                /\ \A j \in DOMAIN t : i < j /\ j < k => t[j] \notin clears
    <2>1. PICK i \in DOMAIN t : /\ i < k /\ t[i] \in sets
                /\ \A j \in DOMAIN t : i < j /\ j < k => t[j] \notin clears
      BY <1>4
    <2>2. i + 1 \in DOMAIN s /\ i + 1 < k + 1 /\ s[i + 1] \in sets
      BY <1>1, <2>1
    <2>3. \A j \in DOMAIN s : i + 1 < j /\ j < k + 1 => s[j] \notin clears
      BY <1>1, <1>2, <2>1
    <2>4. QED BY <2>2, <2>3 DEF Before
  <1>5. QED BY <1>3, <1>4 DEF Before

-----------------------------------------------------------------------------
(* What the host does in one turn.  Nearly every handler of the host is a  *)
(* Turn: it takes the oldest message of a page, tells pages something and  *)
(* closes some.  This is what all those turns have in common.              *)

ClosedIsSilent ==
    \A n \in Notes \ window :
        page[n] = PageOf(<<>>) /\ toPage[n] = <<>> /\ toHost[n] = <<>>

WritesCounted ==
    /\ \A m, n \in holding : m = n
    /\ externalWrites = IF holding = {} THEN 0 ELSE 1

GenerationsMove == IsArmed => armed.generation <= nextGeneration

Grounds == TypeOK /\ ClosedIsSilent /\ WritesCounted /\ GenerationsMove

(* The mode goes on, or stops, or starts a run nobody has heard of.        *)
ModeMoves ==
    /\ reading' = reading
    /\ queued' => queued
    /\ nextGeneration' \in Nat
    /\ nextGeneration <= nextGeneration'
    /\ GenerationsMove'
    /\ \A n \in Notes : IsTarget(n)' => \/ IsTarget(n) /\ armed' = armed
                                        \/ armed'.generation > nextGeneration

(* A page that may have lost the target is told its switch first.          *)
Switched(n, said) ==
    \/ said = <<>> /\ (IsTarget(n) => IsTarget(n)')
    \/ said = <<Switch(IsTarget(n)')>>

(* Then it may be asked to flush, to hold still or to go on.               *)
Directed(n, said) ==
    \/ said = <<>> /\ (n \in holding => n \in holding')
    \/ \E m \in Messages :
          /\ said = <<m>>
          /\ \/ /\ m.type = "request_flush"
                /\ n \notin holding
                /\ m.flush.generation = nextGeneration'
                /\ ~IsTarget(n)'
             \/ /\ m.type = "begin_external_write"
                /\ n \in holding'
             \/ m.type = "abort_external_write"

Instructed(n, said) ==
    \E switch, direction \in Seq(Messages) :
        said = switch \o direction /\ Switched(n, switch) /\ Directed(n, direction)

Carries(m) == m.type \in {"save_and_close", "flush_response"}

(* What is saved is the text of the message that was taken.                *)
Wrote(n, heard) ==
    \/ file'[n] = file[n] /\ flushed'[n] = flushed[n]
    \/ /\ n \in heard
       /\ Carries(Head(toHost[n]))
       /\ file'[n] = Head(toHost[n]).text
       /\ \/ flushed'[n] = flushed[n]
          \/ /\ Head(toHost[n]).type = "flush_response"
             /\ flushed'[n] = Head(toHost[n]).flush.generation

TurnStep(heard, gone, told) ==
    /\ Turn(heard, gone, told)
    /\ UNCHANGED <<copies, reads, taken>>
    /\ ModeMoves
    /\ \A n \in heard : n \in Notes /\ toHost[n] # <<>>
    /\ \A n \in Notes : Instructed(n, told[n]) /\ Wrote(n, heard)

LEMMA StillMoves ==
    ASSUME Grounds, UNCHANGED policyVars
    PROVE  ModeMoves /\ \A n \in Notes : IsTarget(n) <=> IsTarget(n)'
  BY DEF Grounds, TypeOK, PolicyTypeOK, ModeMoves, GenerationsMove, IsTarget, IsArmed, policyVars

LEMMA ArmMoves ==
    ASSUME Grounds, NEW n \in Notes, Arm(n)
    PROVE  ModeMoves
  <1>1. nextGeneration \in Nat
    BY DEF Grounds, TypeOK, PolicyTypeOK
  <1>2. armed'.generation = nextGeneration + 1 /\ nextGeneration' = nextGeneration + 1
    BY DEF Arm
  <1>3. QED BY <1>1, <1>2 DEF Arm, ModeMoves, GenerationsMove

LEMMA DisarmMoves ==
    ASSUME Grounds, NEW notes, DisarmAutopaste(notes)
    PROVE  /\ ModeMoves
           /\ \A n \in Notes : n \notin notes /\ IsTarget(n) => IsTarget(n)'
           /\ \A n \in Notes : n \in notes => ~IsTarget(n)'
  <1>1. nextGeneration \in Nat
    BY DEF Grounds, TypeOK, PolicyTypeOK
  <1>2. CASE TargetSet \cap notes # {}
    <2>1. Disarm
      BY <1>2 DEF DisarmAutopaste
    <2>2. \A n \in Notes : ~IsTarget(n)'
      BY <2>1 DEF Disarm, IsTarget, IsArmed
    <2>3. \A n \in Notes : IsTarget(n) => n \in notes
      BY <1>2 DEF TargetSet, IsTarget
    <2>4. ModeMoves
      BY <1>1, <2>1, <2>2 DEF Disarm, ModeMoves, GenerationsMove, IsArmed
    <2>5. QED BY <2>2, <2>3, <2>4
  <1>3. CASE TargetSet \cap notes = {}
    <2>1. UNCHANGED policyVars
      BY <1>3 DEF DisarmAutopaste
    <2>2. \A n \in Notes : n \in notes => ~IsTarget(n)
      BY <1>3 DEF TargetSet
    <2>3. QED BY <2>1, <2>2, StillMoves
  <1>4. QED BY <1>2, <1>3

LEMMA PublishedSwitches ==
    ASSUME NEW notes, NEW n \in Notes, n \notin notes => (IsTarget(n) => IsTarget(n)')
    PROVE  Switched(n, Published(notes)[n]) /\ Published(notes)[n] \in Seq(Messages)
  <1>1. CASE n \in notes
    BY <1>1, PublishedTypes DEF Published, Switched, IsTarget, IsArmed
  <1>2. CASE n \notin notes
    BY <1>2, PublishedTypes DEF Published, Switched
  <1>3. QED BY <1>1, <1>2

(* A turn that only publishes, or says nothing.                            *)
LEMMA OnlyPublished ==
    ASSUME NEW notes, NEW n \in Notes, n \notin notes => (IsTarget(n) => IsTarget(n)'),
           n \in holding => n \in holding'
    PROVE  Instructed(n, Published(notes)[n])
  <1> DEFINE said == Published(notes)[n]
  <1>1. Switched(n, said) /\ said \in Seq(Messages)
    BY PublishedSwitches
  <1>2. Directed(n, <<>>)
    BY DEF Directed
  <1>3. said = said \o <<>> /\ <<>> \in Seq(Messages)
    BY <1>1
  <1> HIDE DEF said
  <1>4. Instructed(n, said)
    BY <1>1, <1>2, <1>3 DEF Instructed
  <1>5. QED BY <1>4 DEF said

LEMMA OnlySilence ==
    ASSUME NEW n \in Notes, IsTarget(n) => IsTarget(n)', n \in holding => n \in holding'
    PROVE  Instructed(n, Silence[n])
  <1>1. Silence[n] = <<>> /\ <<>> = <<>> \o <<>> /\ <<>> \in Seq(Messages)
    BY DEF Silence
  <1>2. Switched(n, <<>>) /\ Directed(n, <<>>)
    BY DEF Switched, Directed
  <1>3. QED BY <1>1, <1>2 DEF Instructed

LEMMA SwitchTurns ==
    ASSUME Grounds, NEW n \in Notes, SwitchAsked(n)
    PROVE  TurnStep({n}, {}, Published(Told(n)))
  <1> DEFINE told == Published(Told(n))
  <1>1. Turn({n}, {}, told) /\ toHost[n] # <<>>
    BY DEF SwitchAsked, Hears
  <1>2. /\ UNCHANGED <<copies, reads, taken>>
        /\ UNCHANGED <<holding, file, flushed>>
    BY DEF SwitchAsked, boundVars
  <1>3. ModeMoves /\ \A m \in Notes : m \notin Told(n) => (IsTarget(m) => IsTarget(m)')
    <2>1. CASE Head(toHost[n]).on
      <3>1. Arm(n)
        BY <2>1 DEF SwitchAsked
      <3>2. \A m \in Notes : IsTarget(m) => m \in Told(n)
        BY <2>1 DEF Told, TargetSet
      <3>3. QED BY <3>1, <3>2, ArmMoves
    <2>2. CASE ~Head(toHost[n]).on
      <3>1. DisarmAutopaste({n})
        BY <2>2 DEF SwitchAsked
      <3>2. n \in Told(n)
        BY DEF Told
      <3>3. QED BY <3>1, <3>2, DisarmMoves
    <2>3. QED BY <2>1, <2>2
  <1>4. \A m \in Notes : Instructed(m, told[m])
    BY <1>2, <1>3, OnlyPublished
  <1>5. QED BY <1>1, <1>2, <1>3, <1>4 DEF TurnStep, Wrote

LEMMA DelimiterTurns ==
    ASSUME Grounds, SetCaptureDelimiter
    PROVE  TurnStep({}, {}, Published(window))
  <1>1. UNCHANGED policyVars /\ Turn({}, {}, Published(window))
    BY DEF SetCaptureDelimiter
  <1>2. UNCHANGED <<copies, reads, taken, holding, file, flushed>>
    BY DEF SetCaptureDelimiter, captureVars
  <1>3. ModeMoves /\ \A m \in Notes : IsTarget(m) => IsTarget(m)'
    BY <1>1, StillMoves
  <1>4. \A m \in Notes : Instructed(m, Published(window)[m])
    BY <1>2, <1>3, OnlyPublished
  <1>5. QED BY <1>1, <1>2, <1>3, <1>4 DEF TurnStep, Wrote

LEMMA SaveAndCloseTurns ==
    ASSUME Grounds, NEW n \in Notes, SaveAndCloseAsked(n)
    PROVE  \E gone, told : TurnStep({n}, gone, told)
  <1>1. PICK saved \in Outcomes : \E persisted \in Outcomes :
          LET disarms == saved /\ StructuralActionAllowed IN
          /\ file' = IF saved THEN [file EXCEPT ![n] = Head(toHost[n]).text] ELSE file
          /\ DisarmAutopaste(IF disarms THEN {n} ELSE {})
          /\ Turn({n}, IF disarms /\ persisted THEN {n} ELSE {},
                  Published(IF disarms THEN TargetSet \cap {n} ELSE {}))
    BY DEF SaveAndCloseAsked
  <1> DEFINE disarms == saved /\ StructuralActionAllowed
             notes == IF disarms THEN {n} ELSE {}
             heard == IF disarms THEN TargetSet \cap {n} ELSE {}
  <1>2. /\ file' = IF saved THEN [file EXCEPT ![n] = Head(toHost[n]).text] ELSE file
        /\ DisarmAutopaste(notes)
    BY <1>1
  <1>3. PICK gone : Turn({n}, gone, Published(heard))
    BY <1>1
  <1>4. UNCHANGED <<copies, reads, taken, holding, flushed>>
    BY DEF SaveAndCloseAsked, boundVars
  <1>5. toHost[n] # <<>> /\ Carries(Head(toHost[n]))
    BY DEF SaveAndCloseAsked, Hears, Carries
  <1>6. \A m \in Notes : m \notin heard => (IsTarget(m) => m \notin notes)
    BY DEF TargetSet
  <1> HIDE DEF notes, heard
  <1>7. ModeMoves /\ \A m \in Notes : m \notin heard => (IsTarget(m) => IsTarget(m)')
    BY <1>2, <1>6, DisarmMoves
  <1>8. \A m \in Notes : Instructed(m, Published(heard)[m])
    BY <1>4, <1>7, OnlyPublished
  <1>9. \A m \in Notes : Wrote(m, {n})
    BY <1>2, <1>4, <1>5 DEF Wrote, Grounds, TypeOK
  <1>10. QED BY <1>3, <1>4, <1>5, <1>7, <1>8, <1>9 DEF TurnStep

LEMMA DisarmThenFlushTurns ==
    ASSUME Grounds, NEW targets \in SUBSET Notes, NEW notes \in SUBSET targets,
           NEW why \in {"trash", "batch"}, commands' \in Nat,
           notes # {} => holding = {},
           DisarmThenFlush(targets, notes, why),
           UNCHANGED <<copies, reads, taken, holding, file, flushed>>
    PROVE  \E told : TurnStep({}, {}, told)
  <1> DEFINE flush == [why |-> why, id |-> commands', generation |-> nextGeneration']
             message == [Message("request_flush") EXCEPT !.flush = flush]
             heard == TargetSet \cap targets
             direction(n) == IF n \in notes THEN <<message>> ELSE <<>>
             told == [n \in Notes |-> Published(heard)[n] \o direction(n)]
  <1>1. DisarmAutopaste(targets) /\ Turn({}, {}, told)
    BY DEF DisarmThenFlush, RequestFlush
  <1>2. /\ ModeMoves
        /\ \A n \in Notes : n \notin targets /\ IsTarget(n) => IsTarget(n)'
        /\ \A n \in Notes : n \in targets => ~IsTarget(n)'
    BY <1>1, DisarmMoves
  <1>3. \A n \in Notes : n \notin heard => (IsTarget(n) => IsTarget(n)')
    BY <1>2 DEF TargetSet
  <1>4. message \in Messages /\ message.type = "request_flush"
           /\ message.flush.generation = nextGeneration'
    <2>1. nextGeneration' \in Nat
      BY <1>2 DEF ModeMoves
    <2>2. flush \in Flushes
      BY <2>1 DEF Flushes
    <2>3. Message("request_flush") \in Messages
      BY MessagesTyped DEF MessageTypes
    <2>4. QED BY <2>2, <2>3 DEF Messages, Message
  <1> HIDE DEF message, flush, heard
  <1>5. ASSUME NEW n \in Notes PROVE Instructed(n, told[n])
    <2>1. Switched(n, Published(heard)[n]) /\ Published(heard)[n] \in Seq(Messages)
      BY <1>3, PublishedSwitches
    <2>2. Directed(n, direction(n)) /\ direction(n) \in Seq(Messages)
      <3>1. CASE n \in notes
        <4>1. n \notin holding /\ ~IsTarget(n)'
          BY <1>2, <3>1
        <4>2. direction(n) = <<message>> /\ <<message>> \in Seq(Messages)
          BY <1>4, <3>1
        <4>3. QED BY <1>4, <4>1, <4>2 DEF Directed
      <3>2. CASE n \notin notes
        BY <3>2 DEF Directed
      <3>3. QED BY <3>1, <3>2
    <2>3. told[n] = Published(heard)[n] \o direction(n)
      OBVIOUS
    <2> HIDE DEF direction, told
    <2>4. QED BY <2>1, <2>2, <2>3 DEF Instructed
  <1> HIDE DEF told
  <1>6. QED BY <1>1, <1>2, <1>5 DEF TurnStep, Wrote

LEMMA FlushSettledTurns ==
    ASSUME Grounds, NEW n \in Notes, NEW flush, NEW ok, NEW heard \in SUBSET Notes,
           \A m \in heard : toHost[m] # <<>>,
           FlushSettled(n, flush, ok, heard),
           UNCHANGED <<copies, reads, taken, holding, policyVars>>,
           \A m \in Notes : Wrote(m, heard)
    PROVE  \E gone : TurnStep(heard, gone, Silence)
  <1>1. PICK gone : Turn(heard, gone, Silence)
    BY DEF FlushSettled
  <1>2. ModeMoves /\ \A m \in Notes : IsTarget(m) => IsTarget(m)'
    BY StillMoves
  <1>3. \A m \in Notes : Instructed(m, Silence[m])
    BY <1>2, OnlySilence
  <1>4. QED BY <1>1, <1>2, <1>3 DEF TurnStep

LEMMA FlushesTurn ==
    ASSUME Grounds, NEW n \in Notes, FlushResponse(n) \/ ExpireFlush(n)
    PROVE  \E heard, gone, told : TurnStep(heard, gone, told)
  <1>1. CASE FlushResponse(n)
    <2> DEFINE m == Head(toHost[n])
    <2>1. toHost[n] # <<>> /\ m.type = "flush_response"
      BY <1>1 DEF FlushResponse, Hears
    <2>2. UNCHANGED <<copies, reads, taken, holding, policyVars>>
      BY <1>1 DEF FlushResponse, captureVars
    <2>3. CASE m.flush \in flushes[n]
      <3>1. PICK ok \in Outcomes :
               /\ file' = IF ok THEN [file EXCEPT ![n] = m.text] ELSE file
               /\ flushed' = IF ok THEN [flushed EXCEPT ![n] = m.flush.generation] ELSE flushed
               /\ FlushSettled(n, m.flush, ok, {n})
        BY <1>1, <2>3 DEF FlushResponse
      <3>2. \A o \in Notes : Wrote(o, {n})
        BY <2>1, <3>1 DEF Wrote, Carries, Grounds, TypeOK
      <3> HIDE DEF m
      <3>3. QED BY <2>1, <2>2, <3>1, <3>2, FlushSettledTurns
    <2>4. CASE m.flush \notin flushes[n]
      <3>1. Turn({n}, {}, Silence) /\ UNCHANGED <<file, flushed>>
        BY <1>1, <2>4 DEF FlushResponse
      <3>2. ModeMoves /\ \A o \in Notes : IsTarget(o) => IsTarget(o)'
        BY <2>2, StillMoves
      <3>3. \A o \in Notes : Instructed(o, Silence[o])
        BY <2>2, <3>2, OnlySilence
      <3>4. TurnStep({n}, {}, Silence)
        BY <2>1, <2>2, <3>1, <3>2, <3>3 DEF TurnStep, Wrote
      <3>5. QED BY <3>4
    <2>5. QED BY <2>3, <2>4
  <1>2. CASE ExpireFlush(n)
    <2>1. PICK flush \in flushes[n] : FlushSettled(n, flush, FALSE, {})
      BY <1>2 DEF ExpireFlush
    <2>2. UNCHANGED <<copies, reads, taken, holding, policyVars, file, flushed>>
      BY <1>2 DEF ExpireFlush, captureVars, boundVars
    <2>3. \A o \in Notes : Wrote(o, {})
      BY <2>2 DEF Wrote
    <2>4. \A ok : FlushSettled(n, flush, ok, {}) => \E gone : TurnStep({}, gone, Silence)
      BY <2>2, <2>3, FlushSettledTurns
    <2>5. QED BY <2>1, <2>4
  <1>3. QED BY <1>1, <1>2

LEMMA RequestsTurn ==
    ASSUME Grounds, (\E n \in Notes : TrashNote(n)) \/ Hide
    PROVE  \E told : TurnStep({}, {}, told)
  <1>1. commands \in Nat /\ commands' = commands + 1
    <2>1. commands \in Nat
      BY DEF Grounds, TypeOK
    <2>2. Command
      BY DEF TrashNote, Hide
    <2>3. QED BY <2>1, <2>2 DEF Command
  <1>a. commands' \in Nat
    BY <1>1
  <1>2. ASSUME NEW n \in Notes, TrashNote(n) PROVE \E told : TurnStep({}, {}, told)
    <2>1. holding = {}
      BY <1>2 DEF TrashNote, StructuralActionAllowed, Grounds, WritesCounted
    <2>2. DisarmThenFlush({n}, {n}, "trash")
      BY <1>2 DEF TrashNote
    <2>3. UNCHANGED <<copies, reads, taken, holding, file, flushed>>
      BY <1>2 DEF TrashNote
    <2>4. QED BY <1>a, <2>1, <2>2, <2>3, DisarmThenFlushTurns
  <1>3. CASE Hide
    <2>1. window # {} => holding = {}
      BY <1>3 DEF Hide, BeginLifecycle, Grounds, WritesCounted
    <2>2. DisarmThenFlush(Notes, window, "batch")
      BY <1>3 DEF Hide
    <2>3. UNCHANGED <<copies, reads, taken, holding, file, flushed>>
      BY <1>3 DEF Hide
    <2>4. window \in SUBSET Notes
      BY DEF Grounds, TypeOK
    <2>5. QED BY <1>a, <2>1, <2>2, <2>3, <2>4, DisarmThenFlushTurns
  <1>4. QED BY <1>2, <1>3

LEMMA WritesTurn ==
    ASSUME Grounds, NEW n \in Notes, WriteFromOutside(n)
    PROVE  \E gone, told : TurnStep({}, gone, told)
  <1> DEFINE begin == Message("begin_external_write")
             abort == Message("abort_external_write")
  <1>1. /\ begin \in Messages /\ begin.type = "begin_external_write"
        /\ abort \in Messages /\ abort.type = "abort_external_write"
    <2>1. begin \in Messages /\ abort \in Messages
      BY MessagesTyped DEF MessageTypes
    <2>2. QED BY <2>1 DEF Message
  <1> HIDE DEF begin, abort
  <1>2. \A m \in Notes : m # n /\ m \in holding => m \in holding' \/ n \notin holding
    BY DEF Grounds, WritesCounted
  <1>3. UNCHANGED <<copies, reads, taken, file, flushed>>
    BY DEF WriteFromOutside, HoldNote, FreeNote, DiscardNote, captureVars, boundVars
  <1>4. CASE HoldNote(n)
    <2> DEFINE told == [Silence EXCEPT ![n] = <<begin>>]
    <2>1. Turn({}, {}, told)
      BY <1>4 DEF HoldNote, begin
    <2>2. ModeMoves /\ \A m \in Notes : IsTarget(m) => IsTarget(m)'
      BY <1>4, StillMoves DEF HoldNote
    <2>3. ASSUME NEW m \in Notes PROVE Instructed(m, told[m])
      <3>1. m # n => Instructed(m, Silence[m])
        BY <1>4, <2>2, OnlySilence DEF HoldNote
      <3>2. Instructed(n, <<begin>>)
        <4>1. Directed(n, <<begin>>)
          BY <1>1, <1>4 DEF Directed, HoldNote
        <4>2. <<begin>> = <<>> \o <<begin>> /\ <<>> \in Seq(Messages) /\ <<begin>> \in Seq(Messages)
          BY <1>1
        <4>3. Switched(n, <<>>)
          BY <2>2 DEF Switched
        <4>4. QED BY <4>1, <4>2, <4>3 DEF Instructed
      <3>3. told[m] = IF m = n THEN <<begin>> ELSE Silence[m]
        BY DEF Silence
      <3>4. QED BY <3>1, <3>2, <3>3
    <2> HIDE DEF told
    <2>4. TurnStep({}, {}, told)
      BY <1>3, <2>1, <2>2, <2>3 DEF TurnStep, Wrote
    <2>5. QED BY <2>4
  <1>5. CASE FreeNote(n) \/ DiscardNote(n)
    <2>1. n \in holding /\ holding' = {}
      BY <1>5 DEF FreeNote, DiscardNote
    <2>2. \A m \in Notes : m # n => m \notin holding
      BY <2>1 DEF Grounds, WritesCounted
    <2>3. ModeMoves /\ \A m \in Notes : m # n /\ IsTarget(m) => IsTarget(m)'
      BY <1>5, StillMoves, DisarmMoves DEF FreeNote, DiscardNote
    <2>4. \A m \in Notes : m # n => Instructed(m, Silence[m])
      BY <2>2, <2>3, OnlySilence
    <2>5. Directed(n, <<abort>>) /\ <<abort>> \in Seq(Messages)
      BY <1>1 DEF Directed
    <2>a. \E switch \in Seq(Messages) :
             /\ Switched(n, switch)
             /\ \E gone : Turn({}, gone, [Silence EXCEPT ![n] = switch \o <<abort>>])
      <3>1. CASE FreeNote(n)
        <4>1. Turn({}, {}, [Silence EXCEPT ![n] = <<abort>>])
          BY <3>1 DEF FreeNote, abort
        <4>2. Switched(n, <<>>)
          BY <3>1, StillMoves DEF FreeNote, Switched
        <4>3. <<>> \in Seq(Messages) /\ <<abort>> = <<>> \o <<abort>>
          BY <1>1
        <4>4. QED BY <4>1, <4>2, <4>3
      <3>2. CASE DiscardNote(n)
        <4> DEFINE switch == Published({n} \cap TargetSet)[n]
        <4>1. \E gone : Turn({}, gone, [Silence EXCEPT ![n] = switch \o <<abort>>])
          BY <3>2 DEF DiscardNote, abort
        <4>2. n \notin {n} \cap TargetSet => (IsTarget(n) => IsTarget(n)')
          BY DEF TargetSet
        <4>3. Switched(n, switch) /\ switch \in Seq(Messages)
          BY <4>2, PublishedSwitches
        <4> HIDE DEF switch
        <4>4. QED BY <4>1, <4>3
      <3>3. QED BY <1>5, <3>1, <3>2
    <2>b. PICK switch \in Seq(Messages) :
             /\ Switched(n, switch)
             /\ \E gone : Turn({}, gone, [Silence EXCEPT ![n] = switch \o <<abort>>])
      BY <2>a
    <2>6. PICK gone : Turn({}, gone, [Silence EXCEPT ![n] = switch \o <<abort>>])
      BY <2>b
    <2> DEFINE told == [Silence EXCEPT ![n] = switch \o <<abort>>]
    <2>7. ASSUME NEW m \in Notes PROVE Instructed(m, told[m])
      <3>1. Instructed(n, switch \o <<abort>>)
        BY <2>5, <2>b DEF Instructed
      <3>2. told[m] = IF m = n THEN switch \o <<abort>> ELSE Silence[m]
        BY DEF Silence
      <3>3. QED BY <2>4, <3>1, <3>2
    <2>8. Turn({}, gone, told)
      BY <2>6
    <2> HIDE DEF told
    <2>9. TurnStep({}, gone, told)
      BY <1>3, <2>3, <2>7, <2>8 DEF TurnStep, Wrote
    <2>10. QED BY <2>9
  <1>6. QED BY <1>4, <1>5 DEF WriteFromOutside

(* A page asks for the switch, or sends its text.                          *)
Asks(n) ==
    /\ n \in window
    /\ \E m \in Messages : /\ Send(n, m)
                           /\ \/ m.type = "auto_paste_requested" /\ m.text = <<>>
                              \/ m.type = "save_and_close" /\ m.text = page[n].text
    /\ UNCHANGED <<policyVars, lifecycleVars, captureVars, window, live, file, page, toPage,
                   flushes, batch, holding, writes, taken, flushed, opened>>

LEMMA AsksFor ==
    ASSUME TypeOK, NEW n \in Notes, (\E on \in BOOLEAN : AskSwitch(n, on)) \/ SaveAndClose(n)
    PROVE  Asks(n)
  <1>1. ASSUME NEW on \in BOOLEAN, AskSwitch(n, on) PROVE Asks(n)
    <2> DEFINE m == [Message("auto_paste_requested") EXCEPT !.on = on]
    <2>1. m \in Messages
      BY MessagesTyped DEF MessageTypes, Messages
    <2>2. m.type = "auto_paste_requested" /\ m.text = <<>>
      BY DEF Message
    <2> HIDE DEF m
    <2>3. Send(n, m) /\ n \in window
      BY <1>1 DEF AskSwitch, m
    <2>4. QED BY <1>1, <2>1, <2>2, <2>3 DEF AskSwitch, Asks
  <1>2. CASE SaveAndClose(n)
    <2> DEFINE m == [Message("save_and_close") EXCEPT !.text = page[n].text]
    <2>1. page[n].text \in Seq(Items) /\ Message("save_and_close") \in Messages
      BY MessagesTyped DEF MessageTypes, TypeOK, Pages
    <2>2. m \in Messages
      BY <2>1 DEF Messages
    <2>3. m.type = "save_and_close" /\ m.text = page[n].text
      BY DEF Message
    <2> HIDE DEF m
    <2>4. Send(n, m) /\ n \in window
      BY <1>2 DEF SaveAndClose, m
    <2>5. QED BY <1>2, <2>2, <2>3, <2>4 DEF SaveAndClose, Asks
  <1>3. QED BY <1>1, <1>2

LEMMA EveryStep ==
    ASSUME Grounds, [Next]_vars
    PROVE  \/ \E heard, gone, told : TurnStep(heard, gone, told)
           \/ \E n \in Notes : Asks(n) \/ OpenWindow(n) \/ PageHears(n)
           \/ \E kind \in Kinds : Copy(kind)
           \/ \E r \in reads : FinishClipboardRead(r)
           \/ UNCHANGED vars
  <1> DEFINE turns == \E heard, gone, told : TurnStep(heard, gone, told)
  <1>1. ASSUME NEW n \in Notes, ReaderActs(n)
        PROVE  turns \/ Asks(n) \/ OpenWindow(n)
    BY <1>1, RequestsTurn, AsksFor DEF ReaderActs, Grounds
  <1>2. ASSUME NEW n \in Notes, HostHears(n) PROVE turns
    BY <1>2, SwitchTurns, SaveAndCloseTurns, FlushesTurn DEF HostHears
  <1>3. ASSUME NEW n \in Notes, WriteFromOutside(n) PROVE turns
    BY <1>3, WritesTurn
  <1>4. SetCaptureDelimiter => turns
    BY DelimiterTurns
  <1>5. Hide => turns
    BY RequestsTurn
  <1> HIDE DEF turns
  <1>6. QED BY <1>1, <1>2, <1>3, <1>4, <1>5 DEF Next, ClipboardReadEnds, turns

-----------------------------------------------------------------------------
(* The grounds of what follows: a closed window is silent, one note at     *)
(* most is held by a write, and generations only grow.                     *)

LEMMA WritesStayCounted ==
    ASSUME TypeOK, WritesCounted, [Next]_vars
    PROVE  WritesCounted'
  <1>1. ASSUME NEW n \in Notes, HoldNote(n) PROVE WritesCounted'
    BY <1>1 DEF HoldNote, BeginExternalWrite, WritesCounted
  <1>2. ASSUME NEW n \in Notes, FreeNote(n) \/ DiscardNote(n) PROVE WritesCounted'
    <2>1. n \in holding /\ holding' = {} /\ FinishExternalWrite
      BY <1>2 DEF FreeNote, DiscardNote
    <2>2. QED BY <2>1 DEF FinishExternalWrite, WritesCounted
  <1>3. CASE UNCHANGED <<holding, externalWrites>>
    BY <1>3 DEF WritesCounted
  <1>4. ASSUME NEW n \in Notes, HostHears(n) PROVE UNCHANGED <<holding, externalWrites>>
    BY <1>4
    DEF HostHears, SwitchAsked, SaveAndCloseAsked, FlushResponse, ExpireFlush, FlushSettled,
        FinishLifecycle, lifecycleVars
  <1>5. Hide => UNCHANGED <<holding, externalWrites>>
    BY DEF Hide, BeginLifecycle, lifecycleVars
  <1>6. QED
    BY <1>1, <1>2, <1>3, <1>4, <1>5
    DEF Next, ReaderActs, AskSwitch, SaveAndClose, TrashNote, OpenWindow, PageHears,
        WriteFromOutside, Copy, ClipboardReadEnds, FinishClipboardRead, SetCaptureDelimiter,
        lifecycleVars, windowVars, vars

LEMMA TurnStaysSilent ==
    ASSUME Grounds, NEW heard, NEW gone, NEW told, TurnStep(heard, gone, told)
    PROVE  ClosedIsSilent'
  <1> SUFFICES ASSUME NEW n \in Notes, n \notin window'
               PROVE  page'[n] = PageOf(<<>>) /\ toPage'[n] = <<>> /\ toHost'[n] = <<>>
    BY DEF ClosedIsSilent
  <1>1. n \in gone \/ n \notin window
    BY DEF TurnStep, Turn
  <1>2. CASE n \in gone
    BY <1>2 DEF TurnStep, Turn
  <1>3. CASE n \notin gone /\ n \notin window
    <2>1. page[n] = PageOf(<<>>) /\ toPage[n] = <<>> /\ toHost[n] = <<>>
      BY <1>3 DEF Grounds, ClosedIsSilent
    <2>2. n \notin heard
      BY <2>1 DEF TurnStep
    <2>3. QED BY <1>3, <2>1, <2>2 DEF TurnStep, Turn
  <1>4. QED BY <1>1, <1>2, <1>3

LEMMA GroundsHold ==
    ASSUME Grounds, SessionsAccounted, [Next]_vars
    PROVE  Grounds'
  <1>1. TypeOK' /\ WritesCounted'
    BY InvariantStep, WritesStayCounted DEF Grounds
  <1>2. TypeOK /\ ClosedIsSilent /\ GenerationsMove
    BY DEF Grounds
  <1>3. ASSUME NEW heard, NEW gone, NEW told, TurnStep(heard, gone, told)
        PROVE  ClosedIsSilent' /\ GenerationsMove'
    BY <1>3, TurnStaysSilent DEF TurnStep, ModeMoves
  <1>4. ASSUME NEW n \in Notes, Asks(n) \/ OpenWindow(n) \/ PageHears(n)
        PROVE  ClosedIsSilent' /\ GenerationsMove'
    <2>1. GenerationsMove'
      BY <1>2, <1>4 DEF Asks, OpenWindow, PageHears, policyVars, GenerationsMove, IsArmed
    <2>2. CASE Asks(n)
      <3>1. UNCHANGED <<window, page, toPage>> /\ n \in window
        BY <2>2 DEF Asks
      <3>2. \A m \in Notes : m # n => toHost'[m] = toHost[m]
        BY <1>2, <2>2 DEF Asks, Send, TypeOK
      <3>3. QED BY <1>2, <2>1, <3>1, <3>2 DEF ClosedIsSilent
    <2>3. CASE OpenWindow(n)
      <3>1. UNCHANGED <<toHost, toPage>> /\ window' = window \cup {n}
        BY <2>3 DEF OpenWindow
      <3>2. \A m \in Notes : m # n => page'[m] = page[m]
        BY <1>2, <2>3 DEF OpenWindow, TypeOK
      <3>3. QED BY <1>2, <2>1, <3>1, <3>2 DEF ClosedIsSilent
    <2>4. CASE PageHears(n)
      <3>1. n \in window /\ window' = window
        BY <1>2, <2>4 DEF PageHears, ClosedIsSilent
      <3>2. \A m \in Notes : m # n => /\ page'[m] = page[m]
                                      /\ toPage'[m] = toPage[m]
                                      /\ toHost'[m] = toHost[m]
        BY <1>2, <2>4 DEF PageHears, Send, TypeOK
      <3>3. QED BY <1>2, <2>1, <3>1, <3>2 DEF ClosedIsSilent
    <2>5. QED BY <1>4, <2>1, <2>2, <2>3, <2>4
  <1>5. ASSUME NEW kind \in Kinds, Copy(kind) PROVE ClosedIsSilent' /\ GenerationsMove'
    BY <1>2, <1>5
    DEF Copy, Observe, policyVars, windowVars, ClosedIsSilent, GenerationsMove, IsArmed
  <1>6. ASSUME NEW r \in reads, FinishClipboardRead(r) PROVE ClosedIsSilent' /\ GenerationsMove'
    <2>1. \A m \in Notes \ window : toPage'[m] = toPage[m]
      BY <1>6 DEF FinishClipboardRead
    <2>2. UNCHANGED <<window, page, toHost, armed, nextGeneration>>
      BY <1>6 DEF FinishClipboardRead, FinishRead
    <2>3. QED BY <1>2, <2>1, <2>2 DEF ClosedIsSilent, GenerationsMove, IsArmed
  <1>7. ASSUME UNCHANGED vars PROVE ClosedIsSilent' /\ GenerationsMove'
    BY <1>2, <1>7 DEF vars, policyVars, windowVars, ClosedIsSilent, GenerationsMove, IsArmed
  <1>8. QED BY <1>1, <1>3, <1>4, <1>5, <1>6, <1>7, EveryStep DEF Grounds

LEMMA InitGrounds == Init => Grounds
  BY InitTypes
  DEF Init, PolicyInit, LifecycleInit, Grounds, ClosedIsSilent, WritesCounted, GenerationsMove,
      IsArmed

LEMMA AlwaysGrounded == Spec => []Grounds
  <1>1. Grounds /\ SessionsAccounted /\ [Next]_vars => Grounds'
    BY GroundsHold
  <1>2. QED BY <1>1, InitGrounds, SessionsAlwaysAccounted, PTL DEF Spec

-----------------------------------------------------------------------------
(* The switch.                                                             *)

SwitchedOn == {m \in Messages : m.type = "set_auto_paste" /\ m.on}
SwitchedOff == {m \in Messages : m.type = "set_auto_paste" /\ ~m.on}

(* What the page will believe once it has heard everything.                *)
LastWord(n) ==
    Before(toPage[n], page[n].active, Len(toPage[n]) + 1, SwitchedOn, SwitchedOff)

SwitchesTold == \A n \in window : LastWord(n) => IsTarget(n)

LEMMA TurnTellsSwitches ==
    ASSUME Grounds, SwitchesTold, NEW heard, NEW gone, NEW told, TurnStep(heard, gone, told)
    PROVE  SwitchesTold'
  <1> SUFFICES ASSUME NEW n \in Notes, n \in window', LastWord(n)'
               PROVE  IsTarget(n)'
    <2>1. window' \subseteq Notes
      BY DEF TurnStep, Turn, Grounds, TypeOK
    <2>2. QED BY <2>1 DEF SwitchesTold
  <1> DEFINE s == toPage[n]
             a == page[n].active
  <1>1. s \in Seq(Messages) /\ a \in BOOLEAN
    BY DEF Grounds, TypeOK, Pages
  <1>2. n \in window /\ n \notin gone
    BY DEF TurnStep, Turn
  <1>3. page'[n] = page[n] /\ toPage'[n] = s \o told[n]
    BY <1>2 DEF TurnStep, Turn
  <1>4. PICK switch \in Seq(Messages) : \E direction \in Seq(Messages) :
           told[n] = switch \o direction /\ Switched(n, switch) /\ Directed(n, direction)
    BY DEF TurnStep, Instructed
  <1>5. PICK direction \in Seq(Messages) :
           told[n] = switch \o direction /\ Switched(n, switch) /\ Directed(n, direction)
    BY <1>4
  <1> DEFINE t == s \o switch
  <1>6. t \in Seq(Messages) /\ toPage'[n] = t \o direction
    <2>1. t \in Seq(Messages)
      BY <1>1
    <2>2. s \o (switch \o direction) = (s \o switch) \o direction
      <3> HIDE DEF s
      <3>1. QED BY <1>1, ConcatAssociative
    <2>3. QED BY <1>3, <1>5, <2>1, <2>2
  <1> HIDE DEF s, a, t
  <1>7. Before(t, a, Len(t) + 1, SwitchedOn, SwitchedOff)
    <2>1. Before(t \o direction, a, Len(t \o direction) + 1, SwitchedOn, SwitchedOff)
      BY <1>3, <1>6 DEF LastWord, a
    <2>2. CASE direction = <<>>
      <3>1. t \o direction = t
        BY <1>6, <2>2
      <3>2. QED BY <2>1, <3>1
    <2>3. CASE \E m \in Messages : direction = <<m>> /\ m.type # "set_auto_paste"
      <3>1. PICK m \in Messages : direction = <<m>> /\ m.type # "set_auto_paste"
        BY <2>3
      <3>2. t \o direction = Append(t, m) /\ Len(Append(t, m)) + 1 = Len(t) + 2
        BY <1>6, <3>1
      <3>3. m \notin SwitchedOn /\ m \notin SwitchedOff
        BY <3>1 DEF SwitchedOn, SwitchedOff
      <3>4. Before(Append(t, m), a, Len(t) + 2, SwitchedOn, SwitchedOff)
        BY <2>1, <3>2
      <3>5. QED BY <1>1, <1>6, <3>3, <3>4, BeforeAppend
    <2>4. QED BY <1>5, <2>2, <2>3 DEF Directed
  <1>8. CASE switch = <<>> /\ (IsTarget(n) => IsTarget(n)')
    <2>1. t = s
      BY <1>1, <1>8 DEF t
    <2>2. QED BY <1>2, <1>7, <1>8, <2>1 DEF SwitchesTold, LastWord, s, a
  <1>9. CASE switch = <<Switch(IsTarget(n)')>>
    <2> DEFINE m == Switch(IsTarget(n)')
    <2>1. m \in Messages /\ m.type = "set_auto_paste" /\ m.on = IsTarget(n)'
      <3>1. IsTarget(n)' \in BOOLEAN
        BY DEF IsTarget, IsArmed
      <3>2. \A on \in BOOLEAN : Switch(on).type = "set_auto_paste" /\ Switch(on).on = on
        BY DEF Switch, Message
      <3>3. QED BY <3>1, <3>2, MessagesTyped
    <2>2. switch = <<m>>
      BY <1>9
    <2> HIDE DEF m
    <2>3. t = Append(s, m) /\ Len(Append(s, m)) + 1 = Len(s) + 2
      BY <1>1, <2>1, <2>2 DEF t
    <2>4. Before(Append(s, m), a, Len(s) + 2, SwitchedOn, SwitchedOff)
      BY <1>7, <2>3
    <2>5. m \in SwitchedOn \/ m \notin SwitchedOff
      BY <1>1, <2>1, <2>4, BeforeAppend
    <2>6. QED BY <2>1, <2>5 DEF SwitchedOn, SwitchedOff
  <1>10. QED BY <1>5, <1>8, <1>9 DEF Switched

LEMMA PageKeepsItsWord ==
    ASSUME Grounds, SwitchesTold, NEW n \in Notes, PageHears(n)
    PROVE  SwitchesTold'
  <1> DEFINE s == toPage[n]
             a == page[n].active
             b == page'[n].active
             m == Head(toPage[n])
  <1>1. /\ s \in Seq(Messages) /\ a \in BOOLEAN /\ s # <<>> /\ m \in Messages
        /\ page \in [Notes -> Pages] /\ toPage \in [Notes -> Seq(Messages)]
    BY DEF Grounds, TypeOK, Pages, PageHears
  <1>2. /\ window' = window /\ armed' = armed
        /\ toPage'[n] = Tail(s)
        /\ \A o \in Notes : o # n => toPage'[o] = toPage[o] /\ page'[o] = page[o]
    BY <1>1 DEF PageHears, policyVars
  <1>3. b = IF m.type = "set_auto_paste" THEN m.on ELSE a
    BY <1>1 DEF PageHears, Filed, Pages
  <1>4. b \in BOOLEAN /\ (b <=> m \in SwitchedOn \/ (a /\ m \notin SwitchedOff))
    BY <1>1, <1>3 DEF SwitchedOn, SwitchedOff, Messages
  <1>5. LastWord(n)' => LastWord(n)
    <2>1. Len(Tail(s)) + 1 = Len(s) /\ Len(s) \in 1 .. Len(s) /\ Len(s) \in Nat
      BY <1>1
    <2>2. Before(Tail(s), b, Len(s), SwitchedOn, SwitchedOff)
             => Before(s, a, Len(s) + 1, SwitchedOn, SwitchedOff)
      BY <1>1, <1>4, <2>1, BeforeTail
    <2>3. QED BY <1>2, <2>1, <2>2 DEF LastWord
  <1>6. \A o \in window : o # n => (LastWord(o)' => LastWord(o))
    BY <1>2 DEF LastWord, Grounds, TypeOK
  <1>7. QED BY <1>2, <1>5, <1>6 DEF SwitchesTold, IsTarget, IsArmed

LEMMA SwitchesAreTold ==
    ASSUME Grounds, SwitchesTold, [Next]_vars
    PROVE  SwitchesTold'
  <1>1. ASSUME NEW n \in Notes, Asks(n) PROVE SwitchesTold'
    BY <1>1 DEF Asks, policyVars, SwitchesTold, LastWord, IsTarget, IsArmed
  <1>2. ASSUME NEW n \in Notes, OpenWindow(n) PROVE SwitchesTold'
    <2>1. /\ toPage' = toPage /\ armed' = armed /\ window' = window \cup {n}
          /\ n \notin window
          /\ \A o \in window : page'[o] = page[o]
          /\ page'[n] = PageOf(file[n])
      BY <1>2 DEF OpenWindow, policyVars, Grounds, TypeOK
    <2>2. toPage[n] = <<>>
      BY <2>1 DEF Grounds, ClosedIsSilent
    <2>3. ~LastWord(n)'
      BY <2>1, <2>2 DEF LastWord, Before, PageOf
    <2>4. \A o \in window : LastWord(o)' => LastWord(o)
      BY <2>1 DEF LastWord
    <2>5. QED BY <2>1, <2>3, <2>4 DEF SwitchesTold, IsTarget, IsArmed
  <1>3. ASSUME NEW kind \in Kinds, Copy(kind) PROVE SwitchesTold'
    BY <1>3
    DEF Copy, Observe, policyVars, windowVars, SwitchesTold, LastWord, IsTarget, IsArmed
  <1>4. ASSUME NEW r \in reads, FinishClipboardRead(r) PROVE SwitchesTold'
    <2> DEFINE m == Captured(r.item)
    <2>1. m \in Messages /\ m.type = "auto_paste_captured"
      BY MessagesTyped DEF Grounds, TypeOK, Reads, Captured, Message
    <2>2. UNCHANGED <<armed, window, page>>
      BY <1>4 DEF FinishClipboardRead, FinishRead
    <2>3. \A n \in Notes : toPage'[n] = toPage[n] \/ toPage'[n] = Append(toPage[n], m)
      BY <1>4 DEF FinishClipboardRead
    <2>4. m \notin SwitchedOn
      BY <2>1 DEF SwitchedOn
    <2> HIDE DEF m
    <2>5. ASSUME NEW n \in Notes, toPage'[n] = Append(toPage[n], m), LastWord(n)'
          PROVE  LastWord(n)
      <3> DEFINE s == toPage[n]
                 a == page[n].active
      <3>1. s \in Seq(Messages) /\ a \in BOOLEAN
        BY DEF Grounds, TypeOK, Pages
      <3>2. page'[n].active = a /\ toPage'[n] = Append(s, m)
        BY <2>2, <2>5
      <3>3. LastWord(n)' <=> Before(Append(s, m), a, Len(Append(s, m)) + 1,
                                    SwitchedOn, SwitchedOff)
        BY <3>2 DEF LastWord
      <3> HIDE DEF s, a
      <3>4. Len(Append(s, m)) + 1 = Len(s) + 2
        BY <2>1, <3>1
      <3>5. Before(Append(s, m), a, Len(s) + 2, SwitchedOn, SwitchedOff)
        BY <2>5, <3>3, <3>4
      <3>6. Before(s, a, Len(s) + 1, SwitchedOn, SwitchedOff)
        BY <2>1, <2>4, <3>1, <3>5, BeforeAppend
      <3>7. QED BY <3>6 DEF LastWord, s, a
    <2>6. \A n \in Notes : toPage'[n] = toPage[n] => (LastWord(n)' => LastWord(n))
      BY <2>2 DEF LastWord
    <2>7. QED
      BY <2>2, <2>3, <2>5, <2>6 DEF SwitchesTold, IsTarget, IsArmed, Grounds, TypeOK
  <1>5. ASSUME UNCHANGED vars PROVE SwitchesTold'
    BY <1>5 DEF vars, policyVars, windowVars, SwitchesTold, LastWord, IsTarget, IsArmed
  <1>6. QED
    BY <1>1, <1>2, <1>3, <1>4, <1>5, EveryStep, TurnTellsSwitches, PageKeepsItsWord

(* A page that says it captures and has heard everything is the target.    *)
THEOREM NoPageEverClaimsInVain == Spec => []NoPageClaimsInVain
  <1>1. Init => SwitchesTold
    BY DEF Init, SwitchesTold, LastWord, Before, PageOf
  <1>2. Grounds /\ SwitchesTold => NoPageClaimsInVain
    <2> SUFFICES ASSUME Grounds, SwitchesTold, NEW n \in window,
                        toPage[n] = <<>>, page[n].active
                 PROVE  IsTarget(n)
      BY DEF NoPageClaimsInVain
    <2>1. page[n].active \in BOOLEAN
      BY DEF Grounds, TypeOK, Pages
    <2>2. LastWord(n)
      BY <2>1, BeforeNothing DEF LastWord
    <2>3. QED BY <2>2 DEF SwitchesTold
  <1>3. Grounds /\ SwitchesTold /\ [Next]_vars => SwitchesTold'
    BY SwitchesAreTold
  <1>4. QED BY <1>1, <1>2, <1>3, AlwaysGrounded, PTL DEF Spec

-----------------------------------------------------------------------------
(* Reads take turns: one at a time, each of a later copy than the last.    *)
ReadsInTurn ==
    /\ reading <=> reads # {}
    /\ \A r, q \in reads : r = q
    /\ queued => reading /\ \A r \in reads : r.item < Len(copies)
    /\ \A n \in Notes : \A i \in taken[n] :
          /\ i <= Len(copies)
          /\ copies[i].session \in Sessions
          /\ \A r \in reads : i < r.item

LEMMA CopyTakesItsTurn ==
    ASSUME TypeOK, SessionsAccounted, ReadsInTurn, NEW kind \in Kinds, Copy(kind)
    PROVE  ReadsInTurn'
  <1> DEFINE copy == [session |-> armed, kind |-> kind]
             read == [session |-> armed, item |-> Len(copies) + 1]
  <1>1. copies \in Seq(Copies) /\ copy \in Copies
    BY DEF TypeOK, Copies, PolicyTypeOK
  <1>2. copies' = Append(copies, copy)
    BY DEF Copy
  <1>3. /\ Len(copies) \in Nat
        /\ Len(copies') = Len(copies) + 1
        /\ \A i \in 1 .. Len(copies) : copies'[i] = copies[i]
    BY <1>1, <1>2
  <1>4. taken' = taken /\ \A n \in Notes : \A i \in taken[n] : i \in 1 .. Len(copies)
    BY <1>3 DEF Copy, boundVars, TypeOK, Items, ReadsInTurn
  <1>5. \A n \in Notes : \A i \in taken[n] :
           i <= Len(copies') /\ copies'[i].session \in Sessions
    BY <1>3, <1>4 DEF ReadsInTurn
  <1>6. \A r \in reads : r.item \in Nat /\ r.item <= Len(copies)
    BY DEF TypeOK, Reads, Items, SessionsAccounted
  <1>7. CASE watch /\ ReadsNow(kind = "own", kind # "image")
    <2>1. reads = {} /\ reads' = {read} /\ reading' = TRUE /\ queued' = FALSE
      BY <1>7 DEF Copy, ReadsNow, Observe, IsArmed, ReadsInTurn, TypeOK, PolicyTypeOK
    <2>2. \A n \in Notes : \A i \in taken[n] : i < read.item
      BY <1>3, <1>4
    <2> HIDE DEF read
    <2>3. QED BY <1>4, <1>5, <2>1, <2>2 DEF ReadsInTurn
  <1>8. CASE ~(watch /\ ReadsNow(kind = "own", kind # "image"))
    <2>1. reads' = reads
      BY <1>8 DEF Copy
    <2>2. reading' = reading /\ (queued' => reading)
      BY <1>8
      DEF Copy, ReadsNow, Observe, IsArmed, policyVars, ReadsInTurn, TypeOK, PolicyTypeOK
    <2>3. \A r \in reads : r.item < Len(copies')
      BY <1>3, <1>6
    <2>4. QED BY <1>4, <1>5, <2>1, <2>2, <2>3 DEF ReadsInTurn
  <1>9. QED BY <1>7, <1>8

LEMMA FinishedReadLeavesTurn ==
    ASSUME TypeOK, SessionsAccounted, ReadsInTurn, NEW r \in reads, FinishClipboardRead(r)
    PROVE  ReadsInTurn'
  <1> DEFINE again == [session |-> armed, item |-> Len(copies)]
  <1>1. reads = {r}
    BY DEF ReadsInTurn
  <1>2. /\ reads' = IF ReadsAgain THEN {again} ELSE {}
        /\ reading' = ReadsAgain
        /\ queued' = FALSE
        /\ copies' = copies
    BY <1>1 DEF FinishClipboardRead, FinishRead
  <1>3. r.item \in Nat /\ Len(copies) \in Nat /\ r.item <= Len(copies)
    BY DEF TypeOK, Reads, Items, SessionsAccounted
  <1>4. ASSUME NEW n \in Notes, NEW i \in taken'[n]
        PROVE  /\ i \in taken[n] \/ (i = r.item /\ Accepts(r.session) /\ IsTarget(n))
    BY <1>4 DEF FinishClipboardRead, TypeOK
  <1>5. ASSUME NEW n \in Notes, NEW i \in taken'[n]
        PROVE  /\ i \in Nat
               /\ i <= r.item
               /\ copies[i].session \in Sessions
    <2>1. CASE i \in taken[n]
      BY <1>3, <2>1 DEF ReadsInTurn, TypeOK, Items
    <2>2. CASE i = r.item
      <3>1. copies[i].session = r.session /\ r.session \in Sessions
        BY <2>2 DEF SessionsAccounted, TypeOK, Reads
      <3>2. QED BY <1>3, <2>2, <3>1
    <2>3. QED BY <1>4, <2>1, <2>2
  <1>6. ReadsAgain => r.item < Len(copies)
    BY DEF ReadsAgain, ReadsInTurn
  <1>7. \A n \in Notes : \A i \in taken'[n] : \A q \in reads' : i < q.item
    BY <1>2, <1>3, <1>5, <1>6
  <1>8. \A n \in Notes : \A i \in taken'[n] : i <= Len(copies)
    BY <1>3, <1>5
  <1> HIDE DEF again
  <1>9. QED BY <1>2, <1>5, <1>7, <1>8 DEF ReadsInTurn

LEMMA ReadsTakeTurns ==
    ASSUME Grounds, SessionsAccounted, ReadsInTurn, [Next]_vars
    PROVE  ReadsInTurn'
  <1>1. ASSUME NEW heard, NEW gone, NEW told, TurnStep(heard, gone, told) PROVE ReadsInTurn'
    BY <1>1 DEF TurnStep, ModeMoves, ReadsInTurn
  <1>2. CASE UNCHANGED <<policyVars, captureVars, taken>>
    BY <1>2 DEF policyVars, captureVars, ReadsInTurn
  <1>3. QED
    BY <1>1, <1>2, EveryStep, CopyTakesItsTurn, FinishedReadLeavesTurn
    DEF Grounds, Asks, OpenWindow, PageHears, boundVars, vars

-----------------------------------------------------------------------------
(* The order of the captures.                                              *)
Ordered(s) == \A i, j \in DOMAIN s : i < j => s[i] < s[j]

(* Nothing in a text but what was handed over, in the order of the copies. *)
Kept(n, s) == Ordered(s) /\ Elements(s) \subseteq taken[n]

IsCapture(m) == m.type = "auto_paste_captured"

PageInOrder(n) ==
    /\ Kept(n, page[n].text)
    /\ Kept(n, page[n].held)
    /\ ~page[n].frozen => page[n].held = <<>>
    /\ \A i \in Elements(page[n].text), j \in Elements(page[n].held) : i < j

ComingInOrder(n) ==
    \A k \in DOMAIN toPage[n] : IsCapture(toPage[n][k]) =>
       /\ toPage[n][k].item \in taken[n]
       /\ \A i \in Elements(page[n].text) \cup Elements(page[n].held) : i < toPage[n][k].item
       /\ \A l \in DOMAIN toPage[n] :
             l < k /\ IsCapture(toPage[n][l]) => toPage[n][l].item < toPage[n][k].item

SavedInOrder(n) ==
    /\ Kept(n, file[n])
    /\ \A k \in DOMAIN toHost[n] : Kept(n, toHost[n][k].text)

CapturesInOrder == \A n \in Notes : PageInOrder(n) /\ ComingInOrder(n) /\ SavedInOrder(n)

LEMMA OrderedConcat ==
    ASSUME NEW s \in Seq(Items), NEW t \in Seq(Items), Ordered(s), Ordered(t),
           \A i \in Elements(s), j \in Elements(t) : i < j
    PROVE  Ordered(s \o t) /\ Elements(s \o t) = Elements(s) \cup Elements(t)
  <1> DEFINE u == s \o t
  <1>1. /\ Len(s) \in Nat /\ Len(t) \in Nat
        /\ DOMAIN s = 1 .. Len(s) /\ DOMAIN t = 1 .. Len(t)
        /\ DOMAIN u = 1 .. Len(s) + Len(t)
        /\ \A i \in DOMAIN s : u[i] = s[i]
        /\ \A i \in DOMAIN t : u[Len(s) + i] = t[i]
        /\ \A i \in DOMAIN s : s[i] \in Items
        /\ \A i \in DOMAIN t : t[i] \in Items
    OBVIOUS
  <1> HIDE DEF u
  <1>2. \A i \in DOMAIN u : \/ i \in DOMAIN s /\ u[i] = s[i]
                            \/ i - Len(s) \in DOMAIN t /\ u[i] = t[i - Len(s)]
    <2> SUFFICES ASSUME NEW i \in DOMAIN u, i \notin DOMAIN s
                 PROVE  i - Len(s) \in DOMAIN t /\ u[i] = t[i - Len(s)]
      BY <1>1
    <2>1. i - Len(s) \in DOMAIN t /\ Len(s) + (i - Len(s)) = i
      BY <1>1
    <2>2. QED BY <1>1, <2>1
  <1>3. Elements(u) = Elements(s) \cup Elements(t)
    <2>1. Elements(u) \subseteq Elements(s) \cup Elements(t)
      BY <1>2 DEF Elements
    <2>2. ASSUME NEW i \in DOMAIN s PROVE s[i] \in Elements(u)
      <3>1. i \in DOMAIN u /\ u[i] = s[i]
        BY <1>1
      <3>2. QED BY <3>1 DEF Elements
    <2>3. ASSUME NEW i \in DOMAIN t PROVE t[i] \in Elements(u)
      <3>1. Len(s) + i \in DOMAIN u /\ u[Len(s) + i] = t[i]
        BY <1>1
      <3>2. QED BY <3>1 DEF Elements
    <2>4. QED BY <2>1, <2>2, <2>3 DEF Elements
  <1>4. ASSUME NEW i \in DOMAIN u, NEW j \in DOMAIN u, i < j PROVE u[i] < u[j]
    <2>1. CASE i \in DOMAIN s /\ u[i] = s[i] /\ j \in DOMAIN s /\ u[j] = s[j]
      BY <1>4, <2>1 DEF Ordered
    <2>2. CASE i \in DOMAIN s /\ u[i] = s[i] /\ j - Len(s) \in DOMAIN t /\ u[j] = t[j - Len(s)]
      BY <2>2 DEF Elements
    <2>3. CASE /\ i - Len(s) \in DOMAIN t /\ u[i] = t[i - Len(s)]
               /\ j - Len(s) \in DOMAIN t /\ u[j] = t[j - Len(s)]
      <3>1. i - Len(s) < j - Len(s)
        BY <1>1, <1>4
      <3>2. QED BY <2>3, <3>1 DEF Ordered
    <2>4. CASE i - Len(s) \in DOMAIN t /\ j \in DOMAIN s
      BY <1>1, <1>4, <2>4
    <2>5. QED BY <1>2, <2>1, <2>2, <2>3, <2>4
  <1>5. QED BY <1>3, <1>4 DEF Ordered, u

LEMMA OneIsOrdered ==
    ASSUME NEW i \in Items
    PROVE  /\ <<i>> \in Seq(Items) /\ Ordered(<<i>>) /\ Elements(<<i>>) = {i}
           /\ Ordered(<<>>) /\ Elements(<<>>) = {}
  <1>1. DOMAIN <<i>> = {1} /\ <<i>>[1] = i /\ DOMAIN <<>> = {}
    OBVIOUS
  <1>2. QED BY <1>1 DEF Ordered, Elements

LEMMA NothingIsKept ==
    ASSUME NEW n
    PROVE  /\ Ordered(<<>>) /\ Elements(<<>>) = {} /\ Kept(n, <<>>) /\ Kept(n, <<>>)'
  <1>1. DOMAIN <<>> = {}
    OBVIOUS
  <1>2. QED BY <1>1 DEF Ordered, Elements, Kept

LEMMA InstructionsAreNoCaptures ==
    ASSUME NEW n \in Notes, NEW said, Instructed(n, said)
    PROVE  said \in Seq(Messages) /\ \A k \in DOMAIN said : ~IsCapture(said[k])
  <1>1. PICK switch \in Seq(Messages) : \E direction \in Seq(Messages) :
           said = switch \o direction /\ Switched(n, switch) /\ Directed(n, direction)
    BY DEF Instructed
  <1>2. PICK direction \in Seq(Messages) :
           said = switch \o direction /\ Switched(n, switch) /\ Directed(n, direction)
    BY <1>1
  <1>3. \A k \in DOMAIN switch : ~IsCapture(switch[k])
    <2>1. \A on : Switch(on).type # "auto_paste_captured"
      BY DEF Switch, Message
    <2>2. QED BY <1>2, <2>1 DEF Switched, IsCapture
  <1>4. \A k \in DOMAIN direction : ~IsCapture(direction[k])
    BY <1>2 DEF Directed, IsCapture
  <1>5. said \in Seq(Messages)
    BY <1>2
  <1>6. \A k \in DOMAIN said : \/ k \in DOMAIN switch /\ said[k] = switch[k]
                               \/ /\ k - Len(switch) \in DOMAIN direction
                                  /\ said[k] = direction[k - Len(switch)]
    BY <1>2
  <1>7. QED BY <1>3, <1>4, <1>5, <1>6

LEMMA TurnKeepsOrder ==
    ASSUME Grounds, CapturesInOrder, NEW heard, NEW gone, NEW told, TurnStep(heard, gone, told)
    PROVE  CapturesInOrder'
  <1> SUFFICES ASSUME NEW n \in Notes
               PROVE  PageInOrder(n)' /\ ComingInOrder(n)' /\ SavedInOrder(n)'
    BY DEF CapturesInOrder
  <1>1. PageInOrder(n) /\ ComingInOrder(n) /\ SavedInOrder(n) /\ taken' = taken
    BY DEF CapturesInOrder, TurnStep
  <1>2. /\ page'[n] = page[n] \/ (page'[n] = PageOf(<<>>) /\ toPage'[n] = <<>>)
        /\ toPage'[n] = <<>> \/ toPage'[n] = toPage[n] \o told[n]
        /\ toHost'[n] = <<>> \/ toHost'[n] = toHost[n]
              \/ (n \in heard /\ toHost'[n] = Tail(toHost[n]))
    BY DEF TurnStep, Turn
  <1>3. PageInOrder(n)'
    <2>1. CASE page'[n] = page[n]
      BY <1>1, <2>1 DEF PageInOrder, Kept
    <2>2. CASE page'[n] = PageOf(<<>>)
      BY <2>2, NothingIsKept DEF PageInOrder, PageOf
    <2>3. QED BY <1>2, <2>1, <2>2
  <1>4. ComingInOrder(n)'
    <2>1. CASE toPage'[n] = <<>>
      BY <2>1 DEF ComingInOrder
    <2>2. CASE page'[n] = page[n] /\ toPage'[n] = toPage[n] \o told[n]
      <3> DEFINE s == toPage[n]
                 t == toPage'[n]
      <3>1. told[n] \in Seq(Messages) /\ \A k \in DOMAIN told[n] : ~IsCapture(told[n][k])
        BY InstructionsAreNoCaptures DEF TurnStep
      <3>2. s \in Seq(Messages) /\ t = s \o told[n]
        BY <2>2 DEF Grounds, TypeOK
      <3> HIDE DEF s, t
      <3>3. \A k \in DOMAIN t : \/ k \in DOMAIN s /\ t[k] = s[k]
                                \/ /\ k - Len(s) \in DOMAIN told[n]
                                   /\ t[k] = told[n][k - Len(s)]
        BY <3>1, <3>2
      <3>4. \A k \in DOMAIN t : IsCapture(t[k]) => k \in DOMAIN s /\ t[k] = s[k]
        BY <3>1, <3>3
      <3>5. QED BY <1>1, <2>2, <3>4 DEF ComingInOrder, s, t
    <2>3. QED BY <1>2, <2>1, <2>2
  <1>5. SavedInOrder(n)'
    <2>1. toHost[n] \in Seq(Messages)
      BY DEF Grounds, TypeOK
    <2>2. ASSUME n \in heard PROVE Kept(n, Head(toHost[n]).text)
      <3>1. toHost[n] # <<>>
        BY <2>2 DEF TurnStep
      <3>2. 1 \in DOMAIN toHost[n] /\ Head(toHost[n]) = toHost[n][1]
        BY <2>1, <3>1
      <3>3. QED BY <1>1, <3>2 DEF SavedInOrder
    <2>3. file'[n] = file[n] \/ (n \in heard /\ file'[n] = Head(toHost[n]).text)
      BY DEF TurnStep, Wrote
    <2>4. Kept(n, file'[n])
      BY <1>1, <2>2, <2>3 DEF SavedInOrder
    <2>5. ASSUME NEW k \in DOMAIN toHost'[n] PROVE Kept(n, toHost'[n][k].text)
      <3>1. CASE toHost'[n] = toHost[n]
        BY <1>1, <2>5, <3>1 DEF SavedInOrder
      <3>2. CASE n \in heard /\ toHost'[n] = Tail(toHost[n])
        <4>1. toHost[n] # <<>>
          BY <3>2 DEF TurnStep
        <4>2. k + 1 \in DOMAIN toHost[n] /\ toHost'[n][k] = toHost[n][k + 1]
          BY <2>1, <2>5, <3>2, <4>1
        <4>3. QED BY <1>1, <4>2 DEF SavedInOrder
      <3>3. CASE toHost'[n] = <<>>
        BY <2>5, <3>3
      <3>4. QED BY <1>2, <3>1, <3>2, <3>3
    <2>6. QED BY <1>1, <2>4, <2>5 DEF SavedInOrder, Kept
  <1>6. QED BY <1>3, <1>4, <1>5

LEMMA PageTakes ==
    ASSUME Grounds, CapturesInOrder, NEW n \in Notes, PageHears(n)
    PROVE  /\ PageInOrder(n)'
           /\ \A i \in Elements(page'[n].text) \cup Elements(page'[n].held) :
                 \/ i \in Elements(page[n].text) \cup Elements(page[n].held)
                 \/ IsCapture(Head(toPage[n])) /\ i = Head(toPage[n]).item
  <1> DEFINE s == toPage[n]
             m == Head(toPage[n])
             p == page[n]
             q == page'[n]
  <1>1. /\ s \in Seq(Messages) /\ s # <<>> /\ m \in Messages
        /\ p \in Pages
        /\ page \in [Notes -> Pages]
        /\ toPage \in [Notes -> Seq(Messages)]
        /\ toHost \in [Notes -> Seq(Messages)]
    BY DEF Grounds, TypeOK, PageHears
  <1>2. /\ taken' = taken /\ file' = file
        /\ toPage'[n] = Tail(s)
        /\ \A o \in Notes : o # n => /\ toPage'[o] = toPage[o]
                                     /\ page'[o] = page[o]
                                     /\ toHost'[o] = toHost[o]
    BY <1>1 DEF PageHears, Send, boundVars
  <1>3. PageInOrder(n) /\ ComingInOrder(n) /\ SavedInOrder(n)
    BY DEF CapturesInOrder
  <1>4. /\ p.text \in Seq(Items) /\ p.held \in Seq(Items)
        /\ p.active \in BOOLEAN /\ p.frozen \in BOOLEAN
    BY <1>1 DEF Pages
  <1>5. 1 \in DOMAIN s /\ m = s[1]
    BY <1>1
  <1>6. IsCapture(m) => /\ m.item \in Items
                        /\ m.item \in taken[n]
                        /\ \A i \in Elements(p.text) \cup Elements(p.held) : i < m.item
    BY <1>1, <1>3, <1>5 DEF IsCapture, Messages, ComingInOrder
  <1>7. /\ PageInOrder(n)'
        /\ \A i \in Elements(q.text) \cup Elements(q.held) :
              \/ i \in Elements(p.text) \cup Elements(p.held)
              \/ IsCapture(m) /\ i = m.item
    <2>1. CASE q.text = p.text /\ q.held = p.held /\ (q.frozen = p.frozen \/ q.frozen = TRUE)
      BY <1>2, <1>3, <2>1 DEF PageInOrder, Kept
    <2>2. CASE IsCapture(m) /\ p.active
      <3>1. Ordered(<<m.item>>) /\ Elements(<<m.item>>) = {m.item} /\ <<m.item>> \in Seq(Items)
        BY <1>6, <2>2, OneIsOrdered
      <3>2. CASE p.frozen
        <4>1. q = [p EXCEPT !.held = Append(@, m.item)]
          BY <1>1, <2>2, <3>2 DEF PageHears, IsCapture
        <4>a. q.held = Append(p.held, m.item) /\ q.text = p.text /\ q.frozen = TRUE
          BY <1>1, <3>2, <4>1 DEF Pages
        <4>b. Append(p.held, m.item) = p.held \o <<m.item>>
          <5> HIDE DEF p, m
          <5>1. QED BY <1>4, <1>6, <2>2
        <4>2. q.held = p.held \o <<m.item>> /\ q.text = p.text /\ q.frozen = TRUE
          BY <4>a, <4>b
        <4>3. /\ Ordered(p.held \o <<m.item>>)
              /\ Elements(p.held \o <<m.item>>) = Elements(p.held) \cup {m.item}
          <5>1. Ordered(p.held)
            BY <1>3 DEF PageInOrder, Kept
          <5>2. \A i \in Elements(p.held), j \in Elements(<<m.item>>) : i < j
            BY <1>6, <2>2, <3>1
          <5> HIDE DEF p, m
          <5>3. QED BY <1>4, <3>1, <5>1, <5>2, OrderedConcat
        <4> HIDE DEF q, p, m
        <4>4. \A i \in Elements(q.text), j \in Elements(q.held) : i < j
          BY <1>3, <1>6, <2>2, <4>2, <4>3 DEF PageInOrder, p, m
        <4>5. PageInOrder(n)'
          BY <1>2, <1>3, <1>6, <2>2, <4>2, <4>3, <4>4 DEF PageInOrder, Kept, q, p
        <4>6. QED BY <2>2, <4>2, <4>3, <4>5
      <3>3. CASE ~p.frozen
        <4>1. q = [p EXCEPT !.text = @ \o <<m.item>>]
          BY <1>1, <2>2, <3>3 DEF PageHears, IsCapture, Filed, Pages
        <4>2. q.text = p.text \o <<m.item>> /\ q.held = p.held /\ q.held = <<>>
          BY <1>1, <1>3, <3>3, <4>1 DEF Pages, PageInOrder
        <4>3. /\ Ordered(p.text \o <<m.item>>)
              /\ Elements(p.text \o <<m.item>>) = Elements(p.text) \cup {m.item}
          <5>1. Ordered(p.text)
            BY <1>3 DEF PageInOrder, Kept
          <5>2. \A i \in Elements(p.text), j \in Elements(<<m.item>>) : i < j
            BY <1>6, <2>2, <3>1
          <5> HIDE DEF p, m
          <5>3. QED BY <1>4, <3>1, <5>1, <5>2, OrderedConcat
        <4>4. Elements(q.held) = {} /\ Ordered(q.held)
          BY <4>2, NothingIsKept
        <4> HIDE DEF q, p, m
        <4>5. PageInOrder(n)'
          BY <1>2, <1>3, <1>6, <2>2, <4>2, <4>3, <4>4 DEF PageInOrder, Kept, q, p
        <4>6. QED BY <2>2, <4>2, <4>3, <4>4, <4>5
      <3>4. QED BY <1>4, <3>2, <3>3
    <2>3. CASE IsCapture(m) /\ ~p.active
      <3>1. q = p
        BY <1>1, <2>3 DEF PageHears, IsCapture, Filed, Pages
      <3>2. QED BY <2>1, <3>1
    <2>4. CASE m.type = "abort_external_write"
      <3>1. q.held = <<>> /\ q.text = IF p.active THEN p.text \o p.held ELSE p.text
        <4> DEFINE f == Filed(p, p.held)
        <4>1. q = [f EXCEPT !.frozen = FALSE, !.held = <<>>]
          BY <1>1, <2>4 DEF PageHears
        <4>2. f \in Pages /\ f.text = IF p.active THEN p.text \o p.held ELSE p.text
          <5>1. f \in Pages
            BY <1>1, <1>4, PageOperationsTyped
          <5>2. QED BY <1>1, <5>1 DEF Filed, Pages
        <4> HIDE DEF f, q, p
        <4>3. QED BY <4>1, <4>2 DEF Pages
      <3>2. Elements(q.held) = {} /\ Ordered(q.held)
        BY <3>1, NothingIsKept
      <3>3. /\ Ordered(p.text \o p.held)
            /\ Elements(p.text \o p.held) = Elements(p.text) \cup Elements(p.held)
        BY <1>3, <1>4, OrderedConcat DEF PageInOrder, Kept
      <3> HIDE DEF q, p, m
      <3>4. PageInOrder(n)'
        BY <1>2, <1>3, <3>1, <3>2, <3>3 DEF PageInOrder, Kept, q, p
      <3>5. QED BY <3>1, <3>2, <3>3, <3>4
    <2>5. CASE m.type \in {"set_auto_paste", "request_flush", "begin_external_write"}
      <3>1. q.text = p.text /\ q.held = p.held /\ (q.frozen = p.frozen \/ q.frozen = TRUE)
        BY <1>1, <2>5 DEF PageHears, Pages
      <3>2. QED BY <2>1, <3>1
    <2>6. m.type \in {"set_auto_paste", "request_flush", "begin_external_write",
                      "auto_paste_captured", "abort_external_write"}
      BY <1>1 DEF PageHears
    <2>7. QED BY <1>4, <2>2, <2>3, <2>4, <2>5, <2>6 DEF IsCapture
  <1>8. QED BY <1>7

LEMMA PageKeepsOrder ==
    ASSUME Grounds, CapturesInOrder, NEW n \in Notes, PageHears(n)
    PROVE  CapturesInOrder'
  <1> DEFINE s == toPage[n]
             m == Head(toPage[n])
             p == page[n]
             q == page'[n]
  <1>1. /\ s \in Seq(Messages) /\ s # <<>> /\ m \in Messages
        /\ p \in Pages
        /\ page \in [Notes -> Pages]
        /\ toPage \in [Notes -> Seq(Messages)]
        /\ toHost \in [Notes -> Seq(Messages)]
    BY DEF Grounds, TypeOK, PageHears
  <1>2. /\ taken' = taken /\ file' = file
        /\ toPage'[n] = Tail(s)
        /\ \A o \in Notes : o # n => /\ toPage'[o] = toPage[o]
                                     /\ page'[o] = page[o]
                                     /\ toHost'[o] = toHost[o]
    BY <1>1 DEF PageHears, Send, boundVars
  <1>3. PageInOrder(n) /\ ComingInOrder(n) /\ SavedInOrder(n)
    BY DEF CapturesInOrder
  <1>4. /\ p.text \in Seq(Items) /\ p.held \in Seq(Items)
        /\ p.active \in BOOLEAN /\ p.frozen \in BOOLEAN
    BY <1>1 DEF Pages
  <1>5. 1 \in DOMAIN s /\ m = s[1]
    BY <1>1
  <1>6. IsCapture(m) => /\ m.item \in Items
                        /\ m.item \in taken[n]
                        /\ \A i \in Elements(p.text) \cup Elements(p.held) : i < m.item
    BY <1>1, <1>3, <1>5 DEF IsCapture, Messages, ComingInOrder
  <1>7. /\ PageInOrder(n)'
        /\ \A i \in Elements(q.text) \cup Elements(q.held) :
              \/ i \in Elements(p.text) \cup Elements(p.held)
              \/ IsCapture(m) /\ i = m.item
    BY PageTakes
  <1>8. ComingInOrder(n)'
    <2> DEFINE t == Tail(s)
    <2>1. \A k \in DOMAIN t : k + 1 \in DOMAIN s /\ t[k] = s[k + 1] /\ 1 < k + 1
      BY <1>1
    <2>2. \A k, l \in DOMAIN t : l < k => l + 1 < k + 1
      BY <1>1
    <2> HIDE DEF t
    <2>3. ASSUME NEW k \in DOMAIN t, IsCapture(t[k])
          PROVE  /\ t[k].item \in taken[n]
                 /\ \A i \in Elements(p.text) \cup Elements(p.held) : i < t[k].item
                 /\ IsCapture(m) => m.item < t[k].item
                 /\ \A l \in DOMAIN t : l < k /\ IsCapture(t[l]) => t[l].item < t[k].item
      BY <1>3, <1>5, <2>1, <2>2, <2>3 DEF ComingInOrder
    <2>4. \A k \in DOMAIN t : IsCapture(t[k]) =>
             \A i \in Elements(q.text) \cup Elements(q.held) : i < t[k].item
      BY <1>7, <2>3
    <2>5. toPage'[n] = t
      BY <1>2 DEF t
    <2> HIDE DEF s, m, p
    <2>6. QED BY <1>2, <2>3, <2>4, <2>5 DEF ComingInOrder
  <1>9. SavedInOrder(n)'
    <2>1. CASE toHost'[n] = toHost[n]
      BY <1>2, <1>3, <2>1 DEF SavedInOrder, Kept
    <2>2. CASE \E r \in Messages : r.text = p.text /\ toHost'[n] = Append(toHost[n], r)
      <3>1. PICK r \in Messages : r.text = p.text /\ toHost'[n] = Append(toHost[n], r)
        BY <2>2
      <3>2. \A k \in DOMAIN toHost'[n] : \/ k \in DOMAIN toHost[n] /\ toHost'[n][k] = toHost[n][k]
                                         \/ toHost'[n][k] = r
        BY <1>1, <3>1
      <3>3. Kept(n, p.text)
        BY <1>3 DEF PageInOrder
      <3>4. QED BY <1>2, <1>3, <3>1, <3>2, <3>3 DEF SavedInOrder, Kept
    <2>3. toHost'[n] = toHost[n]
             \/ \E r \in Messages : r.text = p.text /\ toHost'[n] = Append(toHost[n], r)
      <3>1. CASE m.type = "request_flush"
        <4> DEFINE r == [Message("flush_response") EXCEPT !.flush = m.flush, !.text = p.text]
        <4>1. m.flush \in Flushes
          BY <1>1 DEF Messages
        <4>2. Message("flush_response") \in Messages
          BY MessagesTyped DEF MessageTypes
        <4>3. r \in Messages
          BY <1>4, <4>1, <4>2 DEF Messages
        <4>4. r.text = p.text
          BY DEF Message
        <4>5. toHost'[n] = Append(toHost[n], r)
          BY <1>1, <3>1 DEF PageHears, Send
        <4>6. QED BY <4>3, <4>4, <4>5
      <3>2. CASE m.type # "request_flush"
        BY <3>2 DEF PageHears
      <3>3. QED BY <3>1, <3>2
    <2>4. QED BY <2>1, <2>2, <2>3
  <1>10. ASSUME NEW o \in Notes, o # n
         PROVE  PageInOrder(o)' /\ ComingInOrder(o)' /\ SavedInOrder(o)'
    <2>1. PageInOrder(o) /\ ComingInOrder(o) /\ SavedInOrder(o)
      BY DEF CapturesInOrder
    <2>2. QED BY <1>2, <1>10, <2>1 DEF PageInOrder, ComingInOrder, SavedInOrder, Kept
  <1>11. QED BY <1>7, <1>8, <1>9, <1>10 DEF CapturesInOrder

LEMMA ReadKeepsOrder ==
    ASSUME Grounds, ReadsInTurn, CapturesInOrder, NEW r \in reads, FinishClipboardRead(r)
    PROVE  CapturesInOrder'
  <1> SUFFICES ASSUME NEW n \in Notes
               PROVE  PageInOrder(n)' /\ ComingInOrder(n)' /\ SavedInOrder(n)'
    BY DEF CapturesInOrder
  <1> DEFINE m == Captured(r.item)
             s == toPage[n]
             t == toPage'[n]
  <1>1. PageInOrder(n) /\ ComingInOrder(n) /\ SavedInOrder(n)
    BY DEF CapturesInOrder
  <1>2. UNCHANGED <<page, file, toHost>>
    BY DEF FinishClipboardRead
  <1>3. r.item \in Items /\ m \in Messages /\ IsCapture(m) /\ m.item = r.item
    BY MessagesTyped DEF Grounds, TypeOK, Reads, IsCapture, Captured, Message
  <1>4. s \in Seq(Messages)
    BY DEF Grounds, TypeOK
  <1> HIDE DEF m
  <1>5. \/ t = s /\ taken'[n] = taken[n]
        \/ t = Append(s, m) /\ taken'[n] = taken[n] \cup {r.item}
    BY DEF FinishClipboardRead, m, Grounds, TypeOK
  <1>6. taken[n] \subseteq taken'[n]
    BY <1>5
  <1>7. PageInOrder(n)' /\ SavedInOrder(n)'
    BY <1>1, <1>2, <1>6 DEF PageInOrder, SavedInOrder, Kept
  <1>8. \A i \in taken[n] : i < r.item
    BY DEF ReadsInTurn
  <1>9. ComingInOrder(n)'
    <2>1. CASE t = s
      BY <1>1, <1>2, <1>6, <2>1 DEF ComingInOrder
    <2>2. CASE t = Append(s, m) /\ taken'[n] = taken[n] \cup {r.item}
      <3>1. /\ Len(s) \in Nat
            /\ DOMAIN s = 1 .. Len(s)
            /\ DOMAIN t = 1 .. Len(s) + 1
            /\ t[Len(s) + 1] = m
            /\ \A k \in DOMAIN s : t[k] = s[k]
        BY <1>3, <1>4, <2>2
      <3>2. \A k \in DOMAIN s : IsCapture(s[k]) => s[k].item < r.item
        BY <1>1, <1>8 DEF ComingInOrder
      <3>3. \A i \in Elements(page[n].text) \cup Elements(page[n].held) : i < r.item
        BY <1>1, <1>8 DEF PageInOrder, Kept
      <3> HIDE DEF s, t
      <3>4. ASSUME NEW k \in DOMAIN t, IsCapture(t[k])
            PROVE  /\ t[k].item \in taken'[n]
                   /\ \A i \in Elements(page[n].text) \cup Elements(page[n].held) : i < t[k].item
                   /\ \A l \in DOMAIN t : l < k /\ IsCapture(t[l]) => t[l].item < t[k].item
        <4>1. CASE k \in DOMAIN s
          <5>1. \A l \in DOMAIN t : l < k => l \in DOMAIN s
            BY <3>1, <4>1
          <5>2. QED BY <1>1, <1>6, <3>1, <3>4, <4>1, <5>1 DEF ComingInOrder, s
        <4>2. CASE k = Len(s) + 1
          <5>1. \A l \in DOMAIN t : l < k => l \in DOMAIN s /\ t[l] = s[l]
            BY <3>1, <4>2
          <5>2. t[k] = m /\ t[k].item = r.item
            BY <1>3, <3>1, <4>2
          <5>3. QED BY <2>2, <3>2, <3>3, <5>1, <5>2
        <4>3. QED BY <3>1, <4>1, <4>2
      <3>5. QED BY <1>2, <3>4 DEF ComingInOrder, t
    <2>3. QED BY <1>5, <2>1, <2>2
  <1>10. QED BY <1>7, <1>9

LEMMA OrderIsKept ==
    ASSUME Grounds, ReadsInTurn, CapturesInOrder, [Next]_vars
    PROVE  CapturesInOrder'
  <1>1. ASSUME NEW n \in Notes, Asks(n) PROVE CapturesInOrder'
    <2>1. UNCHANGED <<page, toPage, file, taken>>
      BY <1>1 DEF Asks
    <2>2. PICK m \in Messages : Send(n, m) /\ (m.text = <<>> \/ m.text = page[n].text)
      BY <1>1 DEF Asks
    <2>3. Kept(n, m.text)
      BY <2>2, NothingIsKept DEF CapturesInOrder, PageInOrder
    <2>4. ASSUME NEW o \in Notes, NEW k \in DOMAIN toHost'[o] PROVE Kept(o, toHost'[o][k].text)
      <3>1. toHost[o] \in Seq(Messages)
        BY DEF Grounds, TypeOK
      <3>2. toHost'[o] = toHost[o] \/ (o = n /\ toHost'[o] = Append(toHost[o], m))
        BY <2>2 DEF Send, Grounds, TypeOK
      <3>3. \/ k \in DOMAIN toHost[o] /\ toHost'[o][k] = toHost[o][k]
            \/ o = n /\ toHost'[o][k] = m
        BY <2>4, <3>1, <3>2
      <3>4. QED BY <2>3, <3>3 DEF CapturesInOrder, SavedInOrder
    <2>5. QED
      BY <2>1, <2>4 DEF CapturesInOrder, PageInOrder, ComingInOrder, SavedInOrder, Kept
  <1>2. ASSUME NEW n \in Notes, OpenWindow(n) PROVE CapturesInOrder'
    <2>1. /\ UNCHANGED <<toPage, toHost, file, taken>>
          /\ page'[n] = PageOf(file[n])
          /\ n \notin window
          /\ \A o \in Notes : o # n => page'[o] = page[o]
      BY <1>2 DEF OpenWindow, Grounds, TypeOK
    <2>2. toPage[n] = <<>>
      BY <2>1 DEF Grounds, ClosedIsSilent
    <2>3. PageInOrder(n)'
      BY <2>1, NothingIsKept DEF PageInOrder, PageOf, CapturesInOrder, SavedInOrder, Kept
    <2>4. ComingInOrder(n)'
      BY <2>1, <2>2 DEF ComingInOrder
    <2>5. \A o \in Notes : SavedInOrder(o)'
      BY <2>1 DEF CapturesInOrder, SavedInOrder, Kept
    <2>6. \A o \in Notes : o # n => PageInOrder(o)' /\ ComingInOrder(o)'
      BY <2>1 DEF CapturesInOrder, PageInOrder, ComingInOrder, Kept
    <2>7. QED BY <2>3, <2>4, <2>5, <2>6 DEF CapturesInOrder
  <1>3. ASSUME UNCHANGED <<page, toPage, toHost, file, taken>> PROVE CapturesInOrder'
    BY <1>3 DEF CapturesInOrder, PageInOrder, ComingInOrder, SavedInOrder, Kept
  <1>4. QED
    BY <1>1, <1>2, <1>3, EveryStep, TurnKeepsOrder, PageKeepsOrder, ReadKeepsOrder
    DEF Copy, windowVars, boundVars, vars

LEMMA AlwaysInOrder == Spec => [](ReadsInTurn /\ CapturesInOrder)
  <1>1. Init => ReadsInTurn
    BY DEF Init, PolicyInit, ReadsInTurn
  <1>2. ASSUME Init, NEW n \in Notes PROVE PageInOrder(n) /\ ComingInOrder(n) /\ SavedInOrder(n)
    <2>1. page[n].text = <<>> /\ page[n].held = <<>> /\ file[n] = <<>>
      BY <1>2 DEF Init, PageOf
    <2>2. DOMAIN toPage[n] = {} /\ DOMAIN toHost[n] = {}
      BY <1>2 DEF Init
    <2>3. Kept(n, <<>>) /\ Elements(<<>>) = {}
      BY NothingIsKept
    <2>4. QED BY <2>1, <2>2, <2>3 DEF PageInOrder, ComingInOrder, SavedInOrder
  <1>a. Init => CapturesInOrder
    BY <1>2 DEF CapturesInOrder
  <1>3. Grounds /\ SessionsAccounted /\ ReadsInTurn /\ [Next]_vars => ReadsInTurn'
    BY ReadsTakeTurns
  <1>4. Grounds /\ ReadsInTurn /\ CapturesInOrder /\ [Next]_vars => CapturesInOrder'
    BY OrderIsKept
  <1>5. QED
    BY <1>1, <1>a, <1>3, <1>4, AlwaysGrounded, SessionsAlwaysAccounted, PTL DEF Spec

(* Each copy is filed once, and in the order of the copies, whatever       *)
(* sessions, held writes, hides and reopened windows come in between.      *)
THEOREM AlwaysFiledInOrder == Spec => []FiledInOrder
  <1>1. CapturesInOrder => FiledInOrder
    BY DEF CapturesInOrder, PageInOrder, Kept, Ordered, FiledInOrder
  <1>2. QED BY <1>1, AlwaysInOrder, PTL

-----------------------------------------------------------------------------
(* No page is asked to flush while it is held still: what it would hold    *)
(* back then is not in the text it answers with.                           *)
Freezing == {m \in Messages : m.type = "begin_external_write"}
Freeing == {m \in Messages : m.type = "abort_external_write"}

StillAt(s, frozen, k) == Before(s, frozen, k, Freezing, Freeing)

AskedWhileFree(s, frozen) ==
    \A k \in DOMAIN s : s[k].type = "request_flush" => ~StillAt(s, frozen, k)

FlushesWhileFree ==
    \A n \in Notes :
       /\ AskedWhileFree(toPage[n], page[n].frozen)
       /\ n \notin holding => ~StillAt(toPage[n], page[n].frozen, Len(toPage[n]) + 1)

LEMMA StillAppend ==
    ASSUME NEW s \in Seq(Messages), NEW m \in Messages, NEW frozen \in BOOLEAN,
           AskedWhileFree(s, frozen),
           m.type = "request_flush" => ~StillAt(s, frozen, Len(s) + 1)
    PROVE  /\ AskedWhileFree(Append(s, m), frozen)
           /\ StillAt(Append(s, m), frozen, Len(Append(s, m)) + 1)
                 => \/ m.type = "begin_external_write"
                    \/ m.type # "abort_external_write" /\ StillAt(s, frozen, Len(s) + 1)
  <1> DEFINE t == Append(s, m)
  <1>1. /\ Len(s) \in Nat /\ DOMAIN s = 1 .. Len(s)
        /\ Len(t) + 1 = Len(s) + 2 /\ DOMAIN t = 1 .. Len(s) + 1
        /\ t[Len(s) + 1] = m
        /\ \A i \in 1 .. Len(s) : t[i] = s[i]
    OBVIOUS
  <1>2. /\ \A k \in 1 .. Len(s) + 1 : StillAt(t, frozen, k) <=> StillAt(s, frozen, k)
        /\ StillAt(t, frozen, Len(s) + 2)
              <=> m \in Freezing \/ (m \notin Freeing /\ StillAt(s, frozen, Len(s) + 1))
    BY BeforeAppend DEF StillAt
  <1> HIDE DEF t
  <1>3. AskedWhileFree(t, frozen)
    <2> SUFFICES ASSUME NEW k \in DOMAIN t, t[k].type = "request_flush"
                 PROVE  ~StillAt(s, frozen, k)
      BY <1>1, <1>2 DEF AskedWhileFree
    <2>1. CASE k \in 1 .. Len(s)
      BY <1>1, <2>1 DEF AskedWhileFree
    <2>2. CASE k = Len(s) + 1
      BY <1>1, <2>2
    <2>3. QED BY <1>1, <2>1, <2>2
  <1>4. QED BY <1>1, <1>2, <1>3 DEF Freezing, Freeing, t

LEMMA TurnAsksWhileFree ==
    ASSUME Grounds, FlushesWhileFree, NEW heard, NEW gone, NEW told,
           TurnStep(heard, gone, told)
    PROVE  FlushesWhileFree'
  <1> SUFFICES ASSUME NEW n \in Notes
               PROVE  /\ AskedWhileFree(toPage'[n], page'[n].frozen)
                      /\ n \notin holding'
                            => ~StillAt(toPage'[n], page'[n].frozen, Len(toPage'[n]) + 1)
    BY DEF FlushesWhileFree, AskedWhileFree, StillAt, Before
  <1> DEFINE s == toPage[n]
             f == page[n].frozen
  <1>1. s \in Seq(Messages) /\ f \in BOOLEAN
    BY DEF Grounds, TypeOK, Pages
  <1>2. CASE toPage'[n] = <<>> /\ ~page'[n].frozen
    <2>1. DOMAIN toPage'[n] = {}
      BY <1>2
    <2>2. ~StillAt(toPage'[n], page'[n].frozen, Len(toPage'[n]) + 1)
      BY <1>2, <2>1 DEF StillAt, Before
    <2>3. QED BY <2>1, <2>2 DEF AskedWhileFree
  <1>3. CASE toPage'[n] = s \o told[n] /\ page'[n].frozen = f
    <2>1. PICK switch \in Seq(Messages) : \E direction \in Seq(Messages) :
             told[n] = switch \o direction /\ Switched(n, switch) /\ Directed(n, direction)
      BY DEF TurnStep, Instructed
    <2>2. PICK direction \in Seq(Messages) :
             told[n] = switch \o direction /\ Switched(n, switch) /\ Directed(n, direction)
      BY <2>1
    <2> DEFINE t == s \o switch
    <2>3. t \in Seq(Messages)
      BY <1>1
    <2>4. s \o (switch \o direction) = t \o direction
      <3> HIDE DEF s
      <3>1. QED BY <1>1, ConcatAssociative
    <2>5. toPage'[n] = t \o direction
      BY <1>3, <2>2, <2>4
    <2>6. AskedWhileFree(s, f) /\ (n \notin holding => ~StillAt(s, f, Len(s) + 1))
      BY DEF FlushesWhileFree
    <2> HIDE DEF s, f
    <2>7. AskedWhileFree(t, f) /\ (n \notin holding => ~StillAt(t, f, Len(t) + 1))
      <3>1. CASE switch = <<>>
        <4>1. t = s
          BY <1>1, <3>1
        <4>2. QED BY <2>6, <4>1
      <3>2. CASE switch = <<Switch(IsTarget(n)')>>
        <4> DEFINE m == Switch(IsTarget(n)')
        <4>1. m \in Messages /\ m.type = "set_auto_paste"
          <5>1. IsTarget(n)' \in BOOLEAN
            BY DEF IsTarget, IsArmed
          <5>2. \A on \in BOOLEAN : Switch(on).type = "set_auto_paste"
            BY DEF Switch, Message
          <5>3. QED BY <5>1, <5>2, MessagesTyped
        <4>2. t = s \o <<m>>
          BY <3>2
        <4> HIDE DEF m, t
        <4>3. t = Append(s, m)
          BY <1>1, <4>1, <4>2
        <4>4. AskedWhileFree(Append(s, m), f)
              /\ (StillAt(Append(s, m), f, Len(Append(s, m)) + 1) => StillAt(s, f, Len(s) + 1))
          BY <1>1, <2>6, <4>1, StillAppend
        <4>5. QED BY <2>6, <4>3, <4>4
      <3>3. QED BY <2>2, <3>1, <3>2 DEF Switched
    <2> HIDE DEF t
    <2>8. CASE direction = <<>> /\ (n \in holding => n \in holding')
      <3>1. t \o direction = t
        BY <2>3, <2>8
      <3>2. QED BY <1>3, <2>5, <2>7, <2>8, <3>1
    <2>9. ASSUME NEW m \in Messages, direction = <<m>>,
                 \/ m.type = "request_flush" /\ n \notin holding
                 \/ m.type = "begin_external_write" /\ n \in holding'
                 \/ m.type = "abort_external_write"
          PROVE  /\ AskedWhileFree(Append(t, m), f)
                 /\ n \notin holding' => ~StillAt(Append(t, m), f, Len(Append(t, m)) + 1)
                 /\ toPage'[n] = Append(t, m)
      <3>1. t \o direction = Append(t, m)
        BY <2>3, <2>9
      <3>2. m.type = "request_flush" => ~StillAt(t, f, Len(t) + 1)
        BY <2>7, <2>9
      <3>3. /\ AskedWhileFree(Append(t, m), f)
            /\ StillAt(Append(t, m), f, Len(Append(t, m)) + 1)
                  => \/ m.type = "begin_external_write"
                     \/ m.type # "abort_external_write" /\ StillAt(t, f, Len(t) + 1)
        BY <1>1, <2>3, <2>7, <3>2, StillAppend
      <3>4. QED BY <2>5, <2>7, <2>9, <3>1, <3>3
    <2>10. CASE \E m \in Messages :
              /\ direction = <<m>>
              /\ \/ m.type = "request_flush" /\ n \notin holding
                 \/ m.type = "begin_external_write" /\ n \in holding'
                 \/ m.type = "abort_external_write"
      BY <1>3, <2>9, <2>10
    <2>11. QED BY <2>2, <2>8, <2>10 DEF Directed
  <1>4. \/ (toPage'[n] = <<>> /\ ~page'[n].frozen)
        \/ (toPage'[n] = s \o told[n] /\ page'[n].frozen = f)
    <2>1. n \in gone => toPage'[n] = <<>> /\ page'[n] = PageOf(<<>>)
      BY DEF TurnStep, Turn
    <2>2. n \notin gone /\ n \notin window => toPage'[n] = <<>> /\ page'[n] = PageOf(<<>>)
      BY DEF TurnStep, Turn, Grounds, ClosedIsSilent
    <2>3. n \notin gone /\ n \in window => toPage'[n] = s \o told[n] /\ page'[n] = page[n]
      BY DEF TurnStep, Turn
    <2>4. page'[n] = PageOf(<<>>) => ~page'[n].frozen
      BY DEF PageOf
    <2>5. CASE n \in gone \/ n \notin window
      BY <2>1, <2>2, <2>4, <2>5
    <2>6. CASE n \notin gone /\ n \in window
      <3>1. page'[n].frozen = f
        BY <2>3, <2>6
      <3>2. QED BY <2>3, <2>6, <3>1
    <2>7. QED BY <2>5, <2>6
  <1>5. QED BY <1>2, <1>3, <1>4

LEMMA PageHearsWhileFree ==
    ASSUME Grounds, FlushesWhileFree, NEW n \in Notes, PageHears(n)
    PROVE  FlushesWhileFree'
  <1> DEFINE s == toPage[n]
             t == toPage'[n]
             m == Head(toPage[n])
             f == page[n].frozen
             g == page'[n].frozen
  <1>1. /\ s \in Seq(Messages) /\ s # <<>> /\ m \in Messages /\ f \in BOOLEAN
        /\ page \in [Notes -> Pages] /\ toPage \in [Notes -> Seq(Messages)]
    BY DEF Grounds, TypeOK, Pages, PageHears
  <1>2. /\ holding' = holding
        /\ t = Tail(s)
        /\ \A o \in Notes : o # n => toPage'[o] = toPage[o] /\ page'[o] = page[o]
    BY <1>1 DEF PageHears
  <1>3. /\ m.type = "begin_external_write" => g = TRUE
        /\ m.type = "abort_external_write" => g = FALSE
        /\ m.type \notin {"begin_external_write", "abort_external_write"} => g = f
    <2>1. m.type = "abort_external_write" => g = FALSE
      <3> DEFINE h == Filed(page[n], page[n].held)
      <3>1. ASSUME m.type = "abort_external_write"
            PROVE  page'[n] = [h EXCEPT !.frozen = FALSE, !.held = <<>>]
        BY <1>1, <3>1 DEF PageHears
      <3>2. h \in Pages
        BY <1>1, PageOperationsTyped
      <3> HIDE DEF h
      <3>3. QED BY <3>1, <3>2 DEF Pages
    <2>2. m.type = "begin_external_write" => g = TRUE
      BY <1>1 DEF PageHears, Pages
    <2>3. m.type \in {"set_auto_paste", "request_flush"} => g = f
      BY <1>1 DEF PageHears, Pages
    <2>4. m.type = "auto_paste_captured" => g = f
      BY <1>1 DEF PageHears, Filed, Pages
    <2>5. m.type \in {"set_auto_paste", "request_flush", "begin_external_write",
                      "auto_paste_captured", "abort_external_write"}
      BY <1>1 DEF PageHears
    <2>6. QED BY <2>1, <2>2, <2>3, <2>4, <2>5
  <1>4. g \in BOOLEAN /\ (g <=> m \in Freezing \/ (f /\ m \notin Freeing))
    BY <1>1, <1>3 DEF Freezing, Freeing
  <1>5. AskedWhileFree(s, f) /\ (n \notin holding => ~StillAt(s, f, Len(s) + 1))
    BY DEF FlushesWhileFree
  <1> HIDE DEF s, t, m, f, g
  <1>6. /\ Len(s) \in Nat /\ Len(t) + 1 = Len(s) /\ DOMAIN t = 1 .. Len(s) - 1
        /\ \A k \in DOMAIN t : k \in 1 .. Len(s) /\ k + 1 \in DOMAIN s /\ t[k] = s[k + 1]
        /\ Len(s) \in 1 .. Len(s)
    BY <1>1, <1>2
  <1>7. \A k \in 1 .. Len(s) : StillAt(t, g, k) => StillAt(s, f, k + 1)
    <2>1. m = Head(s)
      BY DEF m, s
    <2>2. QED BY <1>1, <1>2, <1>4, <2>1, BeforeTail DEF StillAt
  <1>8. AskedWhileFree(t, g)
    BY <1>5, <1>6, <1>7 DEF AskedWhileFree
  <1>9. n \notin holding => ~StillAt(t, g, Len(t) + 1)
    BY <1>5, <1>6, <1>7
  <1>10. ASSUME NEW o \in Notes
         PROVE  /\ AskedWhileFree(toPage'[o], page'[o].frozen)
                /\ o \notin holding'
                      => ~StillAt(toPage'[o], page'[o].frozen, Len(toPage'[o]) + 1)
    <2>1. CASE o = n
      BY <1>2, <1>8, <1>9, <2>1 DEF t, g
    <2>2. CASE o # n
      BY <1>2, <2>2 DEF FlushesWhileFree
    <2>3. QED BY <2>1, <2>2
  <1>11. QED BY <1>10 DEF FlushesWhileFree, AskedWhileFree, StillAt, Before

LEMMA FlushesStayFree ==
    ASSUME Grounds, FlushesWhileFree, [Next]_vars
    PROVE  FlushesWhileFree'
  <1>1. ASSUME UNCHANGED <<page, toPage, holding>> PROVE FlushesWhileFree'
    BY <1>1 DEF FlushesWhileFree, AskedWhileFree, StillAt, Before
  <1>2. ASSUME NEW n \in Notes, OpenWindow(n) PROVE FlushesWhileFree'
    <2>1. /\ UNCHANGED <<toPage, holding>>
          /\ page'[n] = PageOf(file[n])
          /\ n \notin window
          /\ \A o \in Notes : o # n => page'[o] = page[o]
      BY <1>2 DEF OpenWindow, Grounds, TypeOK
    <2>2. toPage[n] = <<>> /\ DOMAIN toPage[n] = {} /\ page'[n].frozen = FALSE
      <3>1. toPage[n] = <<>>
        BY <2>1 DEF Grounds, ClosedIsSilent
      <3>2. QED BY <2>1, <3>1 DEF PageOf
    <2>3. AskedWhileFree(toPage'[n], page'[n].frozen)
             /\ ~StillAt(toPage'[n], page'[n].frozen, Len(toPage'[n]) + 1)
      BY <2>1, <2>2 DEF AskedWhileFree, StillAt, Before
    <2>4. ASSUME NEW o \in Notes
          PROVE  /\ AskedWhileFree(toPage'[o], page'[o].frozen)
                 /\ o \notin holding'
                       => ~StillAt(toPage'[o], page'[o].frozen, Len(toPage'[o]) + 1)
      BY <2>1, <2>3 DEF FlushesWhileFree
    <2>5. QED BY <2>4 DEF FlushesWhileFree, AskedWhileFree, StillAt, Before
  <1>3. ASSUME NEW r \in reads, FinishClipboardRead(r) PROVE FlushesWhileFree'
    <2> DEFINE m == Captured(r.item)
    <2>1. m \in Messages /\ m.type = "auto_paste_captured"
      BY MessagesTyped DEF Grounds, TypeOK, Reads, Captured, Message
    <2>2. UNCHANGED <<holding, page>>
      BY <1>3 DEF FinishClipboardRead
    <2>3. \A n \in Notes : toPage'[n] = toPage[n] \/ toPage'[n] = Append(toPage[n], m)
      BY <1>3 DEF FinishClipboardRead
    <2> HIDE DEF m
    <2>4. ASSUME NEW n \in Notes
          PROVE  /\ AskedWhileFree(toPage'[n], page'[n].frozen)
                 /\ n \notin holding'
                       => ~StillAt(toPage'[n], page'[n].frozen, Len(toPage'[n]) + 1)
      <3> DEFINE s == toPage[n]
                 f == page[n].frozen
      <3>1. s \in Seq(Messages) /\ f \in BOOLEAN
        BY DEF Grounds, TypeOK, Pages
      <3>2. AskedWhileFree(s, f) /\ (n \notin holding => ~StillAt(s, f, Len(s) + 1))
        BY DEF FlushesWhileFree
      <3>3. page'[n].frozen = f /\ (toPage'[n] = s \/ toPage'[n] = Append(s, m))
        BY <2>2, <2>3
      <3> HIDE DEF s, f
      <3>4. AskedWhileFree(Append(s, m), f)
               /\ (StillAt(Append(s, m), f, Len(Append(s, m)) + 1) => StillAt(s, f, Len(s) + 1))
        BY <2>1, <3>1, <3>2, StillAppend
      <3>5. CASE toPage'[n] = s
        BY <2>2, <3>2, <3>3, <3>5
      <3>6. CASE toPage'[n] = Append(s, m)
        BY <2>2, <3>2, <3>3, <3>4, <3>6
      <3>7. QED BY <3>3, <3>5, <3>6
    <2>5. QED BY <2>4 DEF FlushesWhileFree, AskedWhileFree, StillAt, Before
  <1>4. QED
    BY <1>1, <1>2, <1>3, EveryStep, TurnAsksWhileFree, PageHearsWhileFree
    DEF Asks, Copy, windowVars, vars

-----------------------------------------------------------------------------
(* What a flush covers.                                                    *)
Generation(i) == copies[i].session.generation

(* The sessions up to g are over for n: it is the target of a later one,   *)
(* or of none.                                                             *)
Past(n, g) ==
    /\ g <= nextGeneration
    /\ IsTarget(n) => g < armed.generation

(* And nothing they handed over is still on its way.                       *)
Settled(n, g) ==
    /\ Past(n, g)
    /\ \A i \in Elements(page[n].held) : g < Generation(i)
    /\ \A k \in DOMAIN toPage[n] : IsCapture(toPage[n][k]) => g < Generation(toPage[n][k].item)

(* What they handed over is in every text sent since the k-th message.     *)
Included(n, g, k) ==
    \A i \in Elements(page[n].text) : Generation(i) <= g =>
       \A l \in DOMAIN toHost[n] :
          k <= l /\ Carries(toHost[n][l]) => i \in Elements(toHost[n][l].text)

FlushOnFile(n) ==
    /\ Settled(n, flushed[n])
    /\ Included(n, flushed[n], 1)
    /\ \A i \in Elements(page[n].text) : Generation(i) <= flushed[n] => i \in Elements(file[n])

FlushAnswered(n) ==
    \A k \in DOMAIN toHost[n] : toHost[n][k].type = "flush_response" =>
       /\ Settled(n, toHost[n][k].flush.generation)
       /\ Included(n, toHost[n][k].flush.generation, k)

FlushAsked(n) ==
    \A k \in DOMAIN toPage[n] : toPage[n][k].type = "request_flush" =>
       /\ Past(n, toPage[n][k].flush.generation)
       /\ \A l \in DOMAIN toPage[n] : k < l /\ IsCapture(toPage[n][l])
             => toPage[n][k].flush.generation < Generation(toPage[n][l].item)

FlushesAccounted == \A n \in Notes : FlushOnFile(n) /\ FlushAnswered(n) /\ FlushAsked(n)

LEMMA RequestsArePast ==
    ASSUME NEW n \in Notes, NEW said, Instructed(n, said)
    PROVE  \A k \in DOMAIN said : said[k].type = "request_flush" =>
              said[k].flush.generation = nextGeneration' /\ ~IsTarget(n)'
  <1>1. PICK switch \in Seq(Messages) : \E direction \in Seq(Messages) :
           said = switch \o direction /\ Switched(n, switch) /\ Directed(n, direction)
    BY DEF Instructed
  <1>2. PICK direction \in Seq(Messages) :
           said = switch \o direction /\ Switched(n, switch) /\ Directed(n, direction)
    BY <1>1
  <1>3. \A k \in DOMAIN switch : switch[k].type # "request_flush"
    <2>1. \A on : Switch(on).type # "request_flush"
      BY DEF Switch, Message
    <2>2. QED BY <1>2, <2>1 DEF Switched
  <1>4. \A k \in DOMAIN direction : direction[k].type = "request_flush" =>
           direction[k].flush.generation = nextGeneration' /\ ~IsTarget(n)'
    BY <1>2 DEF Directed
  <1>5. \A k \in DOMAIN said : \/ k \in DOMAIN switch /\ said[k] = switch[k]
                               \/ /\ k - Len(switch) \in DOMAIN direction
                                  /\ said[k] = direction[k - Len(switch)]
    BY <1>2
  <1>6. QED BY <1>3, <1>4, <1>5

LEMMA PastStaysPast ==
    ASSUME Grounds, TypeOK', ModeMoves, NEW n \in Notes
    PROVE  \A g \in Nat : Past(n, g) => Past(n, g)'
  <1> SUFFICES ASSUME NEW g \in Nat, Past(n, g) PROVE Past(n, g)'
    OBVIOUS
  <1>1. nextGeneration \in Nat
    BY DEF Grounds, TypeOK, PolicyTypeOK
  <1>2. nextGeneration' \in Nat /\ g <= nextGeneration'
    BY <1>1 DEF ModeMoves, Past
  <1>3. ASSUME IsTarget(n)' PROVE g < armed'.generation
    <2>1. CASE IsTarget(n) /\ armed' = armed
      BY <2>1 DEF Past
    <2>2. CASE armed'.generation > nextGeneration
      <3>1. armed' \in Sessions
        BY <1>3 DEF IsTarget, IsArmed, TypeOK, PolicyTypeOK
      <3>2. armed'.generation \in Nat
        BY <3>1 DEF Sessions
      <3>3. QED BY <1>1, <2>2, <3>2 DEF Past
    <2>3. QED BY <1>3, <2>1, <2>2 DEF ModeMoves
  <1>4. QED BY <1>2, <1>3 DEF Past

LEMMA TurnAccountsFlushes ==
    ASSUME Grounds, TypeOK', FlushesAccounted, NEW heard, NEW gone, NEW told,
           TurnStep(heard, gone, told)
    PROVE  FlushesAccounted'
  <1> SUFFICES ASSUME NEW n \in Notes
               PROVE  FlushOnFile(n)' /\ FlushAnswered(n)' /\ FlushAsked(n)'
    BY DEF FlushesAccounted
  <1>1. FlushOnFile(n) /\ FlushAnswered(n) /\ FlushAsked(n)
    BY DEF FlushesAccounted
  <1>2. ModeMoves /\ copies' = copies
    BY DEF TurnStep
  <1>3. /\ toPage[n] \in Seq(Messages) /\ toHost[n] \in Seq(Messages)
        /\ flushed[n] \in Nat /\ flushed'[n] \in Nat
        /\ \A k \in DOMAIN toHost[n] : toHost[n][k].flush.generation \in Nat
        /\ \A k \in DOMAIN toPage[n] : toPage[n][k].flush.generation \in Nat
    <2>1. toPage[n] \in Seq(Messages) /\ toHost[n] \in Seq(Messages)
      BY DEF TypeOK, Grounds
    <2>2. flushed[n] \in Nat /\ flushed'[n] \in Nat
      BY DEF TypeOK, Grounds
    <2>3. \A m \in Messages : m.flush.generation \in Nat
      BY DEF Messages, Flushes
    <2>4. QED BY <2>1, <2>2, <2>3
  <1>4. n \in heard => toHost[n] # <<>> /\ 1 \in DOMAIN toHost[n] /\ Head(toHost[n]) = toHost[n][1]
    BY <1>3 DEF TurnStep
  <1>p. \A g \in Nat : Past(n, g) => Past(n, g)'
    BY <1>2, PastStaysPast
  <1>5. Past(n, flushed[n])'
    <2>1. \E g \in Nat : g = flushed'[n]
      BY <1>3
    <2>2. PICK g \in Nat : g = flushed'[n]
      BY <2>1
    <2>3. Past(n, flushed'[n])
      BY <1>1, <1>4 DEF TurnStep, Wrote, FlushOnFile, FlushAnswered, Settled
    <2>4. Past(n, g)'
      BY <1>p, <2>2, <2>3
    <2>5. QED BY <2>2, <2>4 DEF Past
  <1>6. CASE n \in gone
    <2>1. page'[n].text = <<>> /\ page'[n].held = <<>> /\ toPage'[n] = <<>> /\ toHost'[n] = <<>>
      BY <1>6 DEF TurnStep, Turn, PageOf
    <2>2. Elements(<<>>) = {} /\ DOMAIN <<>> = {}
      BY NothingIsKept
    <2>3. QED
      BY <1>5, <2>1, <2>2
      DEF FlushOnFile, FlushAnswered, FlushAsked, Settled, Included
  <1>7. CASE n \notin gone
    <2> DEFINE s == toPage[n]
               t == toPage'[n]
    <2>1. page'[n] = page[n] /\ (t = <<>> \/ t = s \o told[n])
      BY <1>7 DEF TurnStep, Turn
    <2>2. told[n] \in Seq(Messages) /\ \A k \in DOMAIN told[n] : ~IsCapture(told[n][k])
      BY InstructionsAreNoCaptures DEF TurnStep
    <2>3. \A k \in DOMAIN told[n] : told[n][k].type = "request_flush" =>
             told[n][k].flush.generation = nextGeneration' /\ ~IsTarget(n)'
      BY RequestsArePast DEF TurnStep
    <2>4. s \in Seq(Messages)
      BY <1>3
    <2> HIDE DEF s, t
    <2>5. \A k \in DOMAIN t : \/ k \in DOMAIN s /\ t[k] = s[k]
                              \/ /\ k - Len(s) \in DOMAIN told[n]
                                 /\ t[k] = told[n][k - Len(s)]
                                 /\ \A l \in DOMAIN t : k < l => l - Len(s) \in DOMAIN told[n]
                                                                 /\ t[l] = told[n][l - Len(s)]
      <3>1. CASE t = <<>>
        BY <3>1
      <3>2. CASE t = s \o told[n]
        BY <2>2, <2>4, <3>2
      <3>3. QED BY <2>1, <3>1, <3>2
    <2>6. \A k \in DOMAIN t : IsCapture(t[k]) => k \in DOMAIN s /\ t[k] = s[k]
      BY <2>2, <2>5
    <2>7. \A i : Generation(i)' = Generation(i)
      BY <1>2 DEF Generation
    <2>8. ASSUME NEW g \in Nat, Settled(n, g) PROVE Settled(n, g)'
      <3>1. Past(n, g)'
        BY <1>2, <2>8, PastStaysPast DEF Settled
      <3>2. \A k \in DOMAIN t : IsCapture(t[k]) => g < Generation(t[k].item)
        BY <2>6, <2>8 DEF Settled, s
      <3>3. QED BY <2>1, <2>7, <2>8, <3>1, <3>2 DEF Settled, t
    <2>9. FlushAsked(n)'
      <3>1. ASSUME NEW k \in DOMAIN t, t[k].type = "request_flush",
                   NEW g \in Nat, g = t[k].flush.generation
            PROVE  /\ Past(n, g)'
                   /\ \A l \in DOMAIN t : k < l /\ IsCapture(t[l]) => g < Generation(t[l].item)
        <4>1. CASE k \in DOMAIN s /\ t[k] = s[k]
          <5>1. Past(n, g)
            BY <1>1, <3>1, <4>1 DEF FlushAsked, s
          <5>2. Past(n, g)'
            BY <1>p, <5>1
          <5>3. \A l \in DOMAIN t : k < l /\ IsCapture(t[l]) => g < Generation(t[l].item)
            BY <1>1, <2>6, <3>1, <4>1 DEF FlushAsked, s
          <5>4. QED BY <5>2, <5>3
        <4>2. CASE /\ k - Len(s) \in DOMAIN told[n]
                   /\ t[k] = told[n][k - Len(s)]
                   /\ \A l \in DOMAIN t : k < l => l - Len(s) \in DOMAIN told[n]
                                                   /\ t[l] = told[n][l - Len(s)]
          <5>1. g = nextGeneration' /\ ~IsTarget(n)'
            BY <2>3, <3>1, <4>2
          <5>2. Past(n, g)'
            BY <3>1, <5>1 DEF Past
          <5>3. QED BY <2>2, <4>2, <5>2
        <4>3. QED BY <2>5, <4>1, <4>2
      <3>2. \A k \in DOMAIN t : t[k].flush.generation \in Nat
        <4>1. \A m \in Messages : m.flush.generation \in Nat
          BY DEF Messages, Flushes
        <4>2. toPage'[n] \in Seq(Messages)
          BY DEF TypeOK
        <4>3. QED BY <4>1, <4>2 DEF t
      <3>3. ASSUME NEW k \in DOMAIN t, t[k].type = "request_flush"
            PROVE  /\ Past(n, toPage[n][k].flush.generation)'
                   /\ \A l \in DOMAIN t : k < l /\ IsCapture(t[l])
                          => t[k].flush.generation < Generation(t[l].item)
        <4>1. PICK g \in Nat : g = t[k].flush.generation
          BY <3>2
        <4>2. /\ Past(n, g)'
              /\ \A l \in DOMAIN t : k < l /\ IsCapture(t[l]) => g < Generation(t[l].item)
          BY <3>1, <3>3, <4>1
        <4>3. Past(n, toPage[n][k].flush.generation)'
          BY <4>1, <4>2 DEF Past, t
        <4>4. QED BY <4>1, <4>2, <4>3
      <3>4. QED BY <2>7, <3>3 DEF FlushAsked, t
    <2>10. \/ toHost'[n] = toHost[n]
           \/ /\ n \in heard
              /\ \A k \in DOMAIN toHost'[n] :
                    /\ k \in Nat \ {0}
                    /\ k + 1 \in DOMAIN toHost[n]
                    /\ toHost'[n][k] = toHost[n][k + 1]
      <3>1. toHost'[n] = toHost[n] \/ (n \in heard /\ toHost'[n] = Tail(toHost[n]))
        BY <1>7 DEF TurnStep, Turn
      <3>2. n \in heard => \A k \in DOMAIN Tail(toHost[n]) :
               /\ k \in Nat \ {0}
               /\ k + 1 \in DOMAIN toHost[n]
               /\ Tail(toHost[n])[k] = toHost[n][k + 1]
        BY <1>3, <1>4
      <3>3. QED BY <3>1, <3>2
    <2>11. ASSUME NEW g \in Nat, NEW k \in Nat, NEW j \in Nat, Included(n, g, j),
                  \/ toHost'[n] = toHost[n] /\ j = k
                  \/ /\ j <= k + 1
                     /\ \A l \in DOMAIN toHost'[n] : l \in Nat \ {0} /\ l + 1 \in DOMAIN toHost[n]
                                                    /\ toHost'[n][l] = toHost[n][l + 1]
           PROVE  Included(n, g, k)'
      <3>1. CASE toHost'[n] = toHost[n] /\ j = k
        BY <2>1, <2>7, <2>11, <3>1 DEF Included
      <3>2. CASE /\ j <= k + 1
                 /\ \A l \in DOMAIN toHost'[n] : l \in Nat \ {0} /\ l + 1 \in DOMAIN toHost[n]
                                                /\ toHost'[n][l] = toHost[n][l + 1]
        <4>1. ASSUME NEW i \in Elements(page[n].text), Generation(i) <= g,
                     NEW l \in DOMAIN toHost'[n], k <= l, Carries(toHost'[n][l])
              PROVE  i \in Elements(toHost'[n][l].text)
          <5>1. j <= l + 1 /\ l + 1 \in DOMAIN toHost[n] /\ toHost'[n][l] = toHost[n][l + 1]
            BY <3>2, <4>1
          <5>2. QED BY <2>11, <4>1, <5>1 DEF Included
        <4>2. QED BY <2>1, <2>7, <4>1 DEF Included
      <3>3. QED BY <2>11, <3>1, <3>2
    <2>12. FlushAnswered(n)'
      <3>1. ASSUME NEW k \in DOMAIN toHost'[n], toHost'[n][k].type = "flush_response"
            PROVE  /\ Settled(n, toHost[n][k].flush.generation)'
                   /\ Included(n, toHost[n][k].flush.generation, k)'
        <4>1. PICK j \in DOMAIN toHost[n] :
                 /\ toHost'[n][k] = toHost[n][j] /\ k \in Nat /\ j \in Nat
                 /\ \/ toHost'[n] = toHost[n] /\ j = k
                    \/ /\ j <= k + 1
                       /\ \A l \in DOMAIN toHost'[n] :
                             l \in Nat \ {0} /\ l + 1 \in DOMAIN toHost[n]
                                             /\ toHost'[n][l] = toHost[n][l + 1]
          BY <1>3, <2>10, <3>1
        <4>2. PICK g \in Nat : g = toHost[n][j].flush.generation
          BY <1>3
        <4>3. Settled(n, g) /\ Included(n, g, j)
          BY <1>1, <3>1, <4>1, <4>2 DEF FlushAnswered
        <4>4. Settled(n, g)'
          BY <2>8, <4>3
        <4>5. Included(n, g, k)'
          BY <2>11, <4>1, <4>3
        <4>6. g = toHost'[n][k].flush.generation
          BY <4>1, <4>2
        <4>7. Settled(n, toHost[n][k].flush.generation)'
          BY <4>4, <4>6 DEF Settled, Past
        <4>8. Included(n, toHost[n][k].flush.generation, k)'
          BY <4>5, <4>6 DEF Included
        <4>9. QED BY <4>7, <4>8
      <3>2. QED BY <3>1 DEF FlushAnswered
    <2>13. FlushOnFile(n)'
      <3>1. PICK g \in Nat : g = flushed'[n]
        BY <1>3
      <3> SUFFICES /\ Settled(n, g) /\ Included(n, g, 1)
                   /\ \A i \in Elements(page[n].text) :
                          Generation(i) <= g => i \in Elements(file'[n])
        <4>1. Included(n, g, 1)'
          BY <2>10, <2>11
        <4>2. Settled(n, g)'
          BY <2>8
        <4>3. Settled(n, flushed[n])'
          BY <3>1, <4>2 DEF Settled, Past
        <4>4. Included(n, flushed[n], 1)'
          BY <3>1, <4>1 DEF Included
        <4>5. QED BY <2>1, <2>7, <3>1, <4>3, <4>4 DEF FlushOnFile
      <3>2. CASE file'[n] = file[n] /\ flushed'[n] = flushed[n]
        BY <1>1, <3>1, <3>2 DEF FlushOnFile
      <3>3. CASE /\ n \in heard
                 /\ Carries(Head(toHost[n]))
                 /\ file'[n] = Head(toHost[n]).text
                 /\ flushed'[n] = flushed[n]
        BY <1>1, <1>4, <3>1, <3>3 DEF FlushOnFile, Included
      <3>4. CASE /\ n \in heard
                 /\ Carries(Head(toHost[n]))
                 /\ file'[n] = Head(toHost[n]).text
                 /\ Head(toHost[n]).type = "flush_response"
                 /\ flushed'[n] = Head(toHost[n]).flush.generation
        BY <1>1, <1>4, <3>1, <3>4 DEF FlushAnswered, Included
      <3>5. QED BY <3>2, <3>3, <3>4 DEF TurnStep, Wrote
    <2>14. QED BY <2>9, <2>12, <2>13
  <1>8. QED BY <1>6, <1>7

LEMMA PageHolds ==
    ASSUME Grounds, NEW n \in Notes, PageHears(n)
    PROVE  \/ page'[n].held = page[n].held
           \/ page'[n].held = <<>>
           \/ /\ IsCapture(Head(toPage[n]))
              /\ page'[n].held = Append(page[n].held, Head(toPage[n]).item)
  <1> DEFINE m == Head(toPage[n])
             p == page[n]
             q == page'[n]
  <1>1. p \in Pages /\ page \in [Notes -> Pages]
    BY DEF Grounds, TypeOK
  <1>2. CASE m.type = "auto_paste_captured"
    <2>1. q = [p EXCEPT !.held = Append(@, m.item)] \/ q = Filed(p, <<m.item>>)
      BY <1>1, <1>2 DEF PageHears
    <2>2. Filed(p, <<m.item>>).held = p.held
      BY <1>1 DEF Filed, Pages
    <2>3. [p EXCEPT !.held = Append(@, m.item)].held = Append(p.held, m.item)
      BY <1>1 DEF Pages
    <2>4. QED BY <1>2, <2>1, <2>2, <2>3 DEF IsCapture
  <1>3. CASE m.type = "abort_external_write"
    <2> DEFINE f == Filed(p, p.held)
    <2>1. q = [f EXCEPT !.frozen = FALSE, !.held = <<>>]
      BY <1>1, <1>3 DEF PageHears
    <2>2. f \in Pages
      BY <1>1, PageOperationsTyped
    <2> HIDE DEF f, p
    <2>3. q.held = <<>>
      BY <2>1, <2>2 DEF Pages
    <2>4. QED BY <2>3
  <1>4. CASE m.type \in {"set_auto_paste", "request_flush", "begin_external_write"}
    BY <1>1, <1>4 DEF PageHears, Pages
  <1>5. QED BY <1>2, <1>3, <1>4 DEF PageHears

LEMMA PageAccountsFlushes ==
    ASSUME Grounds, TypeOK', ReadsInTurn, CapturesInOrder, FlushesWhileFree,
           FlushesAccounted,
           NEW n \in Notes, PageHears(n)
    PROVE  FlushesAccounted'
  <1> DEFINE s == toPage[n]
             t == toPage'[n]
             m == Head(toPage[n])
             p == page[n]
             q == page'[n]
  <1>1. /\ s \in Seq(Messages) /\ s # <<>> /\ m \in Messages
        /\ p \in Pages
        /\ page \in [Notes -> Pages]
        /\ toPage \in [Notes -> Seq(Messages)]
        /\ toHost \in [Notes -> Seq(Messages)]
    BY DEF Grounds, TypeOK, PageHears
  <1>2. /\ UNCHANGED <<armed, nextGeneration, copies, file, flushed>>
        /\ t = Tail(s)
        /\ \A o \in Notes : o # n => /\ toPage'[o] = toPage[o]
                                     /\ page'[o] = page[o]
                                     /\ toHost'[o] = toHost[o]
    BY <1>1 DEF PageHears, Send, policyVars, captureVars, boundVars
  <1>3. FlushOnFile(n) /\ FlushAnswered(n) /\ FlushAsked(n)
    BY DEF FlushesAccounted
  <1>4. /\ \A i : Generation(i)' = Generation(i)
        /\ \A o, g : Past(o, g)' <=> Past(o, g)
    BY <1>2 DEF Generation, Past, IsTarget, IsArmed
  <1>5. 1 \in DOMAIN s /\ m = s[1]
    BY <1>1
  <1>6. \A k \in DOMAIN t : /\ k \in Nat \ {0}
                            /\ k + 1 \in DOMAIN s
                            /\ 1 < k + 1
                            /\ t[k] = s[k + 1]
    BY <1>1, <1>2
  <1>7. \A i \in Elements(q.text) \cup Elements(q.held) :
           \/ i \in Elements(p.text) \cup Elements(p.held)
           \/ IsCapture(m) /\ i = m.item
    BY PageTakes
  <1> HIDE DEF s, t, m, p, q
  <1>8. ASSUME NEW g \in Nat, Settled(n, g)
        PROVE  /\ Settled(n, g)'
               /\ \A i \in Elements(q.text) : i \in Elements(p.text) \/ g < Generation(i)
    <2>1. IsCapture(m) => g < Generation(m.item)
      BY <1>5, <1>8 DEF Settled, s
    <2>2. \A i \in Elements(p.held) : g < Generation(i)
      BY <1>8 DEF Settled, p
    <2>3. \A i \in Elements(q.text) : i \in Elements(p.text) \/ g < Generation(i)
      BY <1>7, <2>1, <2>2
    <2>4. \A k \in DOMAIN t : IsCapture(t[k]) => g < Generation(t[k].item)
      BY <1>6, <1>8 DEF Settled, s
    <2>5. \A i \in Elements(q.held) : g < Generation(i)
      <3>1. \A i \in Elements(q.held) : i \in Elements(p.held) \/ (IsCapture(m) /\ i = m.item)
        <4>1. \/ q.held = p.held
              \/ q.held = <<>>
              \/ IsCapture(m) /\ q.held = Append(p.held, m.item)
          BY <1>1, PageHolds DEF p, q, m
        <4>2. ASSUME q.held = Append(p.held, m.item), IsCapture(m), NEW i \in Elements(q.held)
              PROVE  i \in Elements(p.held) \/ i = m.item
          <5>1. p.held \in Seq(Items)
            BY <1>1 DEF Pages, p
          <5>2. \A k \in DOMAIN Append(p.held, m.item) :
                   \/ k \in DOMAIN p.held /\ Append(p.held, m.item)[k] = p.held[k]
                   \/ Append(p.held, m.item)[k] = m.item
            BY <5>1
          <5>3. QED BY <4>2, <5>2 DEF Elements
        <4>3. Elements(<<>>) = {}
          BY NothingIsKept
        <4>4. QED BY <4>1, <4>2, <4>3
      <3>2. QED BY <2>1, <2>2, <3>1
    <2>6. Past(n, g)'
      BY <1>4, <1>8 DEF Settled
    <2>7. QED BY <1>4, <2>3, <2>4, <2>5, <2>6 DEF Settled, t, q
  <1>9. \/ toHost'[n] = toHost[n]
        \/ \E r \in Messages :
              /\ m.type = "request_flush"
              /\ r.flush = m.flush /\ r.text = p.text
              /\ q = p
              /\ toHost'[n] = Append(toHost[n], r)
    <2>1. CASE m.type = "request_flush"
      <3> DEFINE r == [Message("flush_response") EXCEPT !.flush = m.flush, !.text = p.text]
      <3>1. m.flush \in Flushes /\ p.text \in Seq(Items)
        BY <1>1 DEF Messages, Pages
      <3>2. Message("flush_response") \in Messages
        BY MessagesTyped DEF MessageTypes
      <3>3. r \in Messages
        BY <3>1, <3>2 DEF Messages
      <3>4. r.text = p.text /\ r.flush = m.flush
        BY DEF Message
      <3>5. toHost'[n] = Append(toHost[n], r) /\ q = p
        BY <1>1, <2>1 DEF PageHears, Send, m, p, q
      <3> HIDE DEF r
      <3>6. QED BY <2>1, <3>3, <3>4, <3>5
    <2>2. CASE m.type # "request_flush"
      BY <2>2 DEF PageHears, m
    <2>3. QED BY <2>1, <2>2
  <1>10. \A k \in DOMAIN toHost'[n] :
            \/ k \in DOMAIN toHost[n] /\ toHost'[n][k] = toHost[n][k]
            \/ /\ m.type = "request_flush"
               /\ toHost'[n][k].flush = m.flush /\ toHost'[n][k].text = p.text
               /\ q = p
               /\ \A l \in DOMAIN toHost'[n] : k <= l => l = k
    <2>1. toHost[n] \in Seq(Messages)
      BY <1>1
    <2>2. QED BY <1>9, <2>1
  <1>11. ASSUME NEW g \in Nat, Settled(n, g), NEW k \in Nat, Included(n, g, k)
         PROVE  Included(n, g, k)'
    <2>1. ASSUME NEW i \in Elements(q.text), Generation(i) <= g,
                 NEW l \in DOMAIN toHost'[n], k <= l, Carries(toHost'[n][l])
          PROVE  i \in Elements(toHost'[n][l].text)
      <3>1. i \in Elements(p.text)
        <4>1. i \in taken[n]
          <5>1. PageInOrder(n)'
            BY PageTakes
          <5>2. taken' = taken
            BY DEF PageHears, boundVars
          <5>3. QED BY <2>1, <5>1, <5>2 DEF PageInOrder, Kept, q
        <4>2. Generation(i) \in Nat
          BY <4>1 DEF Generation, ReadsInTurn, Sessions
        <4>3. QED BY <1>8, <1>11, <2>1, <4>2
      <3>2. CASE l \in DOMAIN toHost[n] /\ toHost'[n][l] = toHost[n][l]
        BY <1>11, <2>1, <3>1, <3>2 DEF Included, p
      <3>3. CASE toHost'[n][l].text = p.text
        BY <3>1, <3>3
      <3>4. QED BY <1>10, <3>2, <3>3
    <2>2. QED BY <1>4, <2>1 DEF Included, q
  <1>12. /\ flushed[n] \in Nat
         /\ \A k \in DOMAIN s : s[k].flush.generation \in Nat
         /\ \A k \in DOMAIN toHost'[n] : k \in Nat /\ toHost'[n][k].flush.generation \in Nat
    <2>1. \A r \in Messages : r.flush.generation \in Nat
      BY DEF Messages, Flushes
    <2>2. toHost'[n] \in Seq(Messages) /\ flushed[n] \in Nat
      BY DEF TypeOK, Grounds
    <2>3. QED BY <1>1, <2>1, <2>2
  <1>13. FlushOnFile(n)'
    <2>1. Settled(n, flushed[n])' /\ Included(n, flushed[n], 1)'
      <3>1. PICK g \in Nat : g = flushed[n]
        BY <1>12
      <3>2. Settled(n, g)' /\ Included(n, g, 1)'
        BY <1>3, <1>8, <1>11, <3>1 DEF FlushOnFile
      <3>3. g = flushed'[n]
        BY <1>2, <3>1
      <3>4. Settled(n, flushed[n])'
        BY <3>2, <3>3 DEF Settled, Past
      <3>5. Included(n, flushed[n], 1)'
        BY <3>2, <3>3 DEF Included
      <3>6. QED BY <3>4, <3>5
    <2>2. ASSUME NEW i \in Elements(q.text), Generation(i) <= flushed[n]
          PROVE  i \in Elements(file[n])
      <3>1. i \in taken[n]
        <4>1. PageInOrder(n)'
          BY PageTakes
        <4>2. taken' = taken
          BY DEF PageHears, boundVars
        <4>3. QED BY <2>2, <4>1, <4>2 DEF PageInOrder, Kept, q
      <3>2. Generation(i) \in Nat
        BY <3>1 DEF Generation, ReadsInTurn, Sessions
      <3>3. i \in Elements(p.text)
        BY <1>3, <1>8, <1>12, <2>2, <3>2 DEF FlushOnFile
      <3>4. QED BY <1>3, <2>2, <3>3 DEF FlushOnFile, p
    <2>3. QED BY <1>2, <1>4, <2>1, <2>2 DEF FlushOnFile, q
  <1>14. ASSUME NEW k \in DOMAIN toHost'[n], toHost'[n][k].type = "flush_response",
                NEW g \in Nat, g = toHost'[n][k].flush.generation
         PROVE  Settled(n, g)' /\ Included(n, g, k)'
    <2>1. CASE k \in DOMAIN toHost[n] /\ toHost'[n][k] = toHost[n][k]
      <3>1. Settled(n, g) /\ Included(n, g, k)
        BY <1>3, <1>14, <2>1 DEF FlushAnswered
      <3>2. QED BY <1>8, <1>11, <1>12, <3>1
    <2>2. CASE /\ m.type = "request_flush"
               /\ toHost'[n][k].flush = m.flush /\ toHost'[n][k].text = p.text
               /\ q = p
               /\ \A l \in DOMAIN toHost'[n] : k <= l => l = k
      <3>1. g = m.flush.generation
        BY <1>14, <2>2
      <3>2. Past(n, g)' /\ \A l \in DOMAIN s : 1 < l /\ IsCapture(s[l]) => g < Generation(s[l].item)
        BY <1>3, <1>4, <1>5, <2>2, <3>1 DEF FlushAsked, s
      <3>3. \A l \in DOMAIN t : IsCapture(t[l]) => g < Generation(t[l].item)
        BY <1>6, <3>2
      <3>4. Elements(p.held) = {}
        <4>1. p.frozen \in BOOLEAN
          BY <1>1 DEF Pages
        <4>2. ~StillAt(s, p.frozen, 1)
          BY <1>5, <2>2 DEF FlushesWhileFree, AskedWhileFree, s, p
        <4>3. ~p.frozen
          <5>1. \A i \in DOMAIN s : i \in Nat \ {0}
            BY <1>1
          <5>2. \A i \in DOMAIN s : ~(i < 1)
            BY <5>1
          <5>3. QED BY <4>1, <4>2, <5>2 DEF StillAt, Before
        <4>4. p.held = <<>>
          BY <4>3 DEF CapturesInOrder, PageInOrder, p
        <4>5. QED BY <4>4, NothingIsKept
      <3>5. Settled(n, g)'
        BY <1>4, <2>2, <3>2, <3>3, <3>4 DEF Settled, q, p, t
      <3>6. Included(n, g, k)'
        BY <1>14, <2>2 DEF Included, q, p
      <3>7. QED BY <3>5, <3>6
    <2>3. QED BY <1>10, <2>1, <2>2
  <1>15. FlushAnswered(n)'
    <2>1. ASSUME NEW k \in DOMAIN toHost'[n], toHost'[n][k].type = "flush_response"
          PROVE  /\ Settled(n, toHost[n][k].flush.generation)'
                 /\ Included(n, toHost[n][k].flush.generation, k)'
      <3>1. PICK g \in Nat : g = toHost'[n][k].flush.generation
        BY <1>12
      <3>2. Settled(n, g)' /\ Included(n, g, k)'
        BY <1>14, <2>1, <3>1
      <3>3. Settled(n, toHost[n][k].flush.generation)'
        BY <3>1, <3>2 DEF Settled, Past
      <3>4. Included(n, toHost[n][k].flush.generation, k)'
        BY <3>1, <3>2 DEF Included
      <3>5. QED BY <3>3, <3>4
    <2>2. QED BY <2>1 DEF FlushAnswered
  <1>16. FlushAsked(n)'
    <2>1. ASSUME NEW k \in DOMAIN t, t[k].type = "request_flush"
          PROVE  /\ Past(n, toPage[n][k].flush.generation)'
                 /\ \A l \in DOMAIN t : k < l /\ IsCapture(t[l])
                        => t[k].flush.generation < Generation(t[l].item)
      <3>1. PICK g \in Nat : g = t[k].flush.generation
        BY <1>6, <1>12
      <3>2. g = s[k + 1].flush.generation /\ Past(n, g)
        BY <1>3, <1>6, <2>1, <3>1 DEF FlushAsked, s
      <3>3. Past(n, toPage[n][k].flush.generation)'
        BY <1>4, <3>1, <3>2 DEF Past, t
      <3>4. \A l \in DOMAIN t : k < l => k + 1 < l + 1 /\ l + 1 \in DOMAIN s /\ t[l] = s[l + 1]
        BY <1>6
      <3>5. QED BY <1>3, <1>6, <2>1, <3>3, <3>4 DEF FlushAsked, s
    <2>2. QED BY <1>4, <2>1 DEF FlushAsked, t
  <1>17. ASSUME NEW o \in Notes, o # n
         PROVE  FlushOnFile(o)' /\ FlushAnswered(o)' /\ FlushAsked(o)'
    <2>1. FlushOnFile(o) /\ FlushAnswered(o) /\ FlushAsked(o)
      BY DEF FlushesAccounted
    <2>2. toPage'[o] = toPage[o] /\ page'[o] = page[o] /\ toHost'[o] = toHost[o]
             /\ file'[o] = file[o] /\ flushed'[o] = flushed[o]
      BY <1>2, <1>17
    <2>3. \A g : (Settled(o, g) => Settled(o, g)') /\ \A k : Included(o, g, k) => Included(o, g, k)'
      BY <1>4, <2>2 DEF Settled, Included
    <2>4. QED
      BY <1>2, <1>4, <2>1, <2>2
      DEF FlushOnFile, FlushAnswered, FlushAsked, Settled, Included, Past, IsTarget, IsArmed
  <1>18. QED BY <1>13, <1>15, <1>16, <1>17 DEF FlushesAccounted

LEMMA ReadAccountsFlushes ==
    ASSUME Grounds, SessionsAccounted, FlushesAccounted, NEW r \in reads, FinishClipboardRead(r)
    PROVE  FlushesAccounted'
  <1> SUFFICES ASSUME NEW n \in Notes
               PROVE  FlushOnFile(n)' /\ FlushAnswered(n)' /\ FlushAsked(n)'
    BY DEF FlushesAccounted
  <1> DEFINE m == Captured(r.item)
             s == toPage[n]
             t == toPage'[n]
  <1>1. FlushOnFile(n) /\ FlushAnswered(n) /\ FlushAsked(n)
    BY DEF FlushesAccounted
  <1>2. UNCHANGED <<armed, nextGeneration, copies, page, file, flushed, toHost>>
    BY DEF FinishClipboardRead, FinishRead
  <1>3. /\ m \in Messages /\ m.item = r.item /\ m.type = "auto_paste_captured"
        /\ s \in Seq(Messages)
    BY MessagesTyped DEF Grounds, TypeOK, Reads, Captured, Message
  <1> HIDE DEF m
  <1>4. t = s \/ (t = Append(s, m) /\ IsTarget(n) /\ Accepts(r.session))
    BY DEF FinishClipboardRead, m
  <1>5. /\ \A i : Generation(i)' = Generation(i)
        /\ \A o, g : Past(o, g)' <=> Past(o, g)
    BY <1>2 DEF Generation, Past, IsTarget, IsArmed
  <1>6. t = s \/ (IsTarget(n) /\ Generation(r.item) = armed.generation)
    <2>1. copies[r.item].session = r.session
      BY DEF SessionsAccounted
    <2>2. QED BY <1>4, <2>1 DEF Accepts, Generation
  <1> HIDE DEF s, t
  <1>7. \A k \in DOMAIN t : \/ k \in DOMAIN s /\ t[k] = s[k]
                            \/ /\ t # s
                               /\ t[k] = m
                               /\ \A l \in DOMAIN t : ~(k < l)
    BY <1>3, <1>4
  <1>8. \A g : Past(n, g) => t = s \/ g < Generation(m.item)
    BY <1>3, <1>6 DEF Past
  <1>9. \A g : Settled(n, g) => Settled(n, g)'
    <2> SUFFICES ASSUME NEW g, Settled(n, g)
                 PROVE  /\ \A k \in DOMAIN t : IsCapture(t[k]) => g < Generation(t[k].item)
                        /\ Past(n, g)
      BY <1>2, <1>5 DEF Settled, t
    <2>1. QED BY <1>7, <1>8 DEF Settled, s
  <1>10. FlushAsked(n)'
    <2>1. ASSUME NEW k \in DOMAIN t, t[k].type = "request_flush"
          PROVE  /\ Past(n, t[k].flush.generation)
                 /\ \A l \in DOMAIN t : k < l /\ IsCapture(t[l])
                        => t[k].flush.generation < Generation(t[l].item)
      <3>1. k \in DOMAIN s /\ t[k] = s[k]
        BY <1>3, <1>7, <2>1
      <3>2. Past(n, t[k].flush.generation)
        BY <1>1, <2>1, <3>1 DEF FlushAsked, s
      <3>3. ASSUME NEW l \in DOMAIN t, k < l, IsCapture(t[l])
            PROVE  t[k].flush.generation < Generation(t[l].item)
        <4>1. CASE l \in DOMAIN s /\ t[l] = s[l]
          BY <1>1, <2>1, <3>1, <3>3, <4>1 DEF FlushAsked, s
        <4>2. CASE t # s /\ t[l] = m
          BY <1>8, <3>2, <4>2
        <4>3. QED BY <1>7, <4>1, <4>2
      <3>4. QED BY <3>2, <3>3
    <2>2. QED BY <1>2, <1>5, <2>1 DEF FlushAsked, Past, IsTarget, IsArmed, t
  <1>11. FlushOnFile(n)' /\ FlushAnswered(n)'
    BY <1>1, <1>2, <1>5, <1>9
    DEF FlushOnFile, FlushAnswered, Settled, Included, Past, IsTarget, IsArmed
  <1>12. QED BY <1>10, <1>11

LEMMA CopyAccountsFlushes ==
    ASSUME Grounds, ReadsInTurn, CapturesInOrder, FlushesAccounted,
           NEW kind \in Kinds, Copy(kind)
    PROVE  FlushesAccounted'
  <1>1. UNCHANGED <<armed, nextGeneration, page, file, flushed, toPage, toHost>>
    BY DEF Copy, Observe, policyVars, windowVars, boundVars
  <1>2. ASSUME NEW n \in Notes, NEW i \in taken[n] PROVE Generation(i)' = Generation(i)
    <2> DEFINE copy == [session |-> armed, kind |-> kind]
    <2>1. copies \in Seq(Copies) /\ copy \in Copies /\ i \in Nat \ {0}
      BY DEF Grounds, TypeOK, PolicyTypeOK, Copies, Items
    <2>2. copies' = Append(copies, copy) /\ i <= Len(copies)
      BY DEF Copy, ReadsInTurn
    <2>3. copies'[i] = copies[i]
      BY <2>1, <2>2
    <2>4. QED BY <2>3 DEF Generation
  <1>3. ASSUME NEW n \in Notes PROVE FlushOnFile(n)' /\ FlushAnswered(n)' /\ FlushAsked(n)'
    <2>1. /\ FlushOnFile(n) /\ FlushAnswered(n) /\ FlushAsked(n)
          /\ PageInOrder(n) /\ ComingInOrder(n)
      BY DEF FlushesAccounted, CapturesInOrder
    <2>2. /\ \A i \in Elements(page[n].text) \cup Elements(page[n].held) :
                Generation(i)' = Generation(i)
          /\ \A k \in DOMAIN toPage[n] : IsCapture(toPage[n][k]) =>
                Generation(toPage[n][k].item)' = Generation(toPage[n][k].item)
      BY <1>1, <1>2, <2>1 DEF PageInOrder, Kept, ComingInOrder, Generation
    <2>3. \A g : Past(n, g)' <=> Past(n, g)
      BY <1>1 DEF Past, IsTarget, IsArmed
    <2>4. \A g : Settled(n, g) => Settled(n, g)'
      BY <1>1, <2>2, <2>3 DEF Settled, Generation
    <2>5. \A g, k : Included(n, g, k) => Included(n, g, k)'
      BY <1>1, <2>2 DEF Included
    <2>6. FlushOnFile(n)'
      BY <1>1, <2>1, <2>2, <2>4, <2>5
      DEF FlushOnFile, Settled, Included, Past, IsTarget, IsArmed, Generation
    <2>7. FlushAnswered(n)'
      BY <1>1, <2>1, <2>2, <2>4, <2>5
      DEF FlushAnswered, Settled, Included, Past, IsTarget, IsArmed, Generation
    <2>8. FlushAsked(n)'
      BY <1>1, <2>1, <2>2 DEF FlushAsked, Past, IsTarget, IsArmed, Generation
    <2>9. QED BY <2>6, <2>7, <2>8
  <1>4. QED BY <1>3 DEF FlushesAccounted

LEMMA AskAccountsFlushes ==
    ASSUME Grounds, FlushesAccounted, NEW n \in Notes, Asks(n)
    PROVE  FlushesAccounted'
  <1>1. UNCHANGED <<armed, nextGeneration, copies, page, file, flushed, toPage>>
    BY DEF Asks, policyVars, captureVars
  <1>2. PICK m \in Messages : /\ Send(n, m)
                              /\ m.type # "flush_response"
                              /\ Carries(m) => m.text = page[n].text
    BY DEF Asks, Carries
  <1>3. /\ \A i : Generation(i)' = Generation(i)
        /\ \A o, g : Past(o, g)' <=> Past(o, g)
    BY <1>1 DEF Generation, Past, IsTarget, IsArmed
  <1>4. \A o, g : Settled(o, g) => Settled(o, g)'
    BY <1>1, <1>3 DEF Settled
  <1>5. ASSUME NEW o \in Notes PROVE FlushOnFile(o)' /\ FlushAnswered(o)' /\ FlushAsked(o)'
    <2>1. FlushOnFile(o) /\ FlushAnswered(o) /\ FlushAsked(o)
      BY DEF FlushesAccounted
    <2>2. toHost[o] \in Seq(Messages)
      BY DEF Grounds, TypeOK
    <2>3. toHost'[o] = toHost[o] \/ (o = n /\ toHost'[o] = Append(toHost[o], m))
      BY <1>2 DEF Send, Grounds, TypeOK
    <2>4. \A k \in DOMAIN toHost'[o] : \/ k \in DOMAIN toHost[o] /\ toHost'[o][k] = toHost[o][k]
                                       \/ o = n /\ toHost'[o][k] = m
      BY <2>2, <2>3
    <2>5. \A g, k : Included(o, g, k) => Included(o, g, k)'
      BY <1>1, <1>2, <1>3, <2>4 DEF Included
    <2>6. FlushOnFile(o)'
      BY <1>1, <1>3, <1>4, <2>1, <2>5
      DEF FlushOnFile, Settled, Included, Past, IsTarget, IsArmed
    <2>7. FlushAnswered(o)'
      <3>1. ASSUME NEW k \in DOMAIN toHost'[o], toHost'[o][k].type = "flush_response"
            PROVE  /\ k \in DOMAIN toHost[o] /\ toHost'[o][k] = toHost[o][k]
                   /\ Settled(o, toHost[o][k].flush.generation)
                   /\ Included(o, toHost[o][k].flush.generation, k)
        BY <1>2, <2>1, <2>4, <3>1 DEF FlushAnswered
      <3>2. QED
        BY <1>1, <1>4, <2>5, <3>1
        DEF FlushAnswered, Settled, Included, Past, IsTarget, IsArmed
    <2>8. FlushAsked(o)'
      BY <1>1, <1>3, <2>1 DEF FlushAsked, Past, IsTarget, IsArmed
    <2>9. QED BY <2>6, <2>7, <2>8
  <1>6. QED BY <1>5 DEF FlushesAccounted

LEMMA OpeningAccountsFlushes ==
    ASSUME Grounds, ReadsInTurn, CapturesInOrder, FlushesAccounted,
           NEW n \in Notes, OpenWindow(n)
    PROVE  FlushesAccounted'
  <1>1. /\ UNCHANGED <<armed, nextGeneration, copies, file, toPage, toHost>>
        /\ page'[n] = PageOf(file[n]) /\ flushed'[n] = 0
        /\ n \notin window
        /\ \A o \in Notes : o # n => page'[o] = page[o] /\ flushed'[o] = flushed[o]
    BY DEF OpenWindow, policyVars, captureVars, Grounds, TypeOK
  <1>2. toPage[n] = <<>> /\ toHost[n] = <<>>
    BY <1>1 DEF Grounds, ClosedIsSilent
  <1>3. page'[n].text = file[n] /\ page'[n].held = <<>>
    BY <1>1 DEF PageOf
  <1>4. /\ \A i : Generation(i)' = Generation(i)
        /\ \A o, g : Past(o, g)' <=> Past(o, g)
    BY <1>1 DEF Generation, Past, IsTarget, IsArmed
  <1>5. Past(n, 0)
    <2>1. nextGeneration \in Nat /\ armed \in Sessions \cup {NotArmed}
      BY DEF Grounds, TypeOK, PolicyTypeOK
    <2>2. QED BY <2>1 DEF Past, IsTarget, IsArmed, Sessions
  <1>6. DOMAIN <<>> = {} /\ Elements(<<>>) = {}
    BY NothingIsKept
  <1>7. FlushOnFile(n)' /\ FlushAnswered(n)' /\ FlushAsked(n)'
    BY <1>1, <1>2, <1>3, <1>4, <1>5, <1>6
    DEF FlushOnFile, FlushAnswered, FlushAsked, Settled, Included, Past, IsTarget, IsArmed
  <1>8. ASSUME NEW o \in Notes, o # n PROVE FlushOnFile(o)' /\ FlushAnswered(o)' /\ FlushAsked(o)'
    <2>1. FlushOnFile(o) /\ FlushAnswered(o) /\ FlushAsked(o)
      BY DEF FlushesAccounted
    <2>2. QED
      BY <1>1, <1>4, <1>8, <2>1
      DEF FlushOnFile, FlushAnswered, FlushAsked, Settled, Included, Past, IsTarget, IsArmed
  <1>9. QED BY <1>7, <1>8 DEF FlushesAccounted

LEMMA FlushesStayAccounted ==
    ASSUME Grounds, TypeOK', SessionsAccounted, ReadsInTurn, CapturesInOrder, FlushesWhileFree,
           FlushesAccounted, [Next]_vars
    PROVE  FlushesAccounted'
  <1>1. ASSUME UNCHANGED vars PROVE FlushesAccounted'
    BY <1>1
    DEF vars, policyVars, captureVars, windowVars, boundVars, FlushesAccounted, FlushOnFile,
        FlushAnswered, FlushAsked, Settled, Included, Past, Generation, IsTarget, IsArmed
  <1>2. QED
    BY <1>1, EveryStep, TurnAccountsFlushes, PageAccountsFlushes, ReadAccountsFlushes,
       CopyAccountsFlushes, AskAccountsFlushes, OpeningAccountsFlushes

LEMMA FlushesCover ==
    ASSUME Grounds, ReadsInTurn, CapturesInOrder, FlushesAccounted
    PROVE  FlushCoversCaptures
  <1> SUFFICES ASSUME NEW n \in Notes, NEW i \in Elements(page[n].text) \cup Coming(n),
                      copies[i].session.generation <= flushed[n]
               PROVE  i \in Elements(file[n])
    BY DEF FlushCoversCaptures, Grounds, TypeOK
  <1>1. FlushOnFile(n) /\ PageInOrder(n) /\ ComingInOrder(n)
    BY DEF FlushesAccounted, CapturesInOrder
  <1>2. i \in Elements(page[n].text)
           \/ i \in Elements(page[n].held)
           \/ \E k \in DOMAIN toPage[n] : IsCapture(toPage[n][k]) /\ i = toPage[n][k].item
    BY DEF Coming, IsCapture
  <1>3. i \in taken[n]
    BY <1>1, <1>2 DEF PageInOrder, Kept, ComingInOrder
  <1>4. Generation(i) \in Nat /\ flushed[n] \in Nat /\ Generation(i) <= flushed[n]
    BY <1>3 DEF Generation, ReadsInTurn, Sessions, Grounds, TypeOK
  <1>5. i \in Elements(page[n].text)
    BY <1>1, <1>2, <1>4 DEF FlushOnFile, Settled
  <1>6. QED BY <1>1, <1>4, <1>5 DEF FlushOnFile

(* Once the answer to a flush is saved, whatever the sessions up to then   *)
(* handed to the page is on file: the mode is switched off before the      *)
(* flush is asked for, and not after it.                                   *)
THEOREM FlushAlwaysCoversCaptures == Spec => []FlushCoversCaptures
  <1>1. Init => FlushesWhileFree
    <2> SUFFICES ASSUME Init, NEW n \in Notes
                 PROVE  /\ AskedWhileFree(toPage[n], page[n].frozen)
                        /\ ~StillAt(toPage[n], page[n].frozen, Len(toPage[n]) + 1)
      BY DEF FlushesWhileFree
    <2>1. page[n].frozen = FALSE /\ DOMAIN toPage[n] = {}
      BY DEF Init, PageOf
    <2>2. QED BY <2>1 DEF AskedWhileFree, StillAt, Before
  <1>2. ASSUME Init, NEW n \in Notes PROVE FlushOnFile(n) /\ FlushAnswered(n) /\ FlushAsked(n)
    <2>1. /\ page[n].text = <<>> /\ page[n].held = <<>> /\ toPage[n] = <<>> /\ toHost[n] = <<>>
          /\ flushed[n] = 0 /\ nextGeneration = 0 /\ ~IsArmed
      BY <1>2 DEF Init, PolicyInit, PageOf, IsArmed
    <2>2. DOMAIN <<>> = {} /\ Elements(<<>>) = {}
      BY NothingIsKept
    <2>3. QED
      BY <2>1, <2>2
      DEF FlushOnFile, FlushAnswered, FlushAsked, Settled, Included, Past, IsTarget
  <1>3. Init => FlushesAccounted
    BY <1>2 DEF FlushesAccounted
  <1>4. Grounds /\ FlushesWhileFree /\ [Next]_vars => FlushesWhileFree'
    BY FlushesStayFree
  <1>5. Grounds /\ Grounds' /\ SessionsAccounted /\ ReadsInTurn /\ CapturesInOrder
           /\ FlushesWhileFree /\ FlushesAccounted /\ [Next]_vars => FlushesAccounted'
    BY FlushesStayAccounted DEF Grounds
  <1>6. Grounds /\ ReadsInTurn /\ CapturesInOrder /\ FlushesAccounted => FlushCoversCaptures
    BY FlushesCover
  <1>7. QED
    BY <1>1, <1>3, <1>4, <1>5, <1>6, AlwaysGrounded, SessionsAlwaysAccounted, AlwaysInOrder, PTL
    DEF Spec
=============================================================================
