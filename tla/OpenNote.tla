------------------------------- MODULE OpenNote -------------------------------
(***************************************************************************)
(* A note that is open while other processes write it: the page, the host  *)
(* and the write authority together, with what may go wrong between them.  *)
(***************************************************************************)
EXTENDS DesktopWrites

Init == WindowInit

(* The reader can only act on a window that is on the screen.              *)
ReaderActs(n) ==
    /\ win[n] # "none"
    /\ \/ Type(n)
       \/ DeferEdit(n)
       \/ SaveAndClose(n)
       \/ doc[n].look < MaxLooks /\ ChangePaper(n)
    /\ UNCHANGED <<lifecycleVars, hostVars>>

PageWorks(n) ==
    /\ PageHears(n) \/ Autosave(n)
    /\ UNCHANGED <<lifecycleVars, hostVars>>

PageGrowsSlow(n) ==
    /\ SlowNotice(n)
    /\ UNCHANGED <<lifecycleVars, hostVars>>

HostHears(n) ==
    \/ Ready(n)
    \/ ContentChanged(n)
    \/ PaperChanged(n)
    \/ SaveAndCloseAsked(n)
    \/ FlushResponse(n)
    \/ SnapshotReady(n)
    \/ ApplyAnswered(n)

TimerFires(n) == ExpireFlush(n) \/ SnapshotTimeout(n) \/ AckTimeout(n)

AuthorityWorks(n) ==
    \/ MutateDirectly(n)
    \/ DiscardDirectly(n)
    \/ AskSnapshot(n)
    \/ ResumeMutation(n)
    \/ ResumeDiscard(n)
    \/ FinishWrite(n)

SomebodyAsks(n) ==
    \/ OpenWindow(n)
    \/ TrashNote(n)
    \/ \E kind \in Kinds : Submit(n, kind)

Next ==
    \/ \E n \in Notes :
          \/ ReaderActs(n)
          \/ PageWorks(n)
          \/ PageGrowsSlow(n)
          \/ HostHears(n)
          \/ TimerFires(n)
          \/ AuthorityWorks(n)
          \/ SomebodyAsks(n)
          \/ DeliveryFails(n)
    \/ \E operation \in LifecycleOperation : StartFlushAll(operation)

Spec == Init /\ [][Next]_vars

(* What is bound to happen: the page and the main loop take their          *)
(* messages, timers run out, a woken coroutine runs.  Nobody is bound to   *)
(* type, click or ask, and no fault is bound to occur.                     *)
Fairness ==
    \A n \in Notes :
        /\ WF_vars(PageWorks(n))
        /\ WF_vars(HostHears(n))
        /\ WF_vars(TimerFires(n))
        /\ WF_vars(AuthorityWorks(n))

FairSpec == Spec /\ Fairness

-----------------------------------------------------------------------------
(* The document the host keeps in memory describes the file at every turn: *)
(* comparing against it is what lets save_content answer "already saved"   *)
(* (note_window.rs, commit_once_written), so a failed, refused or external *)
(* write may never leave the two apart.                                    *)
HostDescribesFile ==
    \A n \in Notes : win[n] # "none" => doc[n] = file[n]

(* A page that can be edited is on the generation the host is on.          *)
(* Otherwise every save it makes is refused and the reader types for       *)
(* nothing (ADR-040: the page moves its generation only by adopting, and   *)
(* is only thawed by adopting or by an abort before the commit).           *)
EditablePageIsCurrent ==
    \A n \in Notes :
        win[n] # "none" /\ page[n].phase = "idle" => page[n].gen = hostGen[n]

(* What a committed external write put in a note stays there: no autosave, *)
(* flush or close composed against the text before it puts that text back. *)
CommittedWriteStands ==
    \A n \in Notes : written[n] \subseteq file[n].body

(* What the reader made is in the editor, or held to run when it is freed: *)
(* the external write folds it in, adopts around it or leaves it alone.    *)
TypedTextKept ==
    \A n \in Notes :
        win[n] # "none" /\ Holds(n) =>
            typed[n] \subseteq page[n].text \cup Inserted(page[n].queue)

(* A client told that nothing was changed may repeat its request: its text *)
(* is in no note, then or later.  A snapshot that arrives after the host   *)
(* gave up is not committed.                                               *)
RefusedNeverLands ==
    \A n \in Notes : refused \cap file[n].body = {}

(* Hiding and quitting never overlap an external write: while one runs the *)
(* other is refused, whichever came first.                                 *)
LifecycleExclusion ==
    active # NoOperation =>
        /\ externalWrites = 0
        /\ \A n \in Notes : ~HeldByTask(n)

(* What a page answered to a flush, or to the close that closes it, is on  *)
(* file when its window closes, whichever of the closes, hides, quits,     *)
(* trashes and discards closes it and whatever failed on the way: an       *)
(* answer that could not be saved keeps every window of its operation      *)
(* (save_and_close, FlushBatch::record).                                   *)
SavedBeforeClosed ==
    [][\A n \in Notes :
          win[n] # "none" /\ win'[n] = "none" => reported'[n] \subseteq file'[n].body]_vars

(* An appearance change is never reverted by a write whose base was read   *)
(* before it: the base is read after the await.                            *)
AppearanceKept ==
    [][\A n \in Notes : file'[n].look >= file[n].look]_vars

(* A conditional discard takes away exactly the note its caller had read:  *)
(* neither the file nor the text in the editor may have moved on.          *)
DiscardTakesWhatWasRead ==
    [][\A n \in Notes :
          /\ task.note = n /\ task.kind = "discard" /\ task.stage # "idle"
          /\ task'.stage = "idle"
          /\ n \in live /\ n \notin live'
          => /\ file[n] = task.expected
             /\ page[n].phase \in {"syncing", "slow"} =>
                    page[n].text = task.expected.body]_vars

(* Every claim on the coordinator is given back, whatever became of the    *)
(* write or the flush that took it; the application stays able to hide and *)
(* quit.                                                                   *)
ClaimsReleased ==
    /\ externalWrites > 0 ~> externalWrites = 0
    /\ active # NoOperation ~> active = NoOperation

(* Every request the authority took is answered while the application      *)
(* runs, whatever page, disk or delivery did: quitting is what leaves a    *)
(* client without an answer.                                               *)
RequestAnswered == task.stage # "idle" ~> task.stage = "idle" \/ ~running

TypeOK == WindowTypeOK

-----------------------------------------------------------------------------
(* What the proofs of the properties above rest on.                        *)

(* The coordinator counts the request the authority is holding a note for, *)
(* and what a window waits for is what that request asked.                 *)
ClaimsAccounted ==
    /\ externalWrites = IF task.stage \in HeldStages THEN 1 ELSE 0
    /\ active # NoOperation => externalWrites = 0
    /\ \A n \in Notes :
          /\ pendingWrite[n] # NoRequest => task.note = n /\ task.stage = "snapshot"
          /\ pendingAck[n] # NoRequest => task.note = n /\ task.stage = "ack"

(* A page is there exactly while its window is, or while the authority     *)
(* holds it; only a page that is there is spoken to; and the document the  *)
(* host keeps for it describes the file.                                   *)
PagesAccounted ==
    \A n \in Notes :
        LET present == page[n].phase # "absent" IN
        /\ present <=> win[n] # "none" \/ HeldByTask(n)
        /\ ~present => toHost[n] = <<>> /\ toPage[n] = <<>>
        /\ present => doc[n] = file[n]
=============================================================================
