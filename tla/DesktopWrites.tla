---------------------------- MODULE DesktopWrites ----------------------------
(***************************************************************************)
(* The write authority inside the desktop process: what                    *)
(* src/src/write_authority.rs does with one operation of another process.  *)
(* The control server hands it one request at a time.  A request on an     *)
(* open note is suspended twice, for the snapshot and for the page's       *)
(* acknowledgement, and anything else may run at those two points.         *)
(***************************************************************************)
EXTENDS NoteWindow

(* Mutant: the base as it was when the request was made. *)
Mutant_BaseReadEarly(n, text) == [task.expected EXCEPT !.body = text]

(* Mutant: the base without the text in the editor. *)
Mutant_BaseWithoutEditor(n, text) == doc[n]

(* The document as it really is: what the host committed last with the     *)
(* editor's text put back in.  Read after the await, never before it.      *)
LiveBase(n, text) == [doc[n] EXCEPT !.body = text]

(* write::apply; "noop" answers that nothing changes.                      *)
Mutated(t, base) ==
    IF t.kind = "append" THEN [base EXCEPT !.body = @ \cup {t.mark}]
    ELSE IF t.kind = "replace" THEN [base EXCEPT !.body = {t.mark}]
    ELSE base

(* ensure_revision_matches: a revision is the digest of the whole document. *)
RevisionMatches(t, base) == Conditional(t) => base = t.expected

Finished == task' = NoTask
Refuse == refused' = refused \cup ({task.mark} \ {0})

(* History: what a committed mutation leaves of the marks known for n.     *)
Recorded(n) ==
    /\ written' = [written EXCEPT ![n] =
                      IF task.kind = "append" THEN @ \cup {task.mark}
                      ELSE IF task.kind = "replace" THEN {task.mark} ELSE @]
    /\ typed' = IF task.kind = "replace" THEN [typed EXCEPT ![n] = {}] ELSE typed
    /\ reported' = IF task.kind = "replace" THEN [reported EXCEPT ![n] = {}] ELSE reported

(* A client sends a request, built on the note as the file has it now.     *)
(* Bound: one request at a time, as the serve loop takes them.             *)
Submit(n, kind) ==
    /\ running
    /\ IsIdle(task)
    /\ kind \in {"append", "replace"} => nextMark \in Marks
    /\ nextMark' = IF kind \in {"append", "replace"} THEN nextMark + 1 ELSE nextMark
    /\ NewRequest
    /\ task' = [NoTask EXCEPT !.stage    = "queued",
                              !.note     = n,
                              !.kind     = kind,
                              !.mark     = IF kind \in {"append", "replace"} THEN nextMark ELSE 0,
                              !.expected = file[n],
                              !.req      = nextReq]
    /\ UNCHANGED <<page, toPage, toHost, typed, lifecycleVars, file, live, trashed, win, doc,
                   hostGen, pendingWrite, pendingAck, flushes, batch, running, reported, written, refused>>

Unanswered == <<page, toPage, toHost, nextMark, win, pendingWrite, pendingAck, flushes,
                batch, nextReq, running>>

(* No window, or a page that has not loaded: nothing holds unsaved text    *)
(* and the mutation is applied in this turn, to the file or to the         *)
(* document the page will be handed.                                       *)
MutateDirectly(n) ==
    /\ running
    /\ task.stage = "queued" /\ task.note = n /\ task.kind # "discard"
    /\ win[n] # "loaded"
    /\ LET base == IF win[n] = "none" THEN file[n] ELSE doc[n]
           candidate == Mutated(task, base)
           allowed == n \in live /\ RevisionMatches(task, base)
       IN \/ /\ ~allowed
             /\ Refuse
             /\ UNCHANGED <<typed, file, live, doc, hostGen, reported, written>>
          \/ /\ allowed /\ candidate = base
             /\ UNCHANGED <<typed, file, live, doc, hostGen, reported, written, refused>>
          \/ /\ allowed /\ candidate # base
             /\ \E ok \in Outcomes :
                   /\ SaveDocument(n, candidate, ok)
                   /\ IF ok
                      THEN /\ Recorded(n)
                           /\ UNCHANGED refused
                      ELSE /\ Refuse
                           /\ UNCHANGED <<typed, reported, written>>
                   /\ IF ok /\ win[n] = "loading"
                      THEN /\ doc' = [doc EXCEPT ![n] = candidate]
                           /\ hostGen' = [hostGen EXCEPT ![n] = @ + 1]
                      ELSE UNCHANGED <<doc, hostGen>>
    /\ Finished
    /\ UNCHANGED <<Unanswered, lifecycleVars, trashed>>

(* A loaded page: claim the coordinator, ask the page to hold still.       *)
AskSnapshot(n) ==
    /\ running
    /\ task.stage = "queued" /\ task.note = n
    /\ win[n] = "loaded"
    /\ IF n \in live /\ ExternalWriteAllowed
       THEN /\ BeginExternalWrite
            /\ pendingWrite' = [pendingWrite EXCEPT ![n] = task.req]
            /\ toPage' = [toPage EXCEPT ![n] =
                  Append(@, Message("begin_external_write", task.req, hostGen[n], {}))]
            /\ task' = [task EXCEPT !.stage = "snapshot"]
            /\ UNCHANGED refused
       ELSE /\ Finished
            /\ Refuse
            /\ UNCHANGED <<lifecycleVars, pendingWrite, toPage>>
    /\ UNCHANGED <<page, toHost, nextMark, typed, file, live, trashed, win, doc, hostGen,
                   pendingAck, flushes, batch, nextReq, running, reported, written>>

(* A discard of a note whose text no page holds: one turn from the claim   *)
(* to its release.                                                         *)
DiscardDirectly(n) ==
    /\ running
    /\ task.stage = "queued" /\ task.note = n /\ task.kind = "discard"
    /\ win[n] # "loaded"
    /\ LET base == IF win[n] = "none" THEN file[n] ELSE doc[n]
           valid == /\ ExternalWriteAllowed
                    /\ n \in live
                    /\ base = task.expected
                    /\ file[n] = task.expected
       IN \E moves \in Outcomes :
             /\ CommitTrash(n, live, valid /\ moves)
             /\ Turn({}, IF trashed' # trashed THEN {n} ELSE {}, Silence)
    /\ Finished
    /\ UNCHANGED <<nextMark, typed, lifecycleVars, file, doc, hostGen, pendingWrite,
                   pendingAck, flushes, batch, nextReq, running, reported, written, refused>>

-----------------------------------------------------------------------------
(* The two ways the first await ends.                                      *)

(* settle_external_write: the answer counts only if it quotes the run of   *)
(* the document the window is on and names the request being waited for.   *)
SnapshotReady(n) ==
    /\ Hears(n, "external_write_ready")
    /\ LET m == Head(toHost[n]) IN
       IF /\ AcceptsGeneration(n, m.gen)
          /\ pendingWrite[n] # NoRequest
          /\ pendingWrite[n] = m.req
       THEN /\ pendingWrite' = [pendingWrite EXCEPT ![n] = NoRequest]
            /\ task' = [task EXCEPT !.stage = "resumed", !.text = m.text, !.ok = TRUE]
       ELSE UNCHANGED <<pendingWrite, task>>
    /\ Turn({n}, {}, Silence)
    /\ UNCHANGED <<nextMark, typed, lifecycleVars, file, live, trashed, doc, hostGen,
                   pendingAck, flushes, batch, nextReq, running, reported, written, refused>>

(* Mutant: the timeout forgets the request without waking the coroutine. *)
Mutant_TimeoutWakesNobody(n) ==
    /\ pendingWrite[n] # NoRequest
    /\ pendingWrite' = [pendingWrite EXCEPT ![n] = NoRequest]
    /\ Turn({}, {}, Tell(n, Message("abort_external_write", pendingWrite[n], 0, {})))
    /\ UNCHANGED <<nextMark, typed, lifecycleVars, file, live, trashed, doc, hostGen, task,
                   pendingAck, flushes, batch, nextReq, running, reported, written, refused>>

(* EXTERNAL_WRITE_TIMEOUT: the host stops waiting and lets the page go.    *)
SnapshotTimeout(n) ==
    /\ pendingWrite[n] # NoRequest
    /\ pendingWrite' = [pendingWrite EXCEPT ![n] = NoRequest]
    /\ task' = [task EXCEPT !.stage = "resumed", !.ok = FALSE]
    /\ Turn({}, {}, Tell(n, Message("abort_external_write", pendingWrite[n], 0, {})))
    /\ UNCHANGED <<nextMark, typed, lifecycleVars, file, live, trashed, doc, hostGen,
                   pendingAck, flushes, batch, nextReq, running, reported, written, refused>>

-----------------------------------------------------------------------------
(* After the first await: validate, apply and commit without another one.  *)

AbortWrite(n) == Message("abort_external_write", task.req, 0, {})

(* The coroutine ends and drops its clone of the window: a window that is  *)
(* closed by now takes its page with it, any other hears told.             *)
LetGo(n, closes, told) ==
    LET gone == closes \/ win[n] = "none" IN
    /\ win' = [win EXCEPT ![n] = IF closes THEN "none" ELSE @]
    /\ page' = [page EXCEPT ![n] = IF gone THEN PageIn("absent") ELSE @]
    /\ toHost' = [toHost EXCEPT ![n] = IF gone THEN <<>> ELSE @]
    /\ toPage' = [toPage EXCEPT ![n] = IF gone THEN <<>> ELSE @ \o told]

(* Mutant: the claim is kept on the way out. *)
Mutant_GiveUpKeepsClaim(n, tells) ==
    /\ Finished
    /\ LetGo(n, FALSE, IF tells THEN <<AbortWrite(n)>> ELSE <<>>)
    /\ UNCHANGED <<lifecycleVars, typed, file, live, trashed, doc, hostGen, pendingAck,
                   reported, written>>

(* Nothing was written: the page is released and the claim given back.     *)
(* A page that never answered has had its abort from the timeout.          *)
GiveUp(n, tells) ==
    /\ FinishExternalWrite
    /\ Finished
    /\ LetGo(n, FALSE, IF tells THEN <<AbortWrite(n)>> ELSE <<>>)
    /\ UNCHANGED <<typed, file, live, trashed, doc, hostGen, pendingAck, reported, written>>

ResumeMutation(n) ==
    /\ task.stage = "resumed" /\ task.note = n /\ task.kind # "discard"
    /\ LET base == LiveBase(n, task.text)
           candidate == Mutated(task, base)
           matches == RevisionMatches(task, base)
           changes == candidate # doc[n]
       IN \/ /\ ~task.ok \/ ~matches
             /\ GiveUp(n, task.ok)
             /\ Refuse
          \/ /\ task.ok /\ matches /\ ~changes
             /\ GiveUp(n, TRUE)
             /\ UNCHANGED refused
          \/ /\ task.ok /\ matches /\ changes /\ "disk" \in Faults
             /\ GiveUp(n, TRUE)
             /\ Refuse
          \/ /\ task.ok /\ matches /\ changes
             /\ CommitOnceWritten(n, candidate, TRUE)
             /\ Recorded(n)
             /\ hostGen' = [hostGen EXCEPT ![n] = @ + 1]
             /\ pendingAck' = [pendingAck EXCEPT ![n] = task.req]
             /\ task' = [task EXCEPT !.stage = "ack"]
             /\ Turn({}, {}, Tell(n, Message("apply_external_document", task.req,
                                             hostGen[n] + 1, candidate.body)))
             /\ UNCHANGED <<lifecycleVars, trashed, refused>>
    /\ UNCHANGED <<nextMark, pendingWrite, flushes, batch, nextReq, running>>

(* validate_discard_base, then the same move and close as the interface's. *)
ResumeDiscard(n) ==
    /\ task.stage = "resumed" /\ task.note = n /\ task.kind = "discard"
    /\ LET valid == /\ task.ok
                    /\ n \in live
                    /\ LiveBase(n, task.text) = task.expected
                    /\ file[n] = task.expected
       IN \E moves \in Outcomes :
             /\ CommitTrash(n, live, valid /\ moves)
             /\ LetGo(n, trashed' # trashed, <<AbortWrite(n)>>)
    /\ FinishExternalWrite
    /\ Finished
    /\ UNCHANGED <<nextMark, typed, file, doc, hostGen, pendingWrite, pendingAck, flushes,
                   batch, nextReq, running, reported, written, refused>>

-----------------------------------------------------------------------------
(* The second await.  Past the commit point: every way it ends is success, *)
(* with or without a warning.                                              *)

AckSettled(n) ==
    /\ pendingAck' = [pendingAck EXCEPT ![n] = NoRequest]
    /\ task' = [task EXCEPT !.stage = "synced"]

(* settle_external_ack.  A positive answer must also quote the generation  *)
(* the window moved to.                                                    *)
ApplyAnswered(n) ==
    /\ \E type \in {"external_write_applied", "external_write_apply_failed"} :
          /\ Hears(n, type)
          /\ IF /\ pendingAck[n] # NoRequest
                /\ Head(toHost[n]).req = pendingAck[n]
                /\ type = "external_write_applied" => AcceptsGeneration(n, Head(toHost[n]).gen)
             THEN AckSettled(n)
             ELSE UNCHANGED <<pendingAck, task>>
    /\ Turn({n}, {}, Silence)
    /\ UNCHANGED <<nextMark, typed, lifecycleVars, file, live, trashed, doc, hostGen,
                   pendingWrite, flushes, batch, nextReq, running, reported, written, refused>>

(* EXTERNAL_WRITE_ACK_TIMEOUT.                                             *)
AckTimeout(n) ==
    /\ pendingAck[n] # NoRequest
    /\ AckSettled(n)
    /\ UNCHANGED <<pageVars, lifecycleVars, file, live, trashed, win, doc, hostGen,
                   pendingWrite, flushes, batch, nextReq, running, reported, written, refused>>

(* The script that carries the document never ran.                         *)
DeliveryFails(n) ==
    /\ "delivery" \in Faults
    /\ pendingAck[n] # NoRequest
    /\ \E i \in DOMAIN toPage[n] :
          /\ toPage[n][i].type = "apply_external_document"
          /\ toPage[n][i].req = pendingAck[n]
          /\ toPage' = [toPage EXCEPT ![n] = SubSeq(@, 1, i - 1) \o SubSeq(@, i + 1, Len(@))]
    /\ AckSettled(n)
    /\ UNCHANGED <<page, toHost, nextMark, typed, lifecycleVars, file, live, trashed, win, doc,
                   hostGen, pendingWrite, flushes, batch, nextReq, running, reported, written, refused>>

(* The claim is given back, the answer sent, the window let go of.         *)
FinishWrite(n) ==
    /\ task.stage = "synced" /\ task.note = n
    /\ FinishExternalWrite
    /\ Finished
    /\ LetGo(n, FALSE, <<>>)
    /\ UNCHANGED <<nextMark, typed, file, live, trashed, doc, hostGen, pendingWrite,
                   pendingAck, flushes, batch, nextReq, running, reported, written, refused>>
=============================================================================
