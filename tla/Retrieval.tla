------------------------------ MODULE Retrieval ------------------------------
(***************************************************************************)
(* A question asked with the semantic channel on and a remote provider: by *)
(* an MCP server, whose index lives as long as the process                 *)
(* (noteit-mcp/src/semantic.rs), or by a command, which asks once          *)
(* (noteit-cli/src/semantic.rs).  Both bring their index up to date        *)
(* (core/semantic.rs), ask the worker, read the notes again and forget     *)
(* what turns out to be stale (core/context.rs), while notes are edited,   *)
(* trashed and brought back.  The index of all of them is one file, saved   *)
(* whole.  The processes that are not followed are seen through that file  *)
(* and the worker they share with those that are.                          *)
(*                                                                         *)
(* A vector is the text it was made of; all of a note is one chunk.        *)
(***************************************************************************)
EXTENDS EmbedWorker, FiniteSets

CONSTANTS Notes,
          Texts,
          Blank,        \* the texts without a chunk
          MaxChanges,   \* bound: changes others make to the notes and the file
          MaxHits,      \* preliminary_hits
          Filings       \* bound: the indexes processes not followed have filed

ASSUME TextsAssumption == Blank \subseteq Texts /\ Nothing \notin Texts \union Notes
ASSUME NothingIsNoDocument == Nothing \notin [note : Notes, text : Texts]
ASSUME MaxChangesAssumption == MaxChanges \in Nat
ASSUME MaxHitsAssumption == MaxHits \in Nat \ {0}

VARIABLES store,    \* the text of each live note
          changes,  \* how often others have changed a note or filed an index
          cache,    \* the vectors on disk, by note
          session,  \* SemanticState, and how far the question is
          past      \* history: what each session has seen and obtained

vars == <<workerVars, store, changes, cache, session, past>>

Vectors == [Notes -> (Texts \ Blank) \union {Nothing}]
ASSUME FilingsAssumption == Filings \subseteq Vectors

NoVectors == [n \in Notes |-> Nothing]
Held(index) == {n \in Notes : index[n] # Nothing}
Without(index, notes) == [n \in Notes |-> IF n \in notes THEN Nothing ELSE index[n]]
Live == {n \in Notes : store[n] # Nothing}

Stages == {"rest", "list", "read", "ask", "enumerate", "verify", "over"}

Session == [command : BOOLEAN, stage : Stages, pass : {1, 2},
            index : Vectors, consulted : BOOLEAN, dirty : BOOLEAN,
            todo : SUBSET Notes,                                \* still to be read
            doc : [note : Notes, text : Texts] \union {Nothing},  \* being embedded
            unavailable : BOOLEAN,                              \* the question was not
            hits : SUBSET Notes, forget : SUBSET Notes, found : SUBSET Notes]

NewSession == [command |-> FALSE, stage |-> "rest", pass |-> 1,
               index |-> NoVectors, consulted |-> FALSE, dirty |-> FALSE, todo |-> {}, doc |-> Nothing, unavailable |-> FALSE,
               hits |-> {}, forget |-> {}, found |-> {}]

\* had: the vectors this process obtained, of notes it has not seen otherwise
\* since.  changed: the notes changed since the question was asked.
\* missed: something could not be listed, read or embedded for it.
\* replaced: another process filed its index since this one started, read the
\* file or filed its own.
Past == [had : Vectors, changed : SUBSET Notes, missed : BOOLEAN, replaced : BOOLEAN]
NoPast == [had |-> NoVectors, changed |-> {}, missed |-> FALSE, replaced |-> FALSE]

TypeOK ==
  /\ WorkerTypeOK
  /\ store \in [Notes -> Texts \union {Nothing}]
  /\ changes \in 0..MaxChanges
  /\ cache \in Vectors
  /\ session \in [Sessions -> Session]
  /\ past \in [Sessions -> Past]

Init ==
  /\ WorkerInit
  /\ store \in [Notes -> Texts \union {Nothing}]
  /\ changes = 0
  /\ cache \in Filings
  /\ session = [p \in Sessions |-> NewSession]
  /\ past = [p \in Sessions |-> NoPast]

In(p, stage) == session[p].stage = stage
Idle(p) == session[p].stage \in {"rest", "over"}

-----------------------------------------------------------------------------
(* A question begins                                                       *)

\* restore_from_cache, once for each process; a file that cannot be read is
\* no cache.
Consults(p, vectors) ==
  /\ session' = [session EXCEPT ![p].stage = "list", ![p].pass = 1,
                                ![p].index = vectors, ![p].consulted = TRUE]
  /\ past' = [past EXCEPT ![p] = [NoPast EXCEPT !.had = vectors]]

AsksAgain(p) ==
  /\ session' = [session EXCEPT ![p].stage = "list", ![p].pass = 1]
  /\ past' = [past EXCEPT ![p].changed = {}, ![p].missed = FALSE]

Ask(p) ==
  /\ handle[p].up /\ In(p, "rest")
  /\ IF session[p].consulted
     THEN AsksAgain(p) /\ UNCHANGED faults
     ELSE \/ Consults(p, cache) /\ UNCHANGED faults
          \/ Consults(p, NoVectors) /\ Fault
  /\ UNCHANGED <<worker, path, handle, keeper, store, changes, cache>>

-----------------------------------------------------------------------------
(* synchronise                                                             *)

\* note_files_with_warnings: an entry that cannot be examined is left out of
\* the listing, which succeeds.
Listing(listed) ==
  \/ listed = Live /\ UNCHANGED faults
  \/ (\E n \in Live : listed = Live \ {n}) /\ Fault

\* What is not listed is gone.
List(p) ==
  /\ In(p, "list")
  /\ \E listed \in SUBSET Live :
       LET gone == Held(session[p].index) \ listed
       IN /\ Listing(listed)
          /\ session' = [session EXCEPT ![p].stage = "read",
                           ![p].index = Without(@, gone),
                           ![p].dirty = @ \/ gone # {},
                           ![p].todo = listed \ Held(session[p].index)]
          /\ past' = [past EXCEPT ![p].had = Without(@, gone),
                                  ![p].missed = @ \/ listed # Live]
  /\ UNCHANGED <<worker, path, handle, keeper, store, changes, cache>>

\* The next note that is not held; one that is gone by now is passed over.
Reads(p, n) ==
  /\ In(p, "read") /\ n \in session[p].todo /\ session[p].doc = Nothing
  /\ UNCHANGED <<worker, path, keeper, store, changes, cache>>

Skip(p, n) ==
  /\ Reads(p, n)
  /\ \/ store[n] = Nothing /\ UNCHANGED faults
     \/ store[n] # Nothing /\ Fault
  /\ session' = [session EXCEPT ![p].todo = @ \ {n}]
  /\ past' = [past EXCEPT ![p].missed = @ \/ store[n] # Nothing]
  /\ UNCHANGED handle

\* index_document of a note without chunks: it counts as embedded.
ReadBlank(p, n) ==
  /\ Reads(p, n) /\ store[n] \in Blank
  /\ session' = [session EXCEPT ![p].todo = @ \ {n}, ![p].dirty = TRUE]
  /\ past' = [past EXCEPT ![p].had[n] = Nothing]
  /\ UNCHANGED <<handle, faults>>

ReadNote(p, n) ==
  /\ Reads(p, n) /\ store[n] \in Texts \ Blank
  /\ session' = [session EXCEPT ![p].todo = @ \ {n}, ![p].doc = [note |-> n, text |-> store[n]]]
  /\ past' = [past EXCEPT ![p].had[n] = IF @ = store[n] THEN @ ELSE Nothing]
  /\ Ensure(p) /\ UNCHANGED faults

\* The vector comes, or the note stays without one.
Embedded(p) ==
  /\ In(p, "read") /\ session[p].doc # Nothing
  /\ Answered(p)
  /\ LET doc == session[p].doc
     IN /\ session' = [session EXCEPT ![p].index[doc.note] = doc.text, ![p].dirty = TRUE,
                                      ![p].doc = Nothing]
        /\ past' = [past EXCEPT ![p].had[doc.note] = doc.text]
  /\ UNCHANGED <<store, changes, cache>>

NotEmbedded(p) ==
  /\ session' = [session EXCEPT ![p].doc = Nothing]
  /\ past' = [past EXCEPT ![p].missed = TRUE]

-----------------------------------------------------------------------------
(* run                                                                     *)

Asks(p) ==
  /\ In(p, "read") /\ session[p].todo = {} /\ session[p].doc = Nothing
  /\ session' = [session EXCEPT ![p].stage = "ask"]
  /\ Ensure(p)
  /\ UNCHANGED <<worker, path, keeper, faults, store, changes, cache, past>>

\* nearest_notes: the closest of the notes held, at most MaxHits.
NearestNotes(index) ==
  {hits \in SUBSET Held(index) :
     Cardinality(hits) = IF Cardinality(Held(index)) < MaxHits THEN Cardinality(Held(index))
                         ELSE MaxHits}

Claims(p) ==
  /\ In(p, "ask")
  /\ Answered(p)
  /\ \E hits \in NearestNotes(session[p].index) :
       session' = [session EXCEPT ![p].stage = "enumerate", ![p].hits = hits,
                                  ![p].unavailable = FALSE]
  /\ UNCHANGED <<store, changes, cache, past>>

ClaimsNothing(p) ==
  /\ session' = [session EXCEPT ![p].stage = "enumerate", ![p].hits = {},
                                ![p].unavailable = TRUE]
  /\ past' = [past EXCEPT ![p].missed = TRUE]

\* However a request ends without an answer.
RequestFails(p) ==
  /\ NotAnswered(p) \/ GivesUp(p) \/ SpawnFails(p)
  /\ IF In(p, "ask") THEN ClaimsNothing(p) ELSE NotEmbedded(p)
  /\ UNCHANGED <<store, changes, cache>>

\* Of the notes read now, those claimed are verified; the claimed that are not
\* listed are forgotten.
Enumerate(p) ==
  /\ In(p, "enumerate")
  /\ \E listed \in SUBSET Live :
       LET hits == session[p].hits
       IN /\ Listing(listed)
          /\ session' = [session EXCEPT ![p].stage = "verify", ![p].todo = hits \intersect listed,
                                        ![p].forget = hits \ listed, ![p].found = {}]
          /\ past' = [past EXCEPT ![p].had = Without(@, hits \ listed),
                                  ![p].missed = @ \/ listed # Live]
  /\ UNCHANGED <<worker, path, handle, keeper, store, changes, cache>>

\* A mutant: a note that cannot be read is taken for an edited one.
Mutant_VerifyForgetsUnread(p, n) ==
  /\ In(p, "verify") /\ n \in session[p].todo
  /\ \/ /\ store[n] = session[p].index[n]
        /\ session' = [session EXCEPT ![p].todo = @ \ {n}, ![p].found = @ \union {n}]
        /\ UNCHANGED <<past, faults>>
     \/ /\ store[n] \notin {session[p].index[n], Nothing}
        /\ session' = [session EXCEPT ![p].todo = @ \ {n}, ![p].forget = @ \union {n}]
        /\ past' = [past EXCEPT ![p].had[n] = Nothing]
        /\ UNCHANGED faults
     \/ /\ (store[n] = Nothing /\ UNCHANGED faults) \/ (store[n] # Nothing /\ Fault)
        /\ session' = [session EXCEPT ![p].todo = @ \ {n}, ![p].forget = @ \union {n}]
        /\ past' = [past EXCEPT ![p].missed = TRUE]
  /\ UNCHANGED <<worker, path, handle, keeper, store, changes, cache>>

\* verify, from the reading of the note that is made anyway: its revision is
\* the vector's, or the vector is forgotten, or the note cannot be read.
Verify(p, n) ==
  /\ In(p, "verify") /\ n \in session[p].todo
  /\ \/ /\ store[n] = session[p].index[n]
        /\ session' = [session EXCEPT ![p].todo = @ \ {n}, ![p].found = @ \union {n}]
        /\ UNCHANGED <<past, faults>>
     \/ /\ store[n] \notin {session[p].index[n], Nothing}
        /\ session' = [session EXCEPT ![p].todo = @ \ {n}, ![p].forget = @ \union {n}]
        /\ past' = [past EXCEPT ![p].had[n] = Nothing]
        /\ UNCHANGED faults
     \/ /\ (store[n] = Nothing /\ UNCHANGED faults) \/ (store[n] # Nothing /\ Fault)
        /\ session' = [session EXCEPT ![p].todo = @ \ {n}]
        /\ past' = [past EXCEPT ![p].missed = TRUE]
  /\ UNCHANGED <<worker, path, handle, keeper, store, changes, cache>>

-----------------------------------------------------------------------------
(* What follows                                                            *)

Ended(p) == IF session[p].command THEN "over" ELSE "rest"

\* The question is given back without an answer; nothing is written.
GivenBack(p) ==
  session' = [session EXCEPT ![p].stage = Ended(p), ![p].todo = {}, ![p].forget = {},
                             ![p].index = Without(@, session[p].forget),
                             ![p].hits = {}, ![p].found = {}, ![p].unavailable = FALSE]

\* The notes cannot be listed: ContextError::StoreUnavailable.
Refuse(p) ==
  /\ In(p, "list") \/ In(p, "enumerate")
  /\ Fault /\ GivenBack(p)
  /\ past' = [past EXCEPT ![p].changed = {}]
  /\ UNCHANGED <<worker, path, handle, keeper, store, changes, cache>>

Concluding(p) == In(p, "verify") /\ session[p].todo = {}

\* The question was not answered and the policy is `semantic_required`.
SemanticRequired(p) ==
  /\ Concluding(p) /\ session[p].unavailable
  /\ GivenBack(p)
  /\ past' = [past EXCEPT ![p].changed = {}]
  /\ UNCHANGED <<workerVars, store, changes, cache>>

\* A mutant: there is no second pass.
Mutant_Another(p) == FALSE

\* One more pass when something was forgotten, and only one.
Another(p) == session[p].forget # {} /\ session[p].pass = 1

\* What the session is once its pass is concluded.
Concluded(p, dirty) ==
  session' = [session EXCEPT
    ![p].stage = IF Another(p) THEN "list" ELSE Ended(p),
    ![p].pass = IF Another(p) THEN 2 ELSE 1,
    ![p].index = Without(@, session[p].forget), ![p].dirty = dirty,
    ![p].hits = {}, ![p].forget = {}, ![p].found = {}, ![p].unavailable = FALSE]

\* A command writes its cache after its last pass, a server after each.
Writes(p) == session[p].dirty /\ (session[p].command => ~Another(p))

Keeps(p) == IF Another(p) THEN past[p].changed ELSE {}

Conclude(p) ==
  /\ Concluding(p) /\ ~Writes(p)
  /\ Concluded(p, session[p].dirty)
  /\ past' = [past EXCEPT ![p].changed = Keeps(p)]
  /\ UNCHANGED <<workerVars, store, changes, cache>>

\* The file is no longer the one that those of them who run may know.
Replaced(pasts, those) ==
  [p \in Sessions |-> IF p \in those /\ handle[p].up THEN [pasts[p] EXCEPT !.replaced = TRUE]
                      ELSE pasts[p]]

\* persist: the whole index, in one rename, over whatever another process has
\* filed since this one read it.
Persist(p) ==
  /\ Concluding(p) /\ Writes(p)
  /\ Concluded(p, FALSE)
  /\ cache' = Without(session[p].index, session[p].forget)
  /\ past' = Replaced([past EXCEPT ![p].changed = Keeps(p), ![p].replaced = FALSE],
                      Sessions \ {p})
  /\ UNCHANGED <<workerVars, store, changes>>

\* A mutant: the index counts as written although it was not.
Mutant_PersistFails(p) ==
  /\ Concluding(p) /\ Writes(p)
  /\ Fault /\ Concluded(p, FALSE)
  /\ past' = [past EXCEPT ![p].changed = Keeps(p)]
  /\ UNCHANGED <<worker, path, handle, keeper, store, changes, cache>>

PersistFails(p) ==
  /\ Concluding(p) /\ Writes(p)
  /\ Fault /\ Concluded(p, TRUE)
  /\ past' = [past EXCEPT ![p].changed = Keeps(p)]
  /\ UNCHANGED <<worker, path, handle, keeper, store, changes, cache>>

-----------------------------------------------------------------------------
(* The processes, and the others                                           *)

Start(p) ==
  /\ ProcessStarts(p)
  /\ \E command \in BOOLEAN : session' = [session EXCEPT ![p].command = command]
  /\ UNCHANGED <<store, changes, cache, past>>

Forgotten(p) ==
  /\ session' = [session EXCEPT ![p] = NewSession]
  /\ past' = [past EXCEPT ![p] = NoPast]
  /\ UNCHANGED <<store, changes, cache>>

Leave(p) == Idle(p) /\ Shutdown(p) /\ Forgotten(p)

Killed(p) == ProcessKilled(p) /\ Forgotten(p)

\* A status asked of the server, which waits for the question in progress.
Report(p) ==
  /\ ~session[p].command /\ Idle(p)
  /\ Diagnose(p)
  /\ UNCHANGED <<store, changes, cache, session, past>>

\* Any other program edits, trashes or brings back a note.
ChangeNote(n) ==
  /\ \E t \in (Texts \union {Nothing}) \ {store[n]} :
       /\ store' = [store EXCEPT ![n] = t]
       /\ past' = [p \in Sessions |->
                     IF Idle(p) THEN past[p]
                     ELSE [past[p] EXCEPT !.changed = @ \union {n}]]
  /\ changes < MaxChanges /\ changes' = changes + 1
  /\ UNCHANGED <<workerVars, cache, session>>

\* A process that is not followed files its index.
AnotherFiles ==
  /\ cache' \in Filings \ {cache}
  /\ changes < MaxChanges /\ changes' = changes + 1
  /\ past' = Replaced(past, Sessions)
  /\ UNCHANGED <<workerVars, store, session>>

Workings ==
  /\ WorkerStep \/ Elsewhere
  /\ UNCHANGED <<store, changes, cache, session, past>>

\* What moves a question on.
Step(p) ==
  \/ List(p) \/ Refuse(p)
  \/ \E n \in Notes : Skip(p, n) \/ ReadBlank(p, n) \/ ReadNote(p, n) \/ Verify(p, n)
  \/ EnsureStep(p) /\ UNCHANGED <<store, changes, cache, session, past>>
  \/ Embedded(p) \/ Asks(p) \/ Claims(p) \/ RequestFails(p) \/ Enumerate(p)
  \/ SemanticRequired(p) \/ Conclude(p) \/ Persist(p) \/ PersistFails(p)

Next ==
  \/ \E p \in Sessions : Start(p) \/ Ask(p) \/ Step(p) \/ Leave(p) \/ Killed(p) \/ Report(p)
  \/ \E n \in Notes : ChangeNote(n)
  \/ AnotherFiles
  \/ Workings

Spec == Init /\ [][Next]_vars

-----------------------------------------------------------------------------
(* Properties                                                              *)

\* An answer never presents old content as current: of a note nobody changed
\* while it was asked, what it says is the text as it is (context.rs: a stale
\* result must never present old content as current).  And when nothing was
\* changed or missed meanwhile, it left the index with the text as it is of
\* every note the worker named (semantic.rs: a question does not lag behind the
\* user's own edit); a second pass may name a note the first did not, and drops
\* it without a third.
Current(p, n) == session'[p].index[n] = IF store[n] \in Blank THEN Nothing ELSE store[n]
AnswersKeepUp ==
  [][\A p \in Sessions : Concluding(p) /\ Idle(p)' /\ handle'[p].up =>
       /\ \A n \in session[p].found \ past[p].changed : session[p].index[n] = store[n]
       /\ past[p].changed = {} /\ ~past[p].missed =>
            \A n \in Notes : Current(p, n) \/ n \in Held(session'[p].index) \ session[p].hits
                               \/ (session[p].pass = 2 /\ n \in session[p].forget)]_vars

\* No text is sent for a vector the process has, or had and had no reason to
\* drop: that is, for a note it has not seen changed or gone since.  One that a
\* listing leaves out counts as gone.
PaidOnce ==
  [][\A p \in Sessions : Embedded(p) => past[p].had[session[p].doc.note] # session[p].doc.text]_vars

\* What was paid for is on disk once a question was answered, unless it is
\* still known to be owed (cache_dirty), or another process has saved its own
\* index over this one's, which cache_dirty knows nothing of.
PaidForIsFiled ==
  \A p \in Sessions : handle[p].up /\ Idle(p) /\ ~session[p].dirty /\ ~past[p].replaced =>
    \A n \in Held(session[p].index) : cache[n] = session[p].index[n]

=============================================================================
