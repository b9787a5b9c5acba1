---------------------------- MODULE StoreWriters ----------------------------
(***************************************************************************)
(* The processes that write one store: the command line, the MCP server    *)
(* and the terminal editor (the clients, core/authority.rs), and desktop   *)
(* instances (src/write_authority.rs), coordinated by the writer lease and *)
(* the control socket (core/coordination.rs).                              *)
(*                                                                         *)
(* A process runs once: a client performs one operation and a desktop that *)
(* is started again is another desktop.  Any of them may be killed between *)
(* two of its steps; the kernel then closes what it had open.              *)
(***************************************************************************)
EXTENDS Naturals, Sequences

CONSTANTS Clients,     \* client processes
          Desktops,    \* desktop processes
          Nobody,      \* a lease nobody holds, a socket path with no file
          ReaderEdit,  \* an edit typed in a window of a desktop
          NoRevision,  \* an operation without expected_revision
          MaxEdits     \* bound on the edits typed

ASSUME ProcessesAssumption ==
  /\ Clients \intersect Desktops = {}
  /\ Nobody \notin Clients \union Desktops
  /\ ReaderEdit \notin Clients
ASSUME EditsAssumption == MaxEdits \in Nat

VARIABLES
  note,      \* the file: what was put in it, in order
  lease,     \* the process that holds the lock on writer.lock
  socket,    \* the desktop that bound control.sock, alive or not
  \* clients
  pc,        \* where each client is in perform_at
  expected,  \* the expected_revision of its operation
  base,      \* the text it read while it held the lease
  answer,    \* what perform_at returned
  \* one connection per client
  peer,      \* the desktop it connected to
  wire,      \* the connection, as serve_connection leaves it
  job,       \* its request, in the main loop of the peer
  reply,     \* the answer the peer wrote
  \* desktops
  desk,      \* where each desktop is between start and exit
  live,      \* the text of the note in its window, saved or not
  typed      \* edits typed so far

clientVars == <<pc, expected, base, answer>>
connVars == <<peer, wire, job, reply>>
deskVars == <<desk, live, typed>>
vars == <<note, lease, socket, clientVars, connVars, deskVars>>

Edits(n) == [i \in 1..n |-> ReaderEdit]

RevisionMatches(c, text) == expected[c] \in {NoRevision, text}

\* A connection to the file at the socket path is accepted only while the
\* process that bound it is alive: a file left behind refuses.
Listening(d) == d \in Desktops /\ desk[d] \in {"bound", "serving", "leaving"}

Running(d) == desk[d] \notin {"off", "ended"}

Goto(c, place) == pc' = [pc EXCEPT ![c] = place]

Finish(c, a) ==
  /\ Goto(c, "answered")
  /\ answer' = [answer EXCEPT ![c] = a]

Init ==
  /\ note = << >>
  /\ lease = Nobody
  /\ socket = Nobody
  /\ pc = [c \in Clients |-> "idle"]
  /\ expected = [c \in Clients |-> NoRevision]
  /\ base = [c \in Clients |-> << >>]
  /\ answer = [c \in Clients |-> "none"]
  /\ peer = [c \in Clients |-> Nobody]
  /\ wire = [c \in Clients |-> "none"]
  /\ job = [c \in Clients |-> "none"]
  /\ reply = [c \in Clients |-> "none"]
  /\ desk = [d \in Desktops |-> "off"]
  /\ live = [d \in Desktops |-> << >>]
  /\ typed = 0

-----------------------------------------------------------------------------
(* A client: perform_at *)

\* perform_at is called, with the revision the caller read or with none.
Ask(c) ==
  /\ pc[c] = "idle"
  /\ Goto(c, "trying")
  /\ \E r \in {NoRevision, note} : expected' = [expected EXCEPT ![c] = r]
  /\ UNCHANGED <<note, lease, socket, base, answer, connVars, deskVars>>

\* try_acquire_prepared: the lease was free.
TakeLease(c) ==
  /\ pc[c] = "trying"
  /\ lease = Nobody
  /\ lease' = c
  /\ Goto(c, "leased")
  /\ UNCHANGED <<note, socket, expected, base, answer, connVars, deskVars>>

\* try_acquire_prepared: somebody holds it.
FindHeld(c) ==
  /\ pc[c] = "trying"
  /\ lease /= Nobody
  /\ Goto(c, "connecting")
  /\ UNCHANGED <<note, lease, socket, expected, base, answer, connVars, deskVars>>

\* execute reads the note it will change.
ReadNote(c) ==
  /\ pc[c] = "leased"
  /\ base' = [base EXCEPT ![c] = note]
  /\ Goto(c, "direct")
  /\ UNCHANGED <<note, lease, socket, expected, answer, connVars, deskVars>>

\* execute applies the change to what it read and renames the file into place.
CommitDirect(c) ==
  /\ pc[c] = "direct"
  /\ RevisionMatches(c, base[c])
  /\ note' = Append(base[c], c)
  /\ Goto(c, "written")
  /\ UNCHANGED <<lease, socket, expected, base, answer, connVars, deskVars>>

\* execute fails: the store cannot be opened, the note cannot be read, its
\* revision is another one, the save fails before the rename.
RejectDirect(c) ==
  /\ pc[c] \in {"leased", "direct"}
  /\ Goto(c, "rejected")
  /\ UNCHANGED <<note, lease, socket, expected, base, answer, connVars, deskVars>>

\* The lease is dropped once the result is known, and the result returned.
Release(c) ==
  /\ pc[c] \in {"written", "rejected"}
  /\ lease' = Nobody
  /\ Finish(c, IF pc[c] = "written" THEN "committed" ELSE "refused")
  /\ UNCHANGED <<note, socket, expected, base, connVars, deskVars>>

\* The holder is listening.
Connect(c) ==
  /\ pc[c] = "connecting"
  /\ Listening(socket)
  /\ Goto(c, "connected")
  /\ peer' = [peer EXCEPT ![c] = socket]
  /\ wire' = [wire EXCEPT ![c] = "open"]
  /\ UNCHANGED <<note, lease, socket, expected, base, answer, job, reply, deskVars>>

\* No file, or a file nobody listens on: sleep, then the lease is tried again.
ConnectFails(c) ==
  /\ pc[c] = "connecting"
  /\ ~Listening(socket)
  /\ Goto(c, "trying")
  /\ UNCHANGED <<note, lease, socket, expected, base, answer, connVars, deskVars>>

\* Mutant: the store is written anyway, "just this once".
Mutant_GiveUpWritesAnyway(c) ==
  /\ pc[c] = "connecting"
  /\ ~Listening(socket)
  /\ Goto(c, "leased")
  /\ UNCHANGED <<note, lease, socket, expected, base, answer, connVars, deskVars>>

\* The same, with BUSY_RETRY_WINDOW behind it: nothing is written.
GiveUp(c) ==
  /\ pc[c] = "connecting"
  /\ ~Listening(socket)
  /\ Finish(c, "unavailable")
  /\ UNCHANGED <<note, lease, socket, expected, base, connVars, deskVars>>

\* write_frame.
Send(c) ==
  /\ pc[c] = "connected"
  /\ wire[c] = "open"
  /\ wire' = [wire EXCEPT ![c] = "request"]
  /\ Goto(c, "sent")
  /\ UNCHANGED <<note, lease, socket, expected, base, answer, peer, job, reply, deskVars>>

\* write_frame fails: the peer closed the connection and never saw a request.
SendFails(c) ==
  /\ pc[c] = "connected"
  /\ wire[c] = "closed"
  /\ Finish(c, "unavailable")
  /\ UNCHANGED <<note, lease, socket, expected, base, connVars, deskVars>>

\* read_frame.
Receive(c) ==
  /\ pc[c] = "sent"
  /\ wire[c] = "answer"
  /\ Finish(c, reply[c])
  /\ UNCHANGED <<note, lease, socket, expected, base, connVars, deskVars>>

\* Mutant: a request whose answer did not come is made again.
Mutant_LoseAnswerAsksAgain(c) ==
  /\ pc[c] = "sent"
  /\ wire[c] /= "answer"
  /\ Goto(c, "trying")
  /\ UNCHANGED <<note, lease, socket, expected, base, answer, connVars, deskVars>>

\* Mutant: no read timeout is set on the connection.
Mutant_LoseAnswerOnCloseOnly(c) ==
  /\ pc[c] = "sent"
  /\ wire[c] = "closed"
  /\ Finish(c, "unknown")
  /\ UNCHANGED <<note, lease, socket, expected, base, connVars, deskVars>>

\* read_frame fails: the connection was closed, or AUTHORITY_TIMEOUT passed.
LoseAnswer(c) ==
  /\ pc[c] = "sent"
  /\ wire[c] /= "answer"
  /\ Finish(c, "unknown")
  /\ UNCHANGED <<note, lease, socket, expected, base, connVars, deskVars>>

\* The process is killed.  The kernel lets go of the lock; a frame that was
\* sent stays in the socket for the peer to read.
Kill(c) ==
  /\ pc[c] \notin {"idle", "answered", "gone"}
  /\ Goto(c, "gone")
  /\ lease' = IF lease = c THEN Nobody ELSE lease
  /\ wire' = [wire EXCEPT ![c] = IF @ = "open" THEN "closed" ELSE @]
  /\ UNCHANGED <<note, socket, expected, base, answer, peer, job, reply, deskVars>>

-----------------------------------------------------------------------------
(* A desktop: claim, and the end of its process *)

Stands(d, stage) == desk' = [desk EXCEPT ![d] = stage]

\* The connections of a process that ends are closed; what it had written on
\* them can still be read.
Hangup(d) ==
  wire' = [c \in Clients |->
             IF peer[c] = d /\ wire[c] \in {"open", "request", "queued"}
             THEN "closed" ELSE wire[c]]

\* Mutant: the socket left behind is removed before the lease is asked for.
Mutant_StartRemovesSocket(d) ==
  /\ desk[d] = "off"
  /\ socket' = Nobody
  /\ Stands(d, "claiming")
  /\ UNCHANGED <<note, lease, clientVars, connVars, live, typed>>

\* NoteItApp::new, up to claim.
Start(d) ==
  /\ desk[d] = "off"
  /\ Stands(d, "claiming")
  /\ UNCHANGED <<note, lease, socket, clientVars, connVars, live, typed>>

\* acquire_within: the lease was free.
Claim(d) ==
  /\ desk[d] = "claiming"
  /\ lease = Nobody
  /\ lease' = d
  /\ Stands(d, "claimed")
  /\ UNCHANGED <<note, socket, clientVars, connVars, live, typed>>

\* acquire_within: held until LEASE_WAIT was over.  The instance does not start.
RefuseToStart(d) ==
  /\ desk[d] = "claiming"
  /\ lease /= Nobody
  /\ Stands(d, "ended")
  /\ UNCHANGED <<note, lease, socket, clientVars, connVars, live, typed>>

\* Whatever is at the socket path is removed and the socket bound there.
Bind(d) ==
  /\ desk[d] = "claimed"
  /\ socket' = d
  /\ Stands(d, "bound")
  /\ UNCHANGED <<note, lease, clientVars, connVars, live, typed>>

\* bind fails, or narrow_socket_file does: no file is left at the path.
BindFails(d) ==
  /\ desk[d] \in {"claimed", "bound"}
  /\ socket' = Nobody
  /\ Stands(d, "closing")
  /\ UNCHANGED <<note, lease, clientVars, connVars, live, typed>>

\* The claim is whole: AppContext is built around it, the notes are loaded
\* and serve takes the queue.
Serve(d) ==
  /\ desk[d] = "bound"
  /\ live' = [live EXCEPT ![d] = note]
  /\ Stands(d, "serving")
  /\ UNCHANGED <<note, lease, socket, clientVars, connVars, typed>>

\* The application quits: the windows are flushed, which it waits for, and no
\* external write is in flight.
Quit(d) ==
  /\ desk[d] = "serving"
  /\ \A c \in Clients : peer[c] = d => job[c] /= "running"
  /\ note' = live[d]
  /\ Stands(d, "leaving")
  /\ UNCHANGED <<lease, socket, clientVars, connVars, live, typed>>

\* WriteAuthority is dropped: first the file at the path, whoever's it is ...
RemoveSocket(d) ==
  /\ desk[d] = "leaving"
  /\ socket' = Nobody
  /\ Stands(d, "closing")
  /\ UNCHANGED <<note, lease, clientVars, connVars, live, typed>>

\* ... and then its field, the lease.
LetGo(d) ==
  /\ desk[d] = "closing"
  /\ lease' = Nobody
  /\ Hangup(d)
  /\ Stands(d, "ended")
  /\ UNCHANGED <<note, socket, clientVars, peer, job, reply, live, typed>>

\* The process is killed, or ends without dropping its AppContext.  The lock
\* goes with it, the socket file stays, text not saved is lost.
Crash(d) ==
  /\ Running(d)
  /\ lease' = IF lease = d THEN Nobody ELSE lease
  /\ Hangup(d)
  /\ Stands(d, "ended")
  /\ UNCHANGED <<note, socket, clientVars, peer, job, reply, live, typed>>

-----------------------------------------------------------------------------
(* A desktop: its windows, and the requests it serves *)

Busy(d) == \E c \in Clients : peer[c] = d /\ job[c] = "running"

\* The reader types, in an editor that no external write has frozen.
Type(d) ==
  /\ desk[d] = "serving"
  /\ ~Busy(d)
  /\ typed < MaxEdits
  /\ typed' = typed + 1
  /\ live' = [live EXCEPT ![d] = Append(@, ReaderEdit)]
  /\ UNCHANGED <<note, lease, socket, clientVars, connVars, desk>>

\* Autosave.
Save(d) ==
  /\ desk[d] = "serving"
  /\ note /= live[d]
  /\ note' = live[d]
  /\ UNCHANGED <<lease, socket, clientVars, connVars, deskVars>>

\* serve_connection reads a whole request and puts it in the queue.
ReadRequest(c) ==
  /\ wire[c] = "request"
  /\ desk[peer[c]] = "serving"
  /\ wire' = [wire EXCEPT ![c] = "queued"]
  /\ job' = [job EXCEPT ![c] = "queued"]
  /\ UNCHANGED <<note, lease, socket, clientVars, peer, reply, deskVars>>

\* REQUEST_TIMEOUT passes without a whole request.
DropStalled(c) ==
  /\ wire[c] = "open"
  /\ Listening(peer[c])
  /\ wire' = [wire EXCEPT ![c] = "closed"]
  /\ UNCHANGED <<note, lease, socket, clientVars, peer, job, reply, deskVars>>

\* REPLY_TIMEOUT passes: the connection is closed, the request stays queued.
WorkerGivesUp(c) ==
  /\ wire[c] = "queued"
  /\ desk[peer[c]] = "serving"
  /\ wire' = [wire EXCEPT ![c] = "closed"]
  /\ UNCHANGED <<note, lease, socket, clientVars, peer, job, reply, deskVars>>

\* serve takes the next request once the last one is done.  The queue's order
\* is left open.
Take(c) ==
  /\ job[c] = "queued"
  /\ desk[peer[c]] = "serving"
  /\ ~Busy(peer[c])
  /\ job' = [job EXCEPT ![c] = "running"]
  /\ UNCHANGED <<note, lease, socket, clientVars, peer, wire, reply, deskVars>>

\* The answer is written if the worker still waits for it.
Respond(c, result) ==
  /\ job' = [job EXCEPT ![c] = "done"]
  /\ reply' = [reply EXCEPT ![c] = result]
  /\ wire' = [wire EXCEPT ![c] = IF @ = "queued" THEN "answer" ELSE @]

\* apply_operation changes the text the editor holds and saves it.
CommitRequest(c) ==
  LET d == peer[c] IN
  /\ job[c] = "running"
  /\ desk[d] = "serving"
  /\ RevisionMatches(c, live[d])
  /\ note' = Append(live[d], c)
  /\ live' = [live EXCEPT ![d] = Append(@, c)]
  /\ Respond(c, "committed")
  /\ UNCHANGED <<lease, socket, clientVars, peer, desk, typed>>

\* Mutant: a failure is passed on in the words of a client that was not served.
Mutant_RejectRequestAsUnavailable(c) ==
  /\ job[c] = "running"
  /\ desk[peer[c]] = "serving"
  /\ Respond(c, "unavailable")
  /\ UNCHANGED <<note, lease, socket, clientVars, peer, deskVars>>

\* apply_operation fails: another revision, a page that does not answer, an
\* application that is hiding, a save that fails.
RejectRequest(c) ==
  /\ job[c] = "running"
  /\ desk[peer[c]] = "serving"
  /\ Respond(c, "refused")
  /\ UNCHANGED <<note, lease, socket, clientVars, peer, deskVars>>

-----------------------------------------------------------------------------

ClientStep(c) ==
  \/ TakeLease(c) \/ FindHeld(c)
  \/ ReadNote(c) \/ CommitDirect(c) \/ RejectDirect(c) \/ Release(c)
  \/ Connect(c) \/ ConnectFails(c) \/ GiveUp(c)
  \/ Send(c) \/ SendFails(c) \/ Receive(c) \/ LoseAnswer(c)

ConnectionStep(c) ==
  \/ ReadRequest(c) \/ DropStalled(c) \/ WorkerGivesUp(c)
  \/ Take(c) \/ CommitRequest(c) \/ RejectRequest(c)

DesktopStep(d) ==
  \/ Start(d) \/ Claim(d) \/ RefuseToStart(d) \/ Bind(d) \/ BindFails(d)
  \/ Serve(d) \/ Type(d) \/ Save(d)
  \/ Quit(d) \/ RemoveSocket(d) \/ LetGo(d) \/ Crash(d)

Next ==
  \/ \E c \in Clients : Ask(c) \/ ClientStep(c) \/ ConnectionStep(c) \/ Kill(c)
  \/ \E d \in Desktops : DesktopStep(d)

Spec == Init /\ [][Next]_vars

\* A client's process runs, and its two deadlines pass.  Nothing is asked of a
\* desktop, which may hang with the lease in its hands.
Fairness ==
  \A c \in Clients : WF_vars(ClientStep(c)) /\ SF_vars(GiveUp(c))

FairSpec == Spec /\ Fairness

-----------------------------------------------------------------------------
(* Properties *)

Revisions == {NoRevision} \union Seq(Clients \union {ReaderEdit})
Text == Seq(Clients \union {ReaderEdit})

TypeOK ==
  /\ note \in Text
  /\ lease \in Clients \union Desktops \union {Nobody}
  /\ socket \in Desktops \union {Nobody}
  /\ pc \in [Clients -> {"idle", "trying", "leased", "direct", "written", "rejected",
                         "connecting", "connected", "sent", "answered", "gone"}]
  /\ expected \in [Clients -> Revisions]
  /\ base \in [Clients -> Text]
  /\ answer \in [Clients -> {"none", "committed", "refused", "unavailable", "unknown"}]
  /\ peer \in [Clients -> Desktops \union {Nobody}]
  /\ wire \in [Clients -> {"none", "open", "request", "queued", "answer", "closed"}]
  /\ job \in [Clients -> {"none", "queued", "running", "done"}]
  /\ reply \in [Clients -> {"none", "committed", "refused"}]
  /\ desk \in [Desktops -> {"off", "claiming", "claimed", "bound", "serving",
                             "leaving", "closing", "ended"}]
  /\ live \in [Desktops -> Text]
  /\ typed \in 0..MaxEdits

\* Nobody writes over a text it has not seen: what a client read under the
\* lease is still the file when it commits, and what a desktop shows is the
\* file with the edits its reader has not saved.
BasesAreCurrent ==
  /\ \A c \in Clients : pc[c] = "direct" => base[c] = note
  /\ \A d \in Desktops : desk[d] = "serving" =>
       \E n \in 0..typed : live[d] = note \o Edits(n)

\* A desktop that serves can be reached: the file at the path is its own,
\* whatever was left there before and whoever is leaving meanwhile.
ServingIsReachable ==
  \A d \in Desktops : desk[d] = "serving" => socket = d

\* The processes together keep the promise of WriteRequests: a request takes
\* effect at most once, atomically and on the revision it requires, no text is
\* lost, and an answer is true for good.
Requests == INSTANCE WriteRequests WITH
  asked <- {c \in Clients : pc[c] /= "idle"}

KeepsItsWord == Requests!Spec

\* Every call of perform_at returns, whatever the holder of the lease does.
EveryCallReturns ==
  \A c \in Clients : pc[c] = "trying" ~> pc[c] \in {"answered", "gone"}

=============================================================================
