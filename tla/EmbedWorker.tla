----------------------------- MODULE EmbedWorker -----------------------------
(***************************************************************************)
(* The remote embedding worker: the processes that ask for one             *)
(* (noteit-embedding-remote/src/worker.rs), the worker processes           *)
(* (noteit-embed/src/main.rs, socket.rs) and the one socket path they all  *)
(* share.  A process asks for one thing at a time; what it asks, and what  *)
(* becomes of the answer, is in Retrieval.                                 *)
(***************************************************************************)
EXTENDS Naturals

CONSTANTS Sessions,   \* the processes that may need a worker
          Workers,    \* the worker processes, used again once forgotten
          Nothing,    \* no worker, no note, no text
          MaxFaults   \* bound: calls that fail, processes that are killed

ASSUME NothingIsNoWorker == Nothing \notin Workers
ASSUME MaxFaultsAssumption == MaxFaults \in Nat

VARIABLES worker,   \* the state of each worker process
          path,     \* the worker that bound the file at the socket path
          handle,   \* WorkerHandle, and how far `ensure` is
          keeper,   \* who would stop each worker
          faults    \* how much has gone wrong so far

workerVars == <<worker, path, handle, keeper, faults>>

WorkerStates == {"dead", "starting", "validated", "listening"}
\* A process that is followed, one that is not, or none: it was killed.
Keepers == {"followed", "elsewhere", "nobody"}
Steps == {"rest", "own", "probe", "await", "connect"}
Handle == [up : BOOLEAN, at : Steps, child : Workers \union {Nothing}]
Down == [up |-> FALSE, at |-> "rest", child |-> Nothing]

WorkerTypeOK ==
  /\ worker \in [Workers -> WorkerStates]
  /\ path \in Workers \union {Nothing}
  /\ handle \in [Sessions -> Handle]
  /\ keeper \in [Workers -> Keepers]
  /\ faults \in 0..MaxFaults

WorkerInit ==
  /\ worker = [w \in Workers |-> "dead"]
  /\ path = Nothing
  /\ handle = [p \in Sessions |-> Down]
  /\ keeper = [w \in Workers |-> "followed"]
  /\ faults = 0

Fault == faults < MaxFaults /\ faults' = faults + 1

Alive(w) == worker[w] # "dead"

\* socket_is_live: a connection to the path succeeds.
SocketIsLive == path # Nothing /\ worker[path] = "listening"

Unused == {w \in Workers : ~Alive(w) /\ path # w /\ keeper[w] # "elsewhere" /\ \A p \in Sessions : handle[p].child # w}

-----------------------------------------------------------------------------
(* WorkerHandle                                                            *)

At(p, step) == handle[p].at = step
To(p, step) == handle' = [handle EXCEPT ![p].at = step]
Forgets(p, step) == handle' = [handle EXCEPT ![p].at = step, ![p].child = Nothing]

\* ensure; without a child of its own, it asks the path at once.
Ensure(p) == To(p, IF handle[p].child = Nothing THEN "probe" ELSE "own")

\* Its first answer: our own child.  A dead one is forgotten and whatever
\* socket is at the path is removed.
AskOwn(p) ==
  /\ At(p, "own")
  /\ IF Alive(handle[p].child) THEN To(p, "connect") /\ UNCHANGED path
     ELSE Forgets(p, "probe") /\ path' = Nothing
  /\ UNCHANGED <<worker, keeper, faults>>

\* Its second: somebody's worker at the path.
Adopt(p) ==
  /\ At(p, "probe") /\ SocketIsLive
  /\ To(p, "connect")
  /\ UNCHANGED <<worker, path, keeper, faults>>

\* Its third: spawn.
Spawn(p) ==
  /\ At(p, "probe") /\ ~SocketIsLive
  /\ \E w \in Unused :
       /\ worker' = [worker EXCEPT ![w] = "starting"]
       /\ keeper' = [keeper EXCEPT ![w] = "followed"]
       /\ handle' = [handle EXCEPT ![p].at = "await", ![p].child = w]
  /\ UNCHANGED <<path, faults>>

\* No process can be made.  The bound on workers is one reason.
SpawnFails(p) ==
  /\ At(p, "probe") /\ ~SocketIsLive
  /\ Fault \/ (Unused = {} /\ UNCHANGED faults)
  /\ To(p, "rest")
  /\ UNCHANGED <<worker, path, keeper>>

\* wait_for_ready: the one line that says it is listening.
SeesReady(p) ==
  /\ At(p, "await") /\ worker[handle[p].child] = "listening"
  /\ To(p, "connect")
  /\ UNCHANGED <<worker, path, keeper, faults>>

\* A mutant: a worker that is late is left to itself.
Mutant_GivesUpWithoutKilling(p) ==
  /\ At(p, "await")
  /\ path' = Nothing
  /\ Forgets(p, "rest")
  /\ UNCHANGED <<worker, keeper, faults>>

\* It ended first, or READY_TIMEOUT has passed: kill, wait, remove_if_socket.
GivesUp(p) ==
  /\ At(p, "await")
  /\ worker' = [worker EXCEPT ![handle[p].child] = "dead"]
  /\ path' = Nothing
  /\ Forgets(p, "rest")
  /\ UNCHANGED <<keeper, faults>>

\* request: one connection to the path, one answer.
Answered(p) ==
  /\ At(p, "connect") /\ SocketIsLive
  /\ To(p, "rest")
  /\ UNCHANGED <<worker, path, keeper, faults>>

\* Nobody listens, the answer is an error or no answer, or it is late.
NotAnswered(p) ==
  /\ At(p, "connect")
  /\ To(p, "rest")
  /\ UNCHANGED <<worker, path, keeper, faults>>

\* is_running, from a diagnostic: a dead child is reaped, as in ensure.
Diagnose(p) ==
  /\ At(p, "rest") /\ handle[p].child # Nothing /\ ~Alive(handle[p].child)
  /\ Forgets(p, "rest") /\ path' = Nothing
  /\ UNCHANGED <<worker, keeper, faults>>

ProcessStarts(p) ==
  /\ ~handle[p].up
  /\ handle' = [handle EXCEPT ![p].up = TRUE]
  /\ UNCHANGED <<worker, path, keeper, faults>>

\* Drop, shutdown: only a child of this handle is stopped.
Shutdown(p) ==
  /\ handle[p].up /\ At(p, "rest")
  /\ handle' = [handle EXCEPT ![p] = Down]
  /\ IF handle[p].child = Nothing THEN UNCHANGED <<worker, path>>
     ELSE worker' = [worker EXCEPT ![handle[p].child] = "dead"] /\ path' = Nothing
  /\ UNCHANGED <<keeper, faults>>

\* A signal: nothing is dropped, and the worker lives on.
ProcessKilled(p) ==
  /\ handle[p].up /\ Fault
  /\ handle' = [handle EXCEPT ![p] = Down]
  /\ keeper' = [w \in Workers |-> IF w = handle[p].child THEN "nobody" ELSE keeper[w]]
  /\ UNCHANGED <<worker, path>>

-----------------------------------------------------------------------------
(* The handles of the processes that are not followed                      *)

\* It has asked `ensure`, and nobody was listening.
ElsewhereSpawns ==
  \E w \in Unused :
    /\ worker' = [worker EXCEPT ![w] = "starting"]
    /\ keeper' = [keeper EXCEPT ![w] = "elsewhere"]
    /\ UNCHANGED <<path, handle, faults>>

\* It gave up waiting, found its worker dead or ended: the child is killed and
\* whatever socket is at the path is removed.
ElsewhereStops(w) ==
  /\ keeper[w] = "elsewhere"
  /\ worker' = [worker EXCEPT ![w] = "dead"]
  /\ keeper' = [keeper EXCEPT ![w] = "followed"]
  /\ path' = Nothing
  /\ UNCHANGED <<handle, faults>>

ElsewhereKilled(w) ==
  /\ keeper[w] = "elsewhere" /\ Fault
  /\ keeper' = [keeper EXCEPT ![w] = "nobody"]
  /\ UNCHANGED <<worker, path, handle>>

Elsewhere == ElsewhereSpawns \/ \E w \in Workers : ElsewhereStops(w) \/ ElsewhereKilled(w)

-----------------------------------------------------------------------------
(* noteit-embed                                                            *)

\* SocketPath::validate: a live worker is not replaced.
Validate(w) ==
  /\ worker[w] = "starting"
  /\ worker' = [worker EXCEPT ![w] = IF SocketIsLive THEN "dead" ELSE "validated"]
  /\ UNCHANGED <<path, handle, keeper, faults>>

\* bind: what is at the path by now is removed.  The line it then writes ends
\* it when its spawner is gone and nobody holds the other end.
Bind(w) ==
  /\ worker[w] = "validated"
  /\ path' = w
  /\ worker' = [worker EXCEPT ![w] = IF keeper[w] = "nobody" THEN "dead" ELSE "listening"]
  /\ UNCHANGED <<handle, keeper, faults>>

\* Its socket stays behind.
WorkerDies(w) ==
  /\ Alive(w) /\ Fault
  /\ worker' = [worker EXCEPT ![w] = "dead"]
  /\ UNCHANGED <<path, handle, keeper>>

WorkerStep == \E w \in Workers : Validate(w) \/ Bind(w) \/ WorkerDies(w)

EnsureStep(p) == AskOwn(p) \/ Adopt(p) \/ Spawn(p) \/ SeesReady(p)

-----------------------------------------------------------------------------
(* Properties                                                              *)

\* The process that started it runs, or was killed.
Accounted(w) ==
  \/ keeper[w] # "followed"
  \/ \E p \in Sessions : handle[p].up /\ handle[p].child = w

\* No worker and no socket is left behind, however the process that started it
\* ended, short of being killed: whoever still runs, or still has the path, is
\* the child of a process that will stop it (worker.rs, shutdown and Drop).
NothingLeftBehind ==
  /\ \A w \in Workers : Alive(w) => Accounted(w)
  /\ path # Nothing => Accounted(path)

=============================================================================
