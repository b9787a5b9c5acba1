--------------------------- MODULE RetrievalProofs ---------------------------
(***************************************************************************)
(* What holds of the questions with the semantic channel on, and of the    *)
(* workers they share, for any notes, texts, processes and workers: nobody *)
(* is left behind, nothing is paid for twice, what was paid for is filed,  *)
(* and answers keep up with the notes.                                     *)
(***************************************************************************)
EXTENDS Retrieval, TLAPS

-----------------------------------------------------------------------------
(* The inductive invariant                                                 *)

\* A process that is down keeps nothing, a step of `ensure` has the child it is
\* about, and a child has one process that follows it.
HandlesHold ==
  \A p \in Sessions :
    /\ ~handle[p].up => handle[p] = Down
    /\ handle[p].at \in {"own", "await"} => handle[p].child # Nothing
    /\ At(p, "probe") => handle[p].child = Nothing
    /\ handle[p].child # Nothing =>
         /\ keeper[handle[p].child] = "followed"
         /\ \A q \in Sessions : handle[q].child = handle[p].child => q = p

\* A process that is down has no session.
DownIsNew ==
  \A p \in Sessions : ~handle[p].up => session[p] = NewSession /\ past[p] = NoPast

\* How far a question is.
InOrder(s) ==
  /\ s.doc # Nothing => s.stage = "read" /\ s.doc.text \in Texts \ Blank
                        /\ s.doc.note \notin s.todo
  /\ s.stage = "read" => s.todo \intersect Held(s.index) = {}
  /\ s.stage \in {"ask", "enumerate"} => s.todo = {}
  /\ s.stage # "verify" => s.forget = {}

\* Of the notes claimed, each is still to be verified, found or to be forgotten.
Claimed(s, h) ==
  /\ s.stage \in {"enumerate", "verify"} =>
       /\ s.hits \subseteq Held(s.index)
       /\ s.unavailable => h.missed
  /\ s.stage = "verify" =>
       /\ s.todo \union s.forget \subseteq s.hits
       /\ s.todo \intersect s.forget = {}
       /\ s.found \intersect (s.forget \union s.todo) = {}
       /\ h.missed \/ s.hits \subseteq s.todo \union s.found \union s.forget

\* The index holds no note that is gone, and lacks only what is still to come,
\* unless the note was changed meanwhile or could not be read.
UpToDate(s, h, texts) ==
  \A n \in Notes \ h.changed :
    /\ s.stage \in {"read", "ask", "enumerate", "verify"} =>
         /\ n \in Held(s.index) => texts[n] # Nothing
         /\ \/ h.missed
            \/ n \in Held(s.index)
            \/ s.stage = "read" /\ n \in s.todo
            \/ s.doc # Nothing /\ s.doc.note = n
            \/ texts[n] \in Blank \union {Nothing}
    /\ s.doc # Nothing /\ s.doc.note = n => texts[n] = s.doc.text
    /\ s.stage = "verify" /\ n \in s.found => s.index[n] = texts[n]

\* What the process obtained and had no reason to drop is in its index.
Obtained(s, h) ==
  /\ \A n \in Notes : h.had[n] \in {Nothing, s.index[n]}
  /\ \A n \in s.forget : h.had[n] = Nothing
  /\ s.doc # Nothing => h.had[s.doc.note] # s.doc.text

\* A session that owes nothing to the cache has what the cache has, unless
\* another process has filed its own meanwhile.
Filed(s, h, vectors) ==
  s.dirty \/ h.replaced \/ \A n \in Held(s.index) : vectors[n] = s.index[n]

\* What holds of a session, and of what it went through.
SessionInv(s, h, texts, vectors) ==
  /\ s \in Session /\ h \in Past
  /\ InOrder(s)
  /\ Claimed(s, h)
  /\ UpToDate(s, h, texts)
  /\ Obtained(s, h)
  /\ Filed(s, h, vectors)

SessionsHold == \A p \in Sessions : SessionInv(session[p], past[p], store, cache)

WorkerInv ==
  /\ WorkerTypeOK
  /\ HandlesHold
  /\ NothingLeftBehind

IInv ==
  /\ TypeOK
  /\ WorkerInv
  /\ DownIsNew
  /\ SessionsHold

-----------------------------------------------------------------------------
(* The workers                                                             *)

\* A process goes to another step of `ensure`, with the child it has.
LEMMA MovingKeepsWorkers ==
    ASSUME WorkerInv, NEW p \in Sessions, NEW step \in Steps,
           To(p, step), handle[p].up,
           step \in {"own", "await"} => handle[p].child # Nothing,
           step = "probe" => handle[p].child = Nothing,
           UNCHANGED <<worker, path, keeper>>, faults' \in 0..MaxFaults
    PROVE  WorkerInv'
  <1>1. /\ handle' \in [Sessions -> Handle]
        /\ handle'[p].at = step
        /\ \A q \in Sessions : handle'[q].up = handle[q].up /\ handle'[q].child = handle[q].child
        /\ \A q \in Sessions \ {p} : handle'[q] = handle[q]
    BY DEF To, WorkerInv, WorkerTypeOK, Handle
  <1>2. WorkerTypeOK'
    BY <1>1 DEF WorkerInv, WorkerTypeOK
  <1>3. HandlesHold'
    BY <1>1 DEF WorkerInv, HandlesHold, At
  <1>4. NothingLeftBehind'
    BY <1>1 DEF WorkerInv, NothingLeftBehind, Accounted, Alive
  <1>5. QED BY <1>2, <1>3, <1>4 DEF WorkerInv

\* A step of `ensure` is a process's that is up.
LEMMA BusyIsUp ==
    ASSUME WorkerInv, NEW p \in Sessions, handle[p].at # "rest"
    PROVE  handle[p].up
  BY DEF WorkerInv, HandlesHold, Down

\* `ensure` is asked by a process that is up.
LEMMA EnsureKeepsWorkers ==
    ASSUME WorkerInv, NEW p \in Sessions, handle[p].up, Ensure(p),
           UNCHANGED <<worker, path, keeper, faults>>
    PROVE  WorkerInv'
  <1>1. faults' \in 0..MaxFaults
    BY DEF WorkerInv, WorkerTypeOK
  <1>2. "own" \in Steps /\ "probe" \in Steps
    BY DEF Steps
  <1>3. QED BY <1>1, <1>2, MovingKeepsWorkers DEF Ensure

LEMMA AnsweringKeepsWorkers ==
    ASSUME WorkerInv, NEW p \in Sessions,
           Adopt(p) \/ SpawnFails(p) \/ SeesReady(p) \/ Answered(p) \/ NotAnswered(p)
    PROVE  WorkerInv'
  <1>1. faults' \in 0..MaxFaults
    BY MaxFaultsAssumption DEF WorkerInv, WorkerTypeOK, Adopt, SpawnFails, SeesReady, Answered,
      NotAnswered, Fault
  <1>2. "rest" \in Steps /\ "connect" \in Steps
    BY DEF Steps
  <1>3. handle[p].up
    BY BusyIsUp DEF Adopt, SpawnFails, SeesReady, Answered, NotAnswered, At
  <1>4. UNCHANGED <<worker, path, keeper>>
    BY DEF Adopt, SpawnFails, SeesReady, Answered, NotAnswered
  <1>5. To(p, "rest") \/ To(p, "connect")
    BY DEF Adopt, SpawnFails, SeesReady, Answered, NotAnswered
  <1>6. QED BY <1>1, <1>2, <1>3, <1>4, <1>5, MovingKeepsWorkers

\* A child is forgotten when it is dead, and the path with it.
LEMMA ForgettingKeepsWorkers ==
    ASSUME WorkerInv, NEW p \in Sessions, NEW h \in Handle,
           handle' = [handle EXCEPT ![p] = h],
           h = Down \/ (h.up /\ h.child = Nothing /\ h.at \in {"rest", "probe"}),
           handle[p].child # Nothing => worker'[handle[p].child] = "dead" /\ path' = Nothing,
           handle[p].child = Nothing => UNCHANGED path,
           worker' \in [Workers -> WorkerStates],
           \A w \in Workers \ {handle[p].child} : worker'[w] = worker[w],
           UNCHANGED <<keeper, faults>>
    PROVE  WorkerInv'
  <1>1. /\ handle' \in [Sessions -> Handle] /\ handle'[p] = h
        /\ \A q \in Sessions \ {p} : handle'[q] = handle[q]
    BY DEF WorkerInv, WorkerTypeOK
  <1>2. h.child = Nothing
    BY DEF Down
  <1>3. WorkerTypeOK'
    BY <1>1 DEF WorkerInv, WorkerTypeOK
  <1>4. HandlesHold'
    <2>1. /\ ~h.up => h = Down
          /\ h.at \in {"rest", "probe"}
      BY DEF Down
    <2>2. ASSUME NEW q \in Sessions
          PROVE  /\ ~handle'[q].up => handle'[q] = Down
                 /\ handle'[q].at \in {"own", "await"} => handle'[q].child # Nothing
                 /\ handle'[q].at = "probe" => handle'[q].child = Nothing
                 /\ handle'[q].child # Nothing =>
                      /\ keeper'[handle'[q].child] = "followed"
                      /\ \A o \in Sessions : handle'[o].child = handle'[q].child => o = q
      <3>1. CASE q = p
        BY <1>1, <1>2, <2>1, <3>1
      <3>2. CASE q # p
        BY <1>1, <1>2, <3>2 DEF WorkerInv, HandlesHold, At
      <3>3. QED BY <3>1, <3>2
    <2>3. QED BY <2>2 DEF HandlesHold, At
  <1>5. ASSUME NEW w \in Workers, Accounted(w), w # handle[p].child
        PROVE  Accounted(w)'
    BY <1>1, <1>5 DEF Accounted
  <1>6. NothingLeftBehind'
    <2>1. ASSUME NEW w \in Workers, Alive(w)'
          PROVE  Accounted(w)'
      <3>1. w # handle[p].child
        BY <2>1, NothingIsNoWorker DEF Alive
      <3>2. QED BY <1>5, <2>1, <3>1 DEF WorkerInv, NothingLeftBehind, Alive
    <2>2. ASSUME path' # Nothing
          PROVE  Accounted(path)'
      <3>1. handle[p].child = Nothing /\ path' = path /\ path \in Workers
        BY <2>2 DEF WorkerInv, WorkerTypeOK
      <3>2. Accounted(path) /\ path # handle[p].child
        BY <2>2, <3>1 DEF WorkerInv, NothingLeftBehind
      <3>3. QED BY <1>1, <3>1, <3>2 DEF Accounted
    <2>3. QED BY <2>1, <2>2 DEF NothingLeftBehind
  <1>7. QED BY <1>3, <1>4, <1>6 DEF WorkerInv

\* A child that gives up, is found dead, or is stopped with its process.
LEMMA StoppingKeepsWorkers ==
    ASSUME WorkerInv, NEW p \in Sessions,
           AskOwn(p) \/ GivesUp(p) \/ Diagnose(p) \/ Shutdown(p)
    PROVE  WorkerInv'
  <1>1. /\ worker \in [Workers -> WorkerStates] /\ "dead" \in WorkerStates
        /\ handle \in [Sessions -> Handle] /\ handle[p] \in Handle
        /\ handle[p].child \in Workers \union {Nothing}
        /\ {"rest", "probe", "connect"} \subseteq Steps
    BY DEF WorkerInv, WorkerTypeOK, WorkerStates, Handle, Steps
  <1>2. /\ Down \in Handle
        /\ \A step \in Steps : [[handle[p] EXCEPT !.at = step] EXCEPT !.child = Nothing] \in Handle
    BY <1>1 DEF Down, Handle, Steps
  <1>3. CASE AskOwn(p)
    <2>1. handle[p].child # Nothing /\ handle[p].up
      BY <1>3, BusyIsUp DEF AskOwn, At, WorkerInv, HandlesHold
    <2>2. CASE Alive(handle[p].child)
      <3>1. faults' \in 0..MaxFaults
        BY <1>3 DEF AskOwn, WorkerInv, WorkerTypeOK
      <3>2. QED BY <1>1, <1>3, <2>1, <2>2, <3>1, MovingKeepsWorkers DEF AskOwn
    <2>3. CASE ~Alive(handle[p].child)
      <3> DEFINE h == [[handle[p] EXCEPT !.at = "probe"] EXCEPT !.child = Nothing]
      <3>1. h \in Handle /\ h.up /\ h.child = Nothing /\ h.at \in {"rest", "probe"}
        BY <1>1, <1>2, <2>1 DEF Handle
      <3>2. handle' = [handle EXCEPT ![p] = h] /\ path' = Nothing
            /\ UNCHANGED <<worker, keeper, faults>>
        BY <1>1, <1>3, <2>3 DEF AskOwn, Forgets, WorkerInv, WorkerTypeOK
      <3>3. worker'[handle[p].child] = "dead"
        BY <2>3, <3>2 DEF Alive
      <3> HIDE DEF h
      <3>4. QED BY <1>1, <2>1, <3>1, <3>2, <3>3, ForgettingKeepsWorkers
    <2>4. QED BY <2>2, <2>3
  <1>4. CASE GivesUp(p)
    <2>1. handle[p].child # Nothing /\ handle[p].up
      BY <1>4, BusyIsUp DEF GivesUp, At, WorkerInv, HandlesHold
    <2> DEFINE h == [[handle[p] EXCEPT !.at = "rest"] EXCEPT !.child = Nothing]
    <2>2. h \in Handle /\ h.up /\ h.child = Nothing /\ h.at \in {"rest", "probe"}
      BY <1>1, <1>2, <2>1 DEF Handle
    <2>3. handle' = [handle EXCEPT ![p] = h] /\ path' = Nothing
          /\ UNCHANGED <<keeper, faults>>
          /\ worker' = [worker EXCEPT ![handle[p].child] = "dead"]
      BY <1>1, <1>4 DEF GivesUp, Forgets
    <2>4. /\ worker' \in [Workers -> WorkerStates] /\ worker'[handle[p].child] = "dead"
          /\ \A w \in Workers \ {handle[p].child} : worker'[w] = worker[w]
      BY <1>1, <2>1, <2>3
    <2> HIDE DEF h
    <2>5. QED BY <2>1, <2>2, <2>3, <2>4, ForgettingKeepsWorkers
  <1>5. CASE Diagnose(p)
    <2>1. handle[p].child # Nothing /\ handle[p].up /\ ~Alive(handle[p].child)
      BY <1>5 DEF Diagnose, WorkerInv, HandlesHold, Down
    <2> DEFINE h == [[handle[p] EXCEPT !.at = "rest"] EXCEPT !.child = Nothing]
    <2>2. h \in Handle /\ h.up /\ h.child = Nothing /\ h.at \in {"rest", "probe"}
      BY <1>1, <1>2, <2>1 DEF Handle
    <2>3. handle' = [handle EXCEPT ![p] = h] /\ path' = Nothing
          /\ UNCHANGED <<worker, keeper, faults>>
      BY <1>1, <1>5 DEF Diagnose, Forgets
    <2>4. worker'[handle[p].child] = "dead"
      BY <2>1, <2>3 DEF Alive
    <2> HIDE DEF h
    <2>5. QED BY <1>1, <2>1, <2>2, <2>3, <2>4, ForgettingKeepsWorkers
  <1>6. CASE Shutdown(p)
    <2>1. CASE handle[p].child = Nothing
      <3>1. handle' = [handle EXCEPT ![p] = Down] /\ UNCHANGED <<worker, path, keeper, faults>>
        BY <1>6, <2>1 DEF Shutdown
      <3>2. QED BY <1>1, <1>2, <2>1, <3>1, ForgettingKeepsWorkers
    <2>2. CASE handle[p].child # Nothing
      <3>1. handle' = [handle EXCEPT ![p] = Down] /\ path' = Nothing
            /\ UNCHANGED <<keeper, faults>>
            /\ worker' = [worker EXCEPT ![handle[p].child] = "dead"]
        BY <1>6, <2>2 DEF Shutdown
      <3>2. /\ worker' \in [Workers -> WorkerStates] /\ worker'[handle[p].child] = "dead"
            /\ \A w \in Workers \ {handle[p].child} : worker'[w] = worker[w]
        BY <1>1, <2>2, <3>1
      <3>3. QED BY <1>2, <2>2, <3>1, <3>2, ForgettingKeepsWorkers
    <2>3. QED BY <2>1, <2>2
  <1>7. QED BY <1>3, <1>4, <1>5, <1>6

\* A worker that is spawned is the child of a process that is up.
LEMMA SpawningKeepsWorkers ==
    ASSUME WorkerInv, NEW p \in Sessions, Spawn(p)
    PROVE  WorkerInv'
  <1>1. PICK w \in Unused :
           /\ worker' = [worker EXCEPT ![w] = "starting"]
           /\ keeper' = [keeper EXCEPT ![w] = "followed"]
           /\ handle' = [[handle EXCEPT ![p].at = "await"] EXCEPT ![p].child = w]
           /\ UNCHANGED <<path, faults>>
    BY DEF Spawn
  <1>2. /\ w \in Workers /\ w # Nothing /\ path # w
        /\ \A q \in Sessions : handle[q].child # w
    BY <1>1, NothingIsNoWorker DEF Unused
  <1>3. handle[p].up /\ handle[p].child = Nothing
    BY BusyIsUp DEF Spawn, At, WorkerInv, HandlesHold
  <1>4. /\ handle' \in [Sessions -> Handle]
        /\ handle'[p].up /\ handle'[p].at = "await" /\ handle'[p].child = w
        /\ \A q \in Sessions \ {p} : handle'[q] = handle[q]
    BY <1>1, <1>2, <1>3 DEF WorkerInv, WorkerTypeOK, Handle, Steps
  <1>5. /\ keeper' \in [Workers -> Keepers] /\ keeper'[w] = "followed"
        /\ \A v \in Workers \ {w} : keeper'[v] = keeper[v]
        /\ worker' \in [Workers -> WorkerStates]
        /\ \A v \in Workers \ {w} : worker'[v] = worker[v]
    BY <1>1, <1>2 DEF WorkerInv, WorkerTypeOK, Keepers, WorkerStates
  <1>6. WorkerTypeOK'
    BY <1>1, <1>4, <1>5 DEF WorkerInv, WorkerTypeOK
  <1>7. HandlesHold'
    <2>1. ASSUME NEW q \in Sessions
          PROVE  /\ ~handle'[q].up => handle'[q] = Down
                 /\ handle'[q].at \in {"own", "await"} => handle'[q].child # Nothing
                 /\ handle'[q].at = "probe" => handle'[q].child = Nothing
                 /\ handle'[q].child # Nothing =>
                      /\ keeper'[handle'[q].child] = "followed"
                      /\ \A o \in Sessions : handle'[o].child = handle'[q].child => o = q
      <3>1. CASE q = p
        BY <1>2, <1>4, <1>5, <3>1
      <3>2. CASE q # p
        <4>1. handle'[q] = handle[q] /\ handle[q].child # w
              /\ handle[q].child \in Workers \union {Nothing}
          BY <1>2, <1>4, <3>2 DEF WorkerInv, WorkerTypeOK, Handle
        <4>2. QED BY <1>4, <1>5, <3>2, <4>1 DEF WorkerInv, HandlesHold, At
      <3>3. QED BY <3>1, <3>2
    <2>2. QED BY <2>1 DEF HandlesHold, At
  <1>8. ASSUME NEW v \in Workers, Accounted(v)
        PROVE  Accounted(v)'
    <2>1. CASE v = w
      BY <1>4, <2>1 DEF Accounted
    <2>2. CASE v # w
      BY <1>3, <1>4, <1>5, <1>8, <2>2, NothingIsNoWorker DEF Accounted
    <2>3. QED BY <2>1, <2>2
  <1>9. Accounted(w)'
    BY <1>4 DEF Accounted
  <1>10. NothingLeftBehind'
    BY <1>1, <1>5, <1>8, <1>9 DEF WorkerInv, WorkerTypeOK, NothingLeftBehind, Alive
  <1>11. QED BY <1>6, <1>7, <1>10 DEF WorkerInv

LEMMA StartingKeepsWorkers ==
    ASSUME WorkerInv, NEW p \in Sessions, ProcessStarts(p)
    PROVE  WorkerInv'
  <1>1. /\ handle[p] = Down /\ UNCHANGED <<worker, path, keeper, faults>>
        /\ handle' = [handle EXCEPT ![p].up = TRUE]
    BY DEF ProcessStarts, WorkerInv, HandlesHold
  <1> DEFINE started == [handle[p] EXCEPT !.up = TRUE]
  <1>2. handle' = [handle EXCEPT ![p] = started] /\ started \in Handle
        /\ started.up /\ started.at = "rest" /\ started.child = Nothing
    <2>1. handle[p] \in Handle /\ handle[p].at = "rest" /\ handle[p].child = Nothing
      <3>1. handle[p] \in Handle
        BY DEF WorkerInv, WorkerTypeOK
      <3>2. Down.at = "rest" /\ Down.child = Nothing
        BY DEF Down
      <3>3. QED BY <1>1, <3>1, <3>2
    <2>2. started \in Handle /\ started.up = TRUE
          /\ started.at = handle[p].at /\ started.child = handle[p].child
      BY <2>1 DEF Handle
    <2>3. handle' = [handle EXCEPT ![p] = started]
      BY <1>1
    <2>4. QED BY <2>1, <2>2, <2>3
  <1>3. /\ handle' \in [Sessions -> Handle]
        /\ handle'[p].up /\ handle'[p].at = "rest" /\ handle'[p].child = Nothing
        /\ \A q \in Sessions \ {p} : handle'[q] = handle[q]
        /\ handle[p].child = Nothing /\ ~handle[p].up
    <2>1. handle'[p] = started /\ handle' \in [Sessions -> Handle]
      BY <1>2 DEF WorkerInv, WorkerTypeOK
    <2>2. started.up /\ started.at = "rest" /\ started.child = Nothing
      BY <1>2
    <2>3. handle[p].child = Nothing /\ ~handle[p].up
      BY <1>1 DEF Down
    <2>4. \A q \in Sessions \ {p} : handle'[q] = handle[q]
      BY <1>2 DEF WorkerInv, WorkerTypeOK
    <2>5. QED BY <2>1, <2>2, <2>3, <2>4
  <1>4. WorkerTypeOK'
    BY <1>1, <1>3 DEF WorkerInv, WorkerTypeOK
  <1>5. HandlesHold'
    <2>1. ASSUME NEW q \in Sessions
          PROVE  /\ ~handle'[q].up => handle'[q] = Down
                 /\ handle'[q].at \in {"own", "await"} => handle'[q].child # Nothing
                 /\ handle'[q].at = "probe" => handle'[q].child = Nothing
                 /\ handle'[q].child # Nothing =>
                      /\ keeper'[handle'[q].child] = "followed"
                      /\ \A o \in Sessions : handle'[o].child = handle'[q].child => o = q
      <3>1. CASE q = p
        BY <1>3, <3>1
      <3>2. CASE q # p
        BY <1>1, <1>3, <3>2 DEF WorkerInv, HandlesHold, At
      <3>3. QED BY <3>1, <3>2
    <2>2. QED BY <2>1 DEF HandlesHold, At
  <1>6. \A w \in Workers : Accounted(w) => Accounted(w)'
    BY <1>1, <1>3 DEF Accounted
  <1>7. NothingLeftBehind'
    BY <1>1, <1>6 DEF WorkerInv, WorkerTypeOK, NothingLeftBehind, Alive
  <1>8. QED BY <1>4, <1>5, <1>7 DEF WorkerInv

\* A worker whose process is killed is nobody's.
LEMMA KillingKeepsWorkers ==
    ASSUME WorkerInv, NEW p \in Sessions, ProcessKilled(p)
    PROVE  WorkerInv'
  <1>1. /\ handle' = [handle EXCEPT ![p] = Down]
        /\ keeper' = [w \in Workers |-> IF w = handle[p].child THEN "nobody" ELSE keeper[w]]
        /\ UNCHANGED <<worker, path>>
        /\ faults' \in 0..MaxFaults
    BY MaxFaultsAssumption DEF ProcessKilled, Fault, WorkerInv, WorkerTypeOK
  <1>2. /\ handle' \in [Sessions -> Handle] /\ handle'[p] = Down
        /\ \A q \in Sessions \ {p} : handle'[q] = handle[q]
        /\ Down.child = Nothing /\ ~Down.up /\ Down.at = "rest"
    BY <1>1 DEF WorkerInv, WorkerTypeOK, Handle, Down, Steps
  <1>3. WorkerTypeOK'
    BY <1>1, <1>2 DEF WorkerInv, WorkerTypeOK, Keepers
  <1>4. HandlesHold'
    <2>1. ASSUME NEW q \in Sessions
          PROVE  /\ ~handle'[q].up => handle'[q] = Down
                 /\ handle'[q].at \in {"own", "await"} => handle'[q].child # Nothing
                 /\ handle'[q].at = "probe" => handle'[q].child = Nothing
                 /\ handle'[q].child # Nothing =>
                      /\ keeper'[handle'[q].child] = "followed"
                      /\ \A o \in Sessions : handle'[o].child = handle'[q].child => o = q
      <3>1. CASE q = p
        BY <1>2, <3>1
      <3>2. CASE q # p
        <4>1. handle'[q] = handle[q] /\ handle[q].child \in Workers \union {Nothing}
          BY <1>2, <3>2 DEF WorkerInv, WorkerTypeOK, Handle
        <4>2. handle[q].child # Nothing => handle[q].child # handle[p].child
          BY <3>2 DEF WorkerInv, HandlesHold
        <4>3. QED BY <1>1, <1>2, <3>2, <4>1, <4>2 DEF WorkerInv, HandlesHold, At
      <3>3. QED BY <3>1, <3>2
    <2>2. QED BY <2>1 DEF HandlesHold, At
  <1>5. \A w \in Workers : Accounted(w) => Accounted(w)'
    <2>1. ASSUME NEW w \in Workers, Accounted(w) PROVE Accounted(w)'
      <3>1. CASE w = handle[p].child
        BY <1>1, <3>1 DEF Accounted
      <3>2. CASE w # handle[p].child
        BY <1>1, <1>2, <2>1, <3>2 DEF Accounted
      <3>3. QED BY <3>1, <3>2
    <2>2. QED BY <2>1
  <1>6. NothingLeftBehind'
    BY <1>1, <1>5 DEF WorkerInv, WorkerTypeOK, NothingLeftBehind, Alive
  <1>7. QED BY <1>3, <1>4, <1>6 DEF WorkerInv

\* Who would stop a worker that is no child of a process that is followed.
LEMMA OthersKeepWorkers ==
    ASSUME WorkerInv, NEW w \in Workers, NEW state \in WorkerStates, NEW kept \in Keepers,
           \A p \in Sessions : handle[p].child # w,
           kept # "followed" \/ (state = "dead" /\ path' # w),
           worker' = [worker EXCEPT ![w] = state],
           keeper' = [keeper EXCEPT ![w] = kept],
           path' = path \/ path' = Nothing,
           UNCHANGED handle, faults' \in 0..MaxFaults
    PROVE  WorkerInv'
  <1>1. /\ keeper' \in [Workers -> Keepers] /\ keeper'[w] = kept
        /\ \A v \in Workers \ {w} : keeper'[v] = keeper[v]
        /\ worker' \in [Workers -> WorkerStates] /\ worker'[w] = state
        /\ \A v \in Workers \ {w} : worker'[v] = worker[v]
    BY DEF WorkerInv, WorkerTypeOK
  <1>2. WorkerTypeOK'
    BY <1>1 DEF WorkerInv, WorkerTypeOK
  <1>3. HandlesHold'
    BY <1>1 DEF WorkerInv, WorkerTypeOK, Handle, HandlesHold, At
  <1>4. \A v \in Workers \ {w} : Accounted(v) => Accounted(v)'
    BY <1>1 DEF Accounted
  <1>5. kept # "followed" => Accounted(w)'
    BY <1>1 DEF Accounted
  <1>6. NothingLeftBehind'
    BY <1>1, <1>4, <1>5 DEF WorkerInv, WorkerTypeOK, NothingLeftBehind, Alive
  <1>7. QED BY <1>2, <1>3, <1>6 DEF WorkerInv

LEMMA ElsewhereKeepsWorkers ==
    ASSUME WorkerInv, Elsewhere
    PROVE  WorkerInv'
  <1>1. {"starting", "dead"} \subseteq WorkerStates /\ Keepers = {"followed", "elsewhere", "nobody"}
    BY DEF WorkerStates, Keepers
  <1>2. faults' \in 0..MaxFaults
    BY MaxFaultsAssumption DEF Elsewhere, ElsewhereSpawns, ElsewhereStops, ElsewhereKilled, Fault,
      WorkerInv, WorkerTypeOK
  <1>3. \A w \in Workers : keeper[w] = "elsewhere" => \A p \in Sessions : handle[p].child # w
    BY NothingIsNoWorker DEF WorkerInv, HandlesHold
  <1>4. CASE ElsewhereSpawns
    BY <1>1, <1>2, <1>4, OthersKeepWorkers DEF ElsewhereSpawns, Unused
  <1>5. ASSUME NEW w \in Workers, ElsewhereStops(w)
        PROVE  WorkerInv'
    BY <1>1, <1>2, <1>3, <1>5, NothingIsNoWorker, OthersKeepWorkers DEF ElsewhereStops
  <1>6. ASSUME NEW w \in Workers, ElsewhereKilled(w)
        PROVE  WorkerInv'
    <2>1. worker[w] \in WorkerStates /\ worker' = [worker EXCEPT ![w] = worker[w]]
      BY <1>6 DEF ElsewhereKilled, WorkerInv, WorkerTypeOK
    <2>2. QED BY <1>1, <1>2, <1>3, <1>6, <2>1, OthersKeepWorkers DEF ElsewhereKilled
  <1>7. QED BY <1>4, <1>5, <1>6 DEF Elsewhere

\* A worker binds the path when it is alive, and so has somebody who follows it.
LEMMA WorkersKeepWorkers ==
    ASSUME WorkerInv, WorkerStep
    PROVE  WorkerInv'
  <1>1. faults' \in 0..MaxFaults /\ UNCHANGED <<handle, keeper>>
    BY MaxFaultsAssumption DEF WorkerStep, Validate, Bind, WorkerDies, Fault, WorkerInv, WorkerTypeOK
  <1>2. worker' \in [Workers -> WorkerStates]
    BY DEF WorkerStep, Validate, Bind, WorkerDies, WorkerInv, WorkerTypeOK, WorkerStates
  <1>3. \A w \in Workers : Alive(w)' => Alive(w)
    BY DEF WorkerStep, Validate, Bind, WorkerDies, Alive, WorkerInv, WorkerTypeOK
  <1>4. path' = path \/ \E w \in Workers : path' = w /\ Alive(w)
    BY DEF WorkerStep, Validate, Bind, WorkerDies, Alive
  <1>5. WorkerTypeOK'
    BY <1>1, <1>2, <1>4 DEF WorkerInv, WorkerTypeOK
  <1>6. HandlesHold'
    BY <1>1 DEF WorkerInv, HandlesHold, At
  <1>7. \A w \in Workers : Accounted(w)' <=> Accounted(w)
    BY <1>1 DEF Accounted
  <1>8. NothingLeftBehind'
    BY <1>3, <1>4, <1>7 DEF WorkerInv, WorkerTypeOK, NothingLeftBehind
  <1>9. QED BY <1>5, <1>6, <1>8 DEF WorkerInv

LEMMA FaultKeepsWorkers ==
    ASSUME WorkerInv, UNCHANGED <<worker, path, handle, keeper>>, Fault \/ UNCHANGED faults
    PROVE  WorkerInv'
  <1>1. faults' \in 0..MaxFaults
    BY MaxFaultsAssumption DEF Fault, WorkerInv, WorkerTypeOK
  <1>2. QED BY <1>1 DEF WorkerInv, WorkerTypeOK, HandlesHold, At, NothingLeftBehind, Accounted, Alive

-----------------------------------------------------------------------------
(* The steps of a question                                                 *)

Store == [Notes -> Texts \union {Nothing}]

\* The notes that are not held are those without a vector.
LEMMA WithoutHolds ==
    ASSUME NEW index \in Vectors, NEW gone \in SUBSET Notes
    PROVE  /\ Without(index, gone) \in Vectors
           /\ Held(Without(index, gone)) = Held(index) \ gone
           /\ \A n \in Notes : Without(index, gone)[n] = IF n \in gone THEN Nothing ELSE index[n]
  BY DEF Without, Vectors, Held

LEMMA ListKeeps ==
    ASSUME NEW s, NEW h, NEW texts \in Store, NEW vectors, SessionInv(s, h, texts, vectors),
           s.stage = "list",
           NEW listed \in SUBSET Notes, NEW missed \in BOOLEAN,
           \A n \in listed : texts[n] # Nothing,
           missed \/ \A n \in Notes : texts[n] # Nothing => n \in listed,
           NEW gone, gone = Held(s.index) \ listed,
           NEW t, t = [s EXCEPT !.stage = "read", !.index = Without(s.index, gone),
                                !.dirty = s.dirty \/ gone # {},
                                !.todo = listed \ Held(s.index)],
           NEW g, g = [h EXCEPT !.had = Without(h.had, gone),
                                !.missed = h.missed \/ missed]
    PROVE  SessionInv(t, g, texts, vectors)
  <1>1. s \in Session /\ h \in Past /\ s.index \in Vectors /\ h.had \in Vectors
        /\ gone \in SUBSET Notes
    BY DEF SessionInv, Session, Past, Held
  <1>2. /\ Without(s.index, gone) \in Vectors /\ Without(h.had, gone) \in Vectors
        /\ Held(Without(s.index, gone)) = Held(s.index) \ gone
        /\ \A n \in Notes : Without(s.index, gone)[n] = IF n \in gone THEN Nothing ELSE s.index[n]
        /\ \A n \in Notes : Without(h.had, gone)[n] = IF n \in gone THEN Nothing ELSE h.had[n]
    BY <1>1, WithoutHolds
  <1>3. listed \ Held(s.index) \in SUBSET Notes /\ (s.dirty \/ gone # {}) \in BOOLEAN
        /\ (h.missed \/ missed) \in BOOLEAN
    OBVIOUS
  <1>4. /\ t \in Session /\ g \in Past
        /\ t.stage = "read" /\ t.index = Without(s.index, gone) /\ t.todo = listed \ Held(s.index)
        /\ t.dirty = (s.dirty \/ gone # {})
        /\ t.doc = s.doc /\ t.forget = s.forget /\ t.found = s.found /\ t.hits = s.hits
        /\ g.had = Without(h.had, gone) /\ g.changed = h.changed /\ g.missed = (h.missed \/ missed)
        /\ g.replaced = h.replaced
    BY <1>1, <1>2, <1>3 DEF Session, Past, Stages
  <1>5. s.doc = Nothing /\ s.forget = {}
    BY DEF SessionInv, InOrder
  <1>6. InOrder(t)
    BY <1>2, <1>4, <1>5 DEF InOrder
  <1>7. Claimed(t, g)
    BY <1>4 DEF Claimed
  <1>8. UpToDate(t, g, texts)
    <2>1. Held(t.index) = Held(s.index) \intersect listed
      BY <1>1, <1>2, <1>4 DEF Held
    <2>2. \A n \in Notes : n \in listed => texts[n] # Nothing
      OBVIOUS
    <2>3. g.missed \/ \A n \in Notes : texts[n] # Nothing => n \in listed
      BY <1>4
    <2>4. QED BY <1>4, <1>5, <2>1, <2>2, <2>3 DEF UpToDate
  <1>9. Obtained(t, g)
    BY <1>2, <1>4, <1>5 DEF SessionInv, Obtained
  <1>10. Filed(t, g, vectors)
    BY <1>1, <1>2, <1>4 DEF SessionInv, Filed, Held
  <1>11. QED BY <1>4, <1>6, <1>7, <1>8, <1>9, <1>10 DEF SessionInv

\* A note is passed over: it is gone, or is missed.
LEMMA SkipKeeps ==
    ASSUME NEW s, NEW h, NEW texts \in Store, NEW vectors, SessionInv(s, h, texts, vectors),
           NEW n \in s.todo, s.stage = "read", s.doc = Nothing,
           NEW t, t = [s EXCEPT !.todo = s.todo \ {n}],
           NEW g, g = [h EXCEPT !.missed = h.missed \/ texts[n] # Nothing]
    PROVE  SessionInv(t, g, texts, vectors)
  <1>1. /\ t \in Session /\ g \in Past
        /\ t.stage = s.stage /\ t.index = s.index /\ t.todo = s.todo \ {n} /\ t.dirty = s.dirty
        /\ t.doc = s.doc /\ t.forget = s.forget
        /\ g.had = h.had /\ g.changed = h.changed /\ g.missed = (h.missed \/ texts[n] # Nothing)
        /\ g.replaced = h.replaced
    BY DEF SessionInv, Session, Past
  <1>2. InOrder(t) /\ Claimed(t, g) /\ Obtained(t, g) /\ Filed(t, g, vectors)
    BY <1>1 DEF SessionInv, InOrder, Claimed, Obtained, Filed
  <1>3. UpToDate(t, g, texts)
    BY <1>1 DEF SessionInv, UpToDate
  <1>4. QED BY <1>1, <1>2, <1>3 DEF SessionInv

LEMMA ReadBlankKeeps ==
    ASSUME NEW s, NEW h, NEW texts \in Store, NEW vectors, SessionInv(s, h, texts, vectors),
           NEW n \in s.todo, s.stage = "read", s.doc = Nothing, texts[n] \in Blank,
           NEW t, t = [s EXCEPT !.todo = s.todo \ {n}, !.dirty = TRUE],
           NEW g, g = [h EXCEPT !.had = [h.had EXCEPT ![n] = Nothing]]
    PROVE  SessionInv(t, g, texts, vectors)
  <1>1. n \in Notes /\ h.had \in Vectors /\ [h.had EXCEPT ![n] = Nothing] \in Vectors
        /\ \A m \in Notes : [h.had EXCEPT ![n] = Nothing][m] = IF m = n THEN Nothing ELSE h.had[m]
    BY DEF SessionInv, Session, Past, Vectors
  <1>2. /\ t \in Session /\ g \in Past
        /\ t.stage = s.stage /\ t.index = s.index /\ t.todo = s.todo \ {n} /\ t.dirty
        /\ t.doc = s.doc /\ t.forget = s.forget
        /\ g.had = [h.had EXCEPT ![n] = Nothing] /\ g.changed = h.changed /\ g.missed = h.missed /\ g.replaced = h.replaced
    BY <1>1 DEF SessionInv, Session, Past
  <1>3. InOrder(t) /\ Claimed(t, g) /\ Filed(t, g, vectors)
    BY <1>2 DEF SessionInv, InOrder, Claimed, Filed
  <1>4. Obtained(t, g)
    BY <1>1, <1>2 DEF SessionInv, Obtained, InOrder
  <1>5. UpToDate(t, g, texts)
    BY <1>2 DEF SessionInv, UpToDate
  <1>6. QED BY <1>2, <1>3, <1>4, <1>5 DEF SessionInv

\* A note that is read is not held, so what was obtained for it was dropped.
LEMMA ReadNoteKeeps ==
    ASSUME NEW s, NEW h, NEW texts \in Store, NEW vectors, SessionInv(s, h, texts, vectors),
           NEW n \in s.todo, s.stage = "read", s.doc = Nothing, texts[n] \in Texts \ Blank,
           NEW t, t = [s EXCEPT !.todo = s.todo \ {n}, !.doc = [note |-> n, text |-> texts[n]]],
           NEW g, g = [h EXCEPT !.had =
                         [h.had EXCEPT ![n] = IF h.had[n] = texts[n] THEN h.had[n] ELSE Nothing]]
    PROVE  SessionInv(t, g, texts, vectors)
  <1> DEFINE doc == [note |-> n, text |-> texts[n]]
             had == [h.had EXCEPT ![n] = IF h.had[n] = texts[n] THEN h.had[n] ELSE Nothing]
  <1>1. n \in Notes /\ h.had \in Vectors /\ s.index \in Vectors
    BY DEF SessionInv, Session, Past
  <1>2. s.index[n] = Nothing
    BY <1>1 DEF SessionInv, InOrder, Held
  <1>3. h.had[n] = Nothing
    BY <1>1, <1>2 DEF SessionInv, Obtained
  <1>4. had \in Vectors /\ had[n] = Nothing /\ \A m \in Notes : had[m] = h.had[m]
    BY <1>1, <1>3 DEF Vectors
  <1>5. doc \in [note : Notes, text : Texts] /\ doc.note = n /\ doc.text = texts[n]
    BY <1>1
  <1> HIDE DEF doc, had
  <1>6. t = [s EXCEPT !.todo = s.todo \ {n}, !.doc = doc] /\ g = [h EXCEPT !.had = had]
    BY DEF doc, had
  <1>7. /\ t \in Session /\ g \in Past
        /\ t.stage = s.stage /\ t.index = s.index /\ t.todo = s.todo \ {n} /\ t.dirty = s.dirty
        /\ t.doc = doc /\ t.forget = s.forget
        /\ g.had = had /\ g.changed = h.changed /\ g.missed = h.missed /\ g.replaced = h.replaced
    <2>1. g \in Past /\ g.had = had /\ g.changed = h.changed /\ g.missed = h.missed /\ g.replaced = h.replaced
      BY <1>4, <1>6 DEF SessionInv, Past
    <2>2. /\ s \in Session /\ s.todo \ {n} \in SUBSET Notes
          /\ doc \in [note : Notes, text : Texts] \union {Nothing}
      BY <1>5 DEF SessionInv, Session
    <2>3. /\ t \in Session
          /\ t.stage = s.stage /\ t.index = s.index /\ t.todo = s.todo \ {n}
          /\ t.dirty = s.dirty /\ t.doc = doc /\ t.forget = s.forget
      BY <1>6, <2>2 DEF Session
    <2>4. QED BY <2>1, <2>3
  <1>8. doc.text # Nothing
    BY <1>5, TextsAssumption
  <1>9. InOrder(t) /\ Claimed(t, g) /\ Filed(t, g, vectors)
    BY <1>5, <1>7 DEF SessionInv, InOrder, Claimed, Filed
  <1>10. Obtained(t, g)
    BY <1>4, <1>5, <1>7, <1>8 DEF SessionInv, Obtained, InOrder
  <1>11. UpToDate(t, g, texts)
    <2>1. /\ t.stage = s.stage /\ t.index = s.index /\ g.changed = h.changed /\ g.missed = h.missed /\ g.replaced = h.replaced
          /\ t.doc.note = n /\ t.doc.text = texts[n] /\ t.doc # Nothing
      BY <1>5, <1>7, NothingIsNoDocument
    <2>2. \A m \in Notes \ {n} : m \in t.todo <=> m \in s.todo
      BY <1>7
    <2>3. QED BY <2>1, <2>2 DEF SessionInv, UpToDate
  <1>12. QED BY <1>7, <1>9, <1>10, <1>11 DEF SessionInv

\* A vector that comes is in the index, and owed to the cache.
LEMMA EmbeddedKeeps ==
    ASSUME NEW s, NEW h, NEW texts \in Store, NEW vectors, SessionInv(s, h, texts, vectors),
           s.stage = "read", s.doc # Nothing,
           NEW t, t = [s EXCEPT !.index = [s.index EXCEPT ![s.doc.note] = s.doc.text],
                                !.dirty = TRUE, !.doc = Nothing],
           NEW g, g = [h EXCEPT !.had = [h.had EXCEPT ![s.doc.note] = s.doc.text]]
    PROVE  SessionInv(t, g, texts, vectors)
  <1> DEFINE n == s.doc.note
             index == [s.index EXCEPT ![n] = s.doc.text]
             had == [h.had EXCEPT ![n] = s.doc.text]
  <1>1. n \in Notes /\ s.doc.text \in Texts \ Blank /\ s.doc.text # Nothing
        /\ h.had \in Vectors /\ s.index \in Vectors /\ n \notin s.todo
    BY TextsAssumption DEF SessionInv, Session, Past, InOrder
  <1>2. /\ index \in Vectors /\ had \in Vectors
        /\ \A m \in Notes : index[m] = IF m = n THEN s.doc.text ELSE s.index[m]
        /\ \A m \in Notes : had[m] = IF m = n THEN s.doc.text ELSE h.had[m]
    BY <1>1 DEF Vectors
  <1>3. Held(index) = Held(s.index) \union {n}
    BY <1>1, <1>2 DEF Held
  <1> HIDE DEF index, had
  <1>4. /\ t = [s EXCEPT !.index = index, !.dirty = TRUE, !.doc = Nothing]
        /\ g = [h EXCEPT !.had = had]
    BY DEF index, had
  <1>5. /\ t \in Session /\ g \in Past
        /\ t.stage = s.stage /\ t.index = index /\ t.todo = s.todo /\ t.dirty
        /\ t.doc = Nothing /\ t.forget = s.forget
        /\ g.had = had /\ g.changed = h.changed /\ g.missed = h.missed /\ g.replaced = h.replaced
    BY <1>2, <1>4 DEF SessionInv, Session, Past
  <1>6. InOrder(t)
    BY <1>1, <1>3, <1>5 DEF SessionInv, InOrder
  <1>7. Claimed(t, g) /\ Filed(t, g, vectors)
    BY <1>5 DEF SessionInv, Claimed, Filed
  <1>8. Obtained(t, g)
    <2>1. s.forget = {}
      BY DEF SessionInv, InOrder
    <2>2. \A m \in Notes : had[m] \in {Nothing, index[m]}
      BY <1>2 DEF SessionInv, Obtained
    <2>3. QED BY <1>5, <2>1, <2>2 DEF Obtained
  <1>9. UpToDate(t, g, texts)
    BY <1>1, <1>2, <1>3, <1>5 DEF SessionInv, UpToDate, n
  <1>10. QED BY <1>5, <1>6, <1>7, <1>8, <1>9 DEF SessionInv

LEMMA NotEmbeddedKeeps ==
    ASSUME NEW s, NEW h, NEW texts \in Store, NEW vectors, SessionInv(s, h, texts, vectors),
           NEW t, t = [s EXCEPT !.doc = Nothing],
           NEW g, g = [h EXCEPT !.missed = TRUE]
    PROVE  SessionInv(t, g, texts, vectors)
  <1>1. /\ t \in Session /\ g \in Past
        /\ t.stage = s.stage /\ t.index = s.index /\ t.todo = s.todo /\ t.dirty = s.dirty
        /\ t.doc = Nothing /\ t.forget = s.forget /\ t.found = s.found /\ t.hits = s.hits
        /\ t.unavailable = s.unavailable
        /\ g.had = h.had /\ g.changed = h.changed /\ g.missed /\ g.replaced = h.replaced
    BY DEF SessionInv, Session, Past
  <1>2. InOrder(t) /\ Claimed(t, g) /\ Obtained(t, g) /\ Filed(t, g, vectors) /\ UpToDate(t, g, texts)
    BY <1>1 DEF SessionInv, InOrder, Claimed, Obtained, Filed, UpToDate
  <1>3. QED BY <1>1, <1>2 DEF SessionInv

LEMMA AsksKeeps ==
    ASSUME NEW s, NEW h, NEW texts, NEW vectors, SessionInv(s, h, texts, vectors),
           s.stage = "read", s.todo = {}, s.doc = Nothing,
           NEW t, t = [s EXCEPT !.stage = "ask"]
    PROVE  SessionInv(t, h, texts, vectors)
  <1>1. /\ t \in Session
        /\ t.stage = "ask" /\ t.index = s.index /\ t.todo = s.todo /\ t.dirty = s.dirty
        /\ t.doc = s.doc /\ t.forget = s.forget
    BY DEF SessionInv, Session, Stages
  <1>2. InOrder(t) /\ Claimed(t, h) /\ Obtained(t, h) /\ Filed(t, h, vectors)
    BY <1>1 DEF SessionInv, InOrder, Claimed, Obtained, Filed
  <1>3. UpToDate(t, h, texts)
    BY <1>1 DEF SessionInv, UpToDate
  <1>4. QED BY <1>1, <1>2, <1>3 DEF SessionInv

\* The worker names notes that are held; without it none is named, and that is known.
LEMMA ClaimsKeep ==
    ASSUME NEW s, NEW h, NEW texts, NEW vectors, SessionInv(s, h, texts, vectors),
           s.stage = "ask",
           NEW hits \in SUBSET Held(s.index), NEW unavailable \in BOOLEAN,
           NEW t, t = [s EXCEPT !.stage = "enumerate", !.hits = hits, !.unavailable = unavailable],
           NEW g, g = h \/ g = [h EXCEPT !.missed = TRUE],
           unavailable => g.missed
    PROVE  SessionInv(t, g, texts, vectors)
  <1>1. hits \in SUBSET Notes
    BY DEF Held
  <1>2. /\ t \in Session
        /\ t.stage = "enumerate" /\ t.index = s.index /\ t.todo = s.todo /\ t.dirty = s.dirty
        /\ t.doc = s.doc /\ t.forget = s.forget /\ t.hits = hits /\ t.unavailable = unavailable
    BY <1>1 DEF SessionInv, Session, Stages
  <1>3. g \in Past /\ g.had = h.had /\ g.changed = h.changed /\ (h.missed => g.missed)
        /\ g.replaced = h.replaced
    BY DEF SessionInv, Past
  <1>4. InOrder(t) /\ Claimed(t, g) /\ Obtained(t, g) /\ Filed(t, g, vectors)
    BY <1>2, <1>3 DEF SessionInv, InOrder, Claimed, Obtained, Filed
  <1>5. UpToDate(t, g, texts)
    BY <1>2, <1>3 DEF SessionInv, InOrder, UpToDate
  <1>6. QED BY <1>2, <1>3, <1>4, <1>5 DEF SessionInv

LEMMA EnumerateKeeps ==
    ASSUME NEW s, NEW h, NEW texts \in Store, NEW vectors, SessionInv(s, h, texts, vectors),
           s.stage = "enumerate",
           NEW listed, NEW missed \in BOOLEAN,
           NEW t, t = [s EXCEPT !.stage = "verify", !.todo = s.hits \intersect listed,
                                !.forget = s.hits \ listed, !.found = {}],
           NEW g, g = [h EXCEPT !.had = Without(h.had, s.hits \ listed),
                                !.missed = h.missed \/ missed]
    PROVE  SessionInv(t, g, texts, vectors)
  <1>1. /\ s \in Session /\ h \in Past /\ h.had \in Vectors
        /\ s.hits \in SUBSET Notes /\ s.hits \ listed \in SUBSET Notes
        /\ s.hits \intersect listed \in SUBSET Notes
    BY DEF SessionInv, Session, Past
  <1>2. /\ Without(h.had, s.hits \ listed) \in Vectors
        /\ \A n \in Notes : Without(h.had, s.hits \ listed)[n] =
                              IF n \in s.hits \ listed THEN Nothing ELSE h.had[n]
    BY <1>1, WithoutHolds
  <1>3. /\ t \in Session
        /\ t.stage = "verify" /\ t.index = s.index /\ t.todo = s.hits \intersect listed
        /\ t.dirty = s.dirty /\ t.doc = s.doc /\ t.forget = s.hits \ listed /\ t.found = {}
        /\ t.hits = s.hits /\ t.unavailable = s.unavailable
    BY <1>1 DEF Session, Stages
  <1>4. g \in Past /\ g.had = Without(h.had, s.hits \ listed) /\ g.changed = h.changed
        /\ g.missed = (h.missed \/ missed) /\ g.replaced = h.replaced
    BY <1>1, <1>2 DEF Past
  <1>5. s.doc = Nothing
    BY DEF SessionInv, InOrder
  <1>6. InOrder(t) /\ Claimed(t, g)
    BY <1>3, <1>4, <1>5 DEF SessionInv, InOrder, Claimed
  <1>7. Obtained(t, g) /\ Filed(t, g, vectors)
    BY <1>1, <1>2, <1>3, <1>4, <1>5 DEF SessionInv, Obtained, Filed
  <1>8. UpToDate(t, g, texts)
    BY <1>3, <1>4, <1>5 DEF SessionInv, UpToDate
  <1>9. QED BY <1>3, <1>4, <1>6, <1>7, <1>8 DEF SessionInv

\* Of a note that is verified: it is found as it is, to be forgotten, or missed.
LEMMA VerifyKeeps ==
    ASSUME NEW s, NEW h, NEW texts \in Store, NEW vectors, SessionInv(s, h, texts, vectors),
           s.stage = "verify", NEW n \in s.todo, NEW t, NEW g,
           \/ /\ texts[n] = s.index[n] /\ g = h
              /\ t = [s EXCEPT !.todo = s.todo \ {n}, !.found = s.found \union {n}]
           \/ /\ g = [h EXCEPT !.had = [h.had EXCEPT ![n] = Nothing]]
              /\ t = [s EXCEPT !.todo = s.todo \ {n}, !.forget = s.forget \union {n}]
           \/ /\ g = [h EXCEPT !.missed = TRUE]
              /\ t = [s EXCEPT !.todo = s.todo \ {n}]
    PROVE  SessionInv(t, g, texts, vectors)
  <1>1. s \in Session /\ h \in Past /\ n \in Notes /\ h.had \in Vectors
        /\ s.doc = Nothing
    BY DEF SessionInv, Session, Past, InOrder
  <1>2. CASE /\ texts[n] = s.index[n] /\ g = h
             /\ t = [s EXCEPT !.todo = s.todo \ {n}, !.found = s.found \union {n}]
    <2>1. /\ t \in Session
          /\ t.stage = "verify" /\ t.index = s.index /\ t.todo = s.todo \ {n}
          /\ t.dirty = s.dirty /\ t.doc = s.doc /\ t.forget = s.forget
          /\ t.found = s.found \union {n} /\ t.hits = s.hits /\ t.unavailable = s.unavailable
      BY <1>1, <1>2 DEF Session
    <2>2. InOrder(t) /\ Claimed(t, g) /\ Obtained(t, g) /\ Filed(t, g, vectors)
      BY <1>1, <1>2, <2>1 DEF SessionInv, InOrder, Claimed, Obtained, Filed
    <2>3. UpToDate(t, g, texts)
      BY <1>1, <1>2, <2>1 DEF SessionInv, UpToDate
    <2>4. QED BY <1>1, <1>2, <2>1, <2>2, <2>3 DEF SessionInv
  <1>3. CASE /\ g = [h EXCEPT !.had = [h.had EXCEPT ![n] = Nothing]]
             /\ t = [s EXCEPT !.todo = s.todo \ {n}, !.forget = s.forget \union {n}]
    <2>1. [h.had EXCEPT ![n] = Nothing] \in Vectors
          /\ \A m \in Notes : [h.had EXCEPT ![n] = Nothing][m] = IF m = n THEN Nothing ELSE h.had[m]
      BY <1>1 DEF Vectors
    <2>2. g \in Past /\ g.had = [h.had EXCEPT ![n] = Nothing] /\ g.changed = h.changed
          /\ g.missed = h.missed /\ g.replaced = h.replaced
      BY <1>1, <1>3, <2>1 DEF Past
    <2>3. /\ t \in Session
          /\ t.stage = "verify" /\ t.index = s.index /\ t.todo = s.todo \ {n}
          /\ t.dirty = s.dirty /\ t.doc = s.doc /\ t.forget = s.forget \union {n}
          /\ t.found = s.found /\ t.hits = s.hits /\ t.unavailable = s.unavailable
      BY <1>1, <1>3 DEF Session
    <2>4. InOrder(t) /\ Claimed(t, g) /\ Filed(t, g, vectors)
      BY <1>1, <2>2, <2>3 DEF SessionInv, InOrder, Claimed, Filed
    <2>5. Obtained(t, g)
      BY <1>1, <2>1, <2>2, <2>3 DEF SessionInv, Session, Obtained
    <2>6. UpToDate(t, g, texts)
      BY <1>1, <2>2, <2>3 DEF SessionInv, UpToDate
    <2>7. QED BY <2>2, <2>3, <2>4, <2>5, <2>6 DEF SessionInv
  <1>4. CASE /\ g = [h EXCEPT !.missed = TRUE]
             /\ t = [s EXCEPT !.todo = s.todo \ {n}]
    <2>1. g \in Past /\ g.had = h.had /\ g.changed = h.changed /\ g.missed /\ g.replaced = h.replaced
      BY <1>1, <1>4 DEF Past
    <2>2. /\ t \in Session
          /\ t.stage = "verify" /\ t.index = s.index /\ t.todo = s.todo \ {n}
          /\ t.dirty = s.dirty /\ t.doc = s.doc /\ t.forget = s.forget
          /\ t.found = s.found /\ t.hits = s.hits /\ t.unavailable = s.unavailable
      BY <1>1, <1>4 DEF Session
    <2>3. InOrder(t) /\ Claimed(t, g) /\ Obtained(t, g) /\ Filed(t, g, vectors)
      BY <1>1, <2>1, <2>2 DEF SessionInv, InOrder, Claimed, Obtained, Filed
    <2>4. UpToDate(t, g, texts)
      BY <1>1, <2>1, <2>2 DEF SessionInv, UpToDate
    <2>5. QED BY <2>1, <2>2, <2>3, <2>4 DEF SessionInv
  <1>5. QED BY <1>2, <1>3, <1>4

\* A pass ends, and its stale vectors are forgotten.
LEMMA LeavingKeeps ==
    ASSUME NEW s, NEW h, NEW texts, NEW vectors, NEW written, SessionInv(s, h, texts, vectors),
           NEW t \in Session, NEW g \in Past,
           s.doc = Nothing,
           t.stage \in {"rest", "over", "list"}, t.index = Without(s.index, s.forget),
           t.forget = {}, t.doc = Nothing, g.had = h.had,
           Filed(t, g, written)
    PROVE  SessionInv(t, g, texts, written)
  <1>1. s.index \in Vectors /\ s.forget \in SUBSET Notes
    BY DEF SessionInv, Session
  <1>2. \A n \in Notes : t.index[n] = IF n \in s.forget THEN Nothing ELSE s.index[n]
    BY <1>1, WithoutHolds
  <1>3. Obtained(t, g)
    BY <1>2 DEF SessionInv, Obtained
  <1>4. InOrder(t) /\ Claimed(t, g) /\ UpToDate(t, g, texts)
    BY DEF InOrder, Claimed, UpToDate
  <1>5. QED BY <1>3, <1>4 DEF SessionInv

\* What is forgotten owes nothing.
LEMMA ForgettingIsFiled ==
    ASSUME NEW s \in Session, NEW h, NEW t, NEW g, NEW vectors, Filed(s, h, vectors),
           t.index = Without(s.index, s.forget), t.dirty = s.dirty, g.replaced = h.replaced
    PROVE  Filed(t, g, vectors)
  <1>1. s.index \in Vectors /\ s.forget \in SUBSET Notes
    BY DEF Session
  <1>2. \A n \in Notes : t.index[n] = IF n \in s.forget THEN Nothing ELSE s.index[n]
    BY <1>1, WithoutHolds
  <1>3. QED BY <1>2 DEF Filed, Held

\* Somebody changes a note.
LEMMA ChangingKeeps ==
    ASSUME NEW s, NEW h, NEW texts, NEW later, NEW vectors, SessionInv(s, h, texts, vectors),
           NEW n \in Notes, \A m \in Notes \ {n} : later[m] = texts[m],
           NEW g, g = IF s.stage \in {"rest", "over"} THEN h
                      ELSE [h EXCEPT !.changed = h.changed \union {n}]
    PROVE  SessionInv(s, g, later, vectors)
  <1>1. CASE s.stage \in {"rest", "over"}
    <2>1. UpToDate(s, h, later)
      BY <1>1 DEF SessionInv, InOrder, UpToDate
    <2>2. QED BY <1>1, <2>1 DEF SessionInv
  <1>2. CASE s.stage \notin {"rest", "over"}
    <2>1. g \in Past /\ g.had = h.had /\ g.changed = h.changed \union {n}
          /\ g.missed = h.missed /\ g.replaced = h.replaced
      BY <1>2 DEF SessionInv, Past
    <2>2. Claimed(s, g) /\ Obtained(s, g) /\ Filed(s, g, vectors)
      BY <2>1 DEF SessionInv, Claimed, Obtained, Filed
    <2>3. UpToDate(s, g, later)
      BY <2>1 DEF SessionInv, UpToDate
    <2>4. QED BY <2>1, <2>2, <2>3 DEF SessionInv
  <1>3. QED BY <1>1, <1>2

\* A session that has not asked yet.
LEMMA NewKeeps ==
    ASSUME NEW texts, NEW vectors, NEW command \in BOOLEAN, NEW t,
           t = [NewSession EXCEPT !.command = command]
    PROVE  SessionInv(NewSession, NoPast, texts, vectors) /\ SessionInv(t, NoPast, texts, vectors)
  <1>1. NoVectors \in Vectors /\ Held(NoVectors) = {} /\ \A n \in Notes : NoVectors[n] = Nothing
    BY DEF NoVectors, Vectors, Held
  <1>2. /\ NoPast \in Past /\ NoPast.had = NoVectors /\ NoPast.changed = {} /\ ~NoPast.missed
    BY <1>1 DEF NoPast, Past
  <1>3. /\ NewSession \in Session
        /\ NewSession.stage = "rest" /\ NewSession.index = NoVectors /\ NewSession.doc = Nothing
        /\ NewSession.forget = {}
    BY <1>1 DEF NewSession, Session, Stages
  <1>4. /\ t \in Session
        /\ t.stage = "rest" /\ t.index = NoVectors /\ t.doc = Nothing /\ t.forget = {}
    BY <1>3 DEF Session
  <1>5. \A s \in Session : s.stage = "rest" /\ s.index = NoVectors /\ s.doc = Nothing /\ s.forget = {}
          => SessionInv(s, NoPast, texts, vectors)
    BY <1>1, <1>2 DEF SessionInv, InOrder, Claimed, UpToDate, Obtained, Filed
  <1>6. QED BY <1>3, <1>4, <1>5

\* A question is asked of what is in memory.
LEMMA AskAgainKeeps ==
    ASSUME NEW s, NEW h, NEW texts, NEW vectors \in Vectors, SessionInv(s, h, texts, vectors),
           s.stage = "rest",
           NEW t, t = [s EXCEPT !.stage = "list", !.pass = 1],
           NEW g, g = [h EXCEPT !.changed = {}, !.missed = FALSE]
    PROVE  SessionInv(t, g, texts, vectors)
  <1>1. s.doc = Nothing /\ s.forget = {} /\ s \in Session /\ h \in Past
    BY DEF SessionInv, InOrder
  <1>2. /\ t \in Session
        /\ t.stage = "list" /\ t.index = s.index /\ t.dirty = s.dirty
        /\ t.doc = Nothing /\ t.forget = {}
    BY <1>1 DEF Session, Stages
  <1>3. g \in Past /\ g.had = h.had /\ g.replaced = h.replaced
    BY <1>1 DEF Past
  <1>4. QED BY <1>2, <1>3 DEF SessionInv, InOrder, Claimed, UpToDate, Obtained, Filed

\* The first question is asked of what the cache gave, or of nothing.
LEMMA ConsultingKeeps ==
    ASSUME NEW s, NEW h, NEW texts, NEW vectors \in Vectors, SessionInv(s, h, texts, vectors),
           s.stage = "rest", NEW loaded \in {vectors, NoVectors},
           NEW t, t = [s EXCEPT !.stage = "list", !.pass = 1, !.index = loaded, !.consulted = TRUE],
           NEW g, g = [NoPast EXCEPT !.had = loaded]
    PROVE  SessionInv(t, g, texts, vectors)
  <1>1. NoVectors \in Vectors /\ Held(NoVectors) = {}
    BY DEF NoVectors, Vectors, Held
  <1>2. s.doc = Nothing /\ s.forget = {} /\ s \in Session /\ h \in Past
    BY DEF SessionInv, InOrder
  <1>3. /\ t \in Session
        /\ t.stage = "list" /\ t.index = loaded /\ t.dirty = s.dirty
        /\ t.doc = Nothing /\ t.forget = {}
    BY <1>1, <1>2 DEF Session, Stages
  <1>4. g \in Past /\ g.had = loaded
    BY <1>1 DEF Past, NoPast
  <1>5. Filed(t, g, vectors)
    BY <1>1, <1>3 DEF Filed
  <1>6. QED BY <1>3, <1>4, <1>5 DEF SessionInv, InOrder, Claimed, UpToDate, Obtained

-----------------------------------------------------------------------------
(* The steps of the processes                                              *)

\* A process that finds another index in its place goes on as it is.
LEMMA ReplacingKeeps ==
    ASSUME IInv, NEW p \in Sessions, NEW vectors,
           NEW g, g = IF handle[p].up THEN [past[p] EXCEPT !.replaced = TRUE] ELSE past[p]
    PROVE  SessionInv(session[p], g, store, vectors)
  <1>1. SessionInv(session[p], past[p], store, cache) /\ past[p] \in Past
    BY DEF IInv, SessionsHold, TypeOK
  <1>2. CASE handle[p].up
    <2>1. /\ g \in Past /\ g.had = past[p].had /\ g.changed = past[p].changed
          /\ g.missed = past[p].missed /\ g.replaced = TRUE
      BY <1>1, <1>2 DEF Past
    <2>2. Claimed(session[p], g) /\ Obtained(session[p], g) /\ Filed(session[p], g, vectors)
      BY <1>1, <2>1 DEF SessionInv, Claimed, Obtained, Filed
    <2>3. UpToDate(session[p], g, store)
      BY <1>1, <2>1 DEF SessionInv, UpToDate
    <2>4. QED BY <1>1, <2>1, <2>2, <2>3 DEF SessionInv
  <1>3. CASE ~handle[p].up
    <2>1. session[p] = NewSession /\ g = NoPast
      BY <1>3 DEF IInv, DownIsNew
    <2>2. SessionInv(NewSession, NoPast, store, vectors)
      BY NewKeeps, FALSE \in BOOLEAN
    <2>3. QED BY <2>1, <2>2
  <1>4. QED BY <1>2, <1>3

\* A process that is up goes a step on, or is down; to the others nothing happens,
\* unless it has filed its index.
LEMMA ProcessStepKeepsIInv ==
    ASSUME IInv, NEW p \in Sessions, handle[p].up, WorkerInv',
           NEW s, session' = [session EXCEPT ![p] = s],
           past' \in [Sessions -> Past],
           store' = store, changes' = changes, cache' \in Vectors,
           SessionInv(s, past'[p], store, cache'),
           \A q \in Sessions \ {p} :
             /\ handle'[q] = handle[q]
             /\ \/ past'[q] = past[q] /\ cache' = cache
                \/ past'[q] = IF handle[q].up THEN [past[q] EXCEPT !.replaced = TRUE] ELSE past[q],
           handle'[p].up \/ (s = NewSession /\ past'[p] = NoPast)
    PROVE  IInv'
  <1>1. session' \in [Sessions -> Session] /\ session'[p] = s
        /\ \A q \in Sessions \ {p} : session'[q] = session[q]
    BY DEF IInv, TypeOK, SessionInv
  <1>2. TypeOK'
    BY <1>1 DEF IInv, WorkerInv, TypeOK
  <1>3. ASSUME NEW q \in Sessions \ {p}
        PROVE  SessionInv(session[q], past'[q], store, cache')
    BY <1>3, ReplacingKeeps DEF IInv, SessionsHold
  <1>4. DownIsNew'
    BY <1>1, <1>3 DEF IInv, DownIsNew
  <1>5. SessionsHold'
    BY <1>1, <1>3 DEF SessionsHold
  <1>6. QED BY <1>2, <1>4, <1>5 DEF IInv

\* A step that files nothing.
LEMMA SessionStepKeepsIInv ==
    ASSUME IInv, NEW p \in Sessions, handle[p].up, WorkerInv',
           NEW s, session' = [session EXCEPT ![p] = s],
           NEW h, past' = [past EXCEPT ![p] = h],
           UNCHANGED <<store, changes, cache>>,
           SessionInv(s, h, store, cache),
           \A q \in Sessions \ {p} : handle'[q] = handle[q],
           handle'[p].up \/ (s = NewSession /\ h = NoPast)
    PROVE  IInv'
  <1>1. /\ past' \in [Sessions -> Past] /\ past'[p] = h
        /\ \A q \in Sessions \ {p} : past'[q] = past[q]
        /\ cache \in Vectors
    BY DEF IInv, TypeOK, SessionInv
  <1>2. QED BY <1>1, ProcessStepKeepsIInv

\* What has a question in progress is up.
LEMMA AskingIsUp ==
    ASSUME IInv, NEW p \in Sessions, session[p].stage # "rest" \/ past[p] # NoPast
    PROVE  handle[p].up
  BY DEF IInv, DownIsNew, NewSession

\* The session of a process, and the notes it is about.
LEMMA Given ==
    ASSUME IInv, NEW p \in Sessions
    PROVE  /\ WorkerInv /\ SessionInv(session[p], past[p], store, cache)
           /\ session \in [Sessions -> Session] /\ past \in [Sessions -> Past]
           /\ session[p] \in Session /\ past[p] \in Past
           /\ store \in Store /\ cache \in Vectors
           /\ Live = {n \in Notes : store[n] # Nothing}
  BY DEF IInv, SessionsHold, TypeOK, Store, Live

LEMMA ListKeepsIInv ==
    ASSUME IInv, NEW p \in Sessions, List(p)
    PROVE  IInv'
  <1>1. handle[p].up /\ session[p].stage = "list"
    BY AskingIsUp DEF List, In
  <1>2. WorkerInv' /\ UNCHANGED <<store, changes, cache, handle>>
    BY Given, FaultKeepsWorkers DEF List, Listing
  <1>3. PICK listed \in SUBSET Live :
          LET gone == Held(session[p].index) \ listed
          IN /\ session' = [session EXCEPT ![p].stage = "read",
                              ![p].index = Without(@, gone),
                              ![p].dirty = @ \/ gone # {},
                              ![p].todo = listed \ Held(session[p].index)]
             /\ past' = [past EXCEPT ![p].had = Without(@, gone),
                                     ![p].missed = @ \/ listed # Live]
    BY DEF List
  <1> DEFINE gone == Held(session[p].index) \ listed
             missed == listed # Live
             s == [session[p] EXCEPT !.stage = "read", !.index = Without(session[p].index, gone),
                     !.dirty = session[p].dirty \/ gone # {},
                     !.todo = listed \ Held(session[p].index)]
             h == [past[p] EXCEPT !.had = Without(past[p].had, gone),
                                  !.missed = past[p].missed \/ missed]
  <1>4. session' = [session EXCEPT ![p] = s] /\ past' = [past EXCEPT ![p] = h]
    BY <1>3, Given
  <1>5. SessionInv(s, h, store, cache)
    <2>1. /\ listed \in SUBSET Notes /\ missed \in BOOLEAN
          /\ \A n \in listed : store[n] # Nothing
          /\ missed \/ \A n \in Notes : store[n] # Nothing => n \in listed
      BY DEF Live
    <2> HIDE DEF missed
    <2>2. QED BY <1>1, <2>1, Given, ListKeeps
  <1> HIDE DEF s, h
  <1>6. QED BY <1>1, <1>2, <1>4, <1>5, Given, SessionStepKeepsIInv

LEMMA SkipKeepsIInv ==
    ASSUME IInv, NEW p \in Sessions, NEW n \in Notes, Skip(p, n)
    PROVE  IInv'
  <1>1. handle[p].up /\ session[p].stage = "read" /\ n \in session[p].todo
        /\ session[p].doc = Nothing
    BY AskingIsUp DEF Skip, Reads, In
  <1>2. WorkerInv' /\ UNCHANGED <<store, changes, cache, handle>>
    BY Given, FaultKeepsWorkers DEF Skip, Reads
  <1> DEFINE s == [session[p] EXCEPT !.todo = session[p].todo \ {n}]
             h == [past[p] EXCEPT !.missed = past[p].missed \/ store[n] # Nothing]
  <1>3. session' = [session EXCEPT ![p] = s] /\ past' = [past EXCEPT ![p] = h]
    BY Given DEF Skip
  <1>4. SessionInv(s, h, store, cache)
    BY <1>1, Given, SkipKeeps
  <1> HIDE DEF s, h
  <1>5. QED BY <1>1, <1>2, <1>3, <1>4, Given, SessionStepKeepsIInv

LEMMA ReadBlankKeepsIInv ==
    ASSUME IInv, NEW p \in Sessions, NEW n \in Notes, ReadBlank(p, n)
    PROVE  IInv'
  <1>1. handle[p].up /\ session[p].stage = "read" /\ n \in session[p].todo
        /\ session[p].doc = Nothing /\ store[n] \in Blank
    BY AskingIsUp DEF ReadBlank, Reads, In
  <1>2. WorkerInv' /\ UNCHANGED <<store, changes, cache, handle>>
    BY Given, FaultKeepsWorkers DEF ReadBlank, Reads
  <1> DEFINE s == [session[p] EXCEPT !.todo = session[p].todo \ {n}, !.dirty = TRUE]
             h == [past[p] EXCEPT !.had = [past[p].had EXCEPT ![n] = Nothing]]
  <1>3. session' = [session EXCEPT ![p] = s] /\ past' = [past EXCEPT ![p] = h]
    BY Given DEF ReadBlank
  <1>4. SessionInv(s, h, store, cache)
    BY <1>1, Given, ReadBlankKeeps
  <1> HIDE DEF s, h
  <1>5. QED BY <1>1, <1>2, <1>3, <1>4, Given, SessionStepKeepsIInv

\* A step of `ensure` leaves the processes as they are.
LEMMA EnsureIsOwn ==
    ASSUME IInv, NEW p \in Sessions, handle[p].up, Ensure(p),
           UNCHANGED <<worker, path, keeper, faults>>
    PROVE  /\ WorkerInv'
           /\ handle'[p].up /\ \A q \in Sessions \ {p} : handle'[q] = handle[q]
  <1>1. WorkerInv'
    BY Given, EnsureKeepsWorkers
  <1>2. handle \in [Sessions -> Handle]
    BY Given DEF WorkerInv, WorkerTypeOK
  <1>3. QED BY <1>1, <1>2 DEF Ensure, To, Handle

LEMMA ReadNoteKeepsIInv ==
    ASSUME IInv, NEW p \in Sessions, NEW n \in Notes, ReadNote(p, n)
    PROVE  IInv'
  <1>1. handle[p].up /\ session[p].stage = "read" /\ n \in session[p].todo
        /\ session[p].doc = Nothing /\ store[n] \in Texts \ Blank
    BY AskingIsUp DEF ReadNote, Reads, In
  <1>2. WorkerInv' /\ UNCHANGED <<store, changes, cache>>
        /\ handle'[p].up /\ \A q \in Sessions \ {p} : handle'[q] = handle[q]
    BY <1>1, EnsureIsOwn DEF ReadNote, Reads
  <1> DEFINE s == [session[p] EXCEPT !.todo = session[p].todo \ {n},
                                     !.doc = [note |-> n, text |-> store[n]]]
             h == [past[p] EXCEPT !.had = [past[p].had EXCEPT ![n] =
                     IF past[p].had[n] = store[n] THEN past[p].had[n] ELSE Nothing]]
  <1>3. session' = [session EXCEPT ![p] = s] /\ past' = [past EXCEPT ![p] = h]
    BY Given DEF ReadNote
  <1>4. SessionInv(s, h, store, cache)
    BY <1>1, Given, ReadNoteKeeps
  <1> HIDE DEF s, h
  <1>5. QED BY <1>1, <1>2, <1>3, <1>4, Given, SessionStepKeepsIInv

\* So do the steps of a request, and its end.
LEMMA RequestIsOwn ==
    ASSUME IInv, NEW p \in Sessions,
           \/ AskOwn(p) \/ Adopt(p) \/ Spawn(p) \/ SeesReady(p)
           \/ Answered(p) \/ NotAnswered(p) \/ GivesUp(p) \/ SpawnFails(p)
    PROVE  /\ WorkerInv' /\ handle[p].up
           /\ handle'[p].up /\ \A q \in Sessions \ {p} : handle'[q] = handle[q]
  <1>1. WorkerInv'
    BY Given, StoppingKeepsWorkers, SpawningKeepsWorkers, AnsweringKeepsWorkers
  <1>2. handle[p].at # "rest"
    BY DEF AskOwn, Adopt, Spawn, SeesReady, Answered, NotAnswered, GivesUp, SpawnFails, At
  <1>3. handle[p].up /\ handle \in [Sessions -> Handle]
    BY <1>2, BusyIsUp, Given DEF WorkerInv, WorkerTypeOK
  <1>4. handle'[p].up /\ \A q \in Sessions \ {p} : handle'[q] = handle[q]
    <2>1. ASSUME NEW step, To(p, step) \/ Forgets(p, step)
          PROVE  handle'[p].up /\ \A q \in Sessions \ {p} : handle'[q] = handle[q]
      BY <1>3, <2>1 DEF To, Forgets, Handle
    <2>2. CASE AskOwn(p)
      BY <2>1, <2>2 DEF AskOwn
    <2>3. CASE Spawn(p)
      BY <1>3, <2>3 DEF Spawn, Handle
    <2>4. CASE Adopt(p) \/ SeesReady(p) \/ Answered(p) \/ NotAnswered(p) \/ GivesUp(p)
                 \/ SpawnFails(p)
      BY <2>1, <2>4 DEF Adopt, SeesReady, Answered, NotAnswered, GivesUp, SpawnFails
    <2>5. QED BY <2>2, <2>3, <2>4
  <1>5. QED BY <1>1, <1>3, <1>4

LEMMA EnsureStepKeepsIInv ==
    ASSUME IInv, NEW p \in Sessions, EnsureStep(p),
           UNCHANGED <<store, changes, cache, session, past>>
    PROVE  IInv'
  <1>1. /\ WorkerInv' /\ handle[p].up
        /\ handle'[p].up /\ \A q \in Sessions \ {p} : handle'[q] = handle[q]
    BY RequestIsOwn DEF EnsureStep
  <1>2. session' = [session EXCEPT ![p] = session[p]] /\ past' = [past EXCEPT ![p] = past[p]]
    BY Given
  <1>3. QED BY <1>1, <1>2, Given, SessionStepKeepsIInv

LEMMA EmbeddedKeepsIInv ==
    ASSUME IInv, NEW p \in Sessions, Embedded(p)
    PROVE  IInv'
  <1>1. /\ WorkerInv' /\ handle[p].up
        /\ handle'[p].up /\ \A q \in Sessions \ {p} : handle'[q] = handle[q]
    BY RequestIsOwn DEF Embedded
  <1>2. /\ session[p].stage = "read" /\ session[p].doc # Nothing
        /\ UNCHANGED <<store, changes, cache>>
    BY DEF Embedded, In
  <1> DEFINE doc == session[p].doc
             s == [session[p] EXCEPT !.index = [session[p].index EXCEPT ![doc.note] = doc.text],
                                     !.dirty = TRUE, !.doc = Nothing]
             h == [past[p] EXCEPT !.had = [past[p].had EXCEPT ![doc.note] = doc.text]]
  <1>3. session' = [session EXCEPT ![p] = s] /\ past' = [past EXCEPT ![p] = h]
    <2>1. /\ session' = [session EXCEPT ![p].index[doc.note] = doc.text, ![p].dirty = TRUE,
                                        ![p].doc = Nothing]
          /\ past' = [past EXCEPT ![p].had[doc.note] = doc.text]
      BY DEF Embedded
    <2> HIDE DEF doc
    <2>2. QED BY <2>1, Given
  <1>4. SessionInv(s, h, store, cache)
    BY <1>2, Given, EmbeddedKeeps
  <1> HIDE DEF s, h
  <1>5. QED BY <1>1, <1>2, <1>3, <1>4, Given, SessionStepKeepsIInv

LEMMA AsksKeepsIInv ==
    ASSUME IInv, NEW p \in Sessions, Asks(p)
    PROVE  IInv'
  <1>1. handle[p].up /\ session[p].stage = "read" /\ session[p].todo = {}
        /\ session[p].doc = Nothing
    BY AskingIsUp DEF Asks, In
  <1>2. WorkerInv' /\ UNCHANGED <<store, changes, cache>>
        /\ handle'[p].up /\ \A q \in Sessions \ {p} : handle'[q] = handle[q]
    BY <1>1, EnsureIsOwn DEF Asks
  <1> DEFINE s == [session[p] EXCEPT !.stage = "ask"]
  <1>3. session' = [session EXCEPT ![p] = s] /\ past' = [past EXCEPT ![p] = past[p]]
    BY Given DEF Asks
  <1>4. SessionInv(s, past[p], store, cache)
    BY <1>1, Given, AsksKeeps
  <1> HIDE DEF s
  <1>5. QED BY <1>1, <1>2, <1>3, <1>4, Given, SessionStepKeepsIInv

LEMMA ClaimsKeepsIInv ==
    ASSUME IInv, NEW p \in Sessions, Claims(p)
    PROVE  IInv'
  <1>1. /\ WorkerInv' /\ handle[p].up
        /\ handle'[p].up /\ \A q \in Sessions \ {p} : handle'[q] = handle[q]
    BY RequestIsOwn DEF Claims
  <1>2. PICK hits \in NearestNotes(session[p].index) :
          session' = [session EXCEPT ![p].stage = "enumerate", ![p].hits = hits,
                                     ![p].unavailable = FALSE]
    BY DEF Claims
  <1>3. /\ session[p].stage = "ask" /\ UNCHANGED <<store, changes, cache, past>>
        /\ hits \in SUBSET Held(session[p].index)
    BY <1>2 DEF Claims, In, NearestNotes
  <1> DEFINE s == [session[p] EXCEPT !.stage = "enumerate", !.hits = hits, !.unavailable = FALSE]
  <1>4. session' = [session EXCEPT ![p] = s] /\ past' = [past EXCEPT ![p] = past[p]]
    BY <1>2, <1>3, Given
  <1>5. SessionInv(s, past[p], store, cache)
    BY <1>3, Given, ClaimsKeep, FALSE \in BOOLEAN
  <1> HIDE DEF s
  <1>6. QED BY <1>1, <1>3, <1>4, <1>5, Given, SessionStepKeepsIInv

LEMMA RequestFailsKeepsIInv ==
    ASSUME IInv, NEW p \in Sessions, RequestFails(p)
    PROVE  IInv'
  <1>1. /\ WorkerInv' /\ handle[p].up
        /\ handle'[p].up /\ \A q \in Sessions \ {p} : handle'[q] = handle[q]
        /\ UNCHANGED <<store, changes, cache>>
    BY RequestIsOwn DEF RequestFails
  <1>2. CASE session[p].stage = "ask"
    <2> DEFINE s == [session[p] EXCEPT !.stage = "enumerate", !.hits = {}, !.unavailable = TRUE]
               h == [past[p] EXCEPT !.missed = TRUE]
    <2>1. session' = [session EXCEPT ![p] = s] /\ past' = [past EXCEPT ![p] = h]
      BY <1>2, Given DEF RequestFails, In, ClaimsNothing
    <2>2. h.missed /\ {} \in SUBSET Held(session[p].index)
      BY Given DEF Past
    <2>3. SessionInv(s, h, store, cache)
      BY <1>2, <2>2, Given, ClaimsKeep, TRUE \in BOOLEAN
    <2> HIDE DEF s, h
    <2>4. QED BY <1>1, <2>1, <2>3, Given, SessionStepKeepsIInv
  <1>3. CASE session[p].stage # "ask"
    <2> DEFINE s == [session[p] EXCEPT !.doc = Nothing]
               h == [past[p] EXCEPT !.missed = TRUE]
    <2>1. session' = [session EXCEPT ![p] = s] /\ past' = [past EXCEPT ![p] = h]
      BY <1>3, Given DEF RequestFails, In, NotEmbedded
    <2>2. SessionInv(s, h, store, cache)
      BY <1>3, Given, NotEmbeddedKeeps
    <2> HIDE DEF s, h
    <2>3. QED BY <1>1, <2>1, <2>2, Given, SessionStepKeepsIInv
  <1>4. QED BY <1>2, <1>3

LEMMA EnumerateKeepsIInv ==
    ASSUME IInv, NEW p \in Sessions, Enumerate(p)
    PROVE  IInv'
  <1>1. handle[p].up /\ session[p].stage = "enumerate"
    BY AskingIsUp DEF Enumerate, In
  <1>2. WorkerInv' /\ UNCHANGED <<store, changes, cache, handle>>
    BY Given, FaultKeepsWorkers DEF Enumerate, Listing
  <1> DEFINE hits == session[p].hits
  <1>3. PICK listed \in SUBSET Live :
          /\ session' = [session EXCEPT ![p].stage = "verify", ![p].todo = hits \intersect listed,
                                        ![p].forget = hits \ listed, ![p].found = {}]
          /\ past' = [past EXCEPT ![p].had = Without(@, hits \ listed),
                                  ![p].missed = @ \/ listed # Live]
    BY DEF Enumerate
  <1> DEFINE s == [session[p] EXCEPT !.stage = "verify", !.todo = hits \intersect listed,
                                     !.forget = hits \ listed, !.found = {}]
             h == [past[p] EXCEPT !.had = Without(past[p].had, hits \ listed),
                                  !.missed = past[p].missed \/ listed # Live]
  <1>4. session' = [session EXCEPT ![p] = s] /\ past' = [past EXCEPT ![p] = h]
    BY <1>3, Given
  <1>5. (listed # Live) \in BOOLEAN
    OBVIOUS
  <1>6. SessionInv(s, h, store, cache)
    BY <1>1, <1>5, Given, EnumerateKeeps
  <1> HIDE DEF s, h
  <1>7. QED BY <1>1, <1>2, <1>4, <1>6, Given, SessionStepKeepsIInv

LEMMA VerifyKeepsIInv ==
    ASSUME IInv, NEW p \in Sessions, NEW n \in Notes, Verify(p, n)
    PROVE  IInv'
  <1>1. handle[p].up /\ session[p].stage = "verify" /\ n \in session[p].todo
    BY AskingIsUp DEF Verify, In
  <1>2. WorkerInv' /\ UNCHANGED <<store, changes, cache, handle>>
    BY Given, FaultKeepsWorkers DEF Verify
  <1> DEFINE todo == session[p].todo \ {n}
  <1>3. CASE /\ store[n] = session[p].index[n]
             /\ session' = [session EXCEPT ![p].todo = @ \ {n}, ![p].found = @ \union {n}]
             /\ UNCHANGED past
    <2> DEFINE s == [session[p] EXCEPT !.todo = todo, !.found = session[p].found \union {n}]
    <2>1. session' = [session EXCEPT ![p] = s] /\ past' = [past EXCEPT ![p] = past[p]]
      BY <1>3, Given
    <2>2. SessionInv(s, past[p], store, cache)
      BY <1>1, <1>3, Given, VerifyKeeps
    <2> HIDE DEF s
    <2>3. QED BY <1>1, <1>2, <2>1, <2>2, Given, SessionStepKeepsIInv
  <1>4. CASE /\ session' = [session EXCEPT ![p].todo = @ \ {n}, ![p].forget = @ \union {n}]
             /\ past' = [past EXCEPT ![p].had[n] = Nothing]
    <2> DEFINE s == [session[p] EXCEPT !.todo = todo, !.forget = session[p].forget \union {n}]
               h == [past[p] EXCEPT !.had = [past[p].had EXCEPT ![n] = Nothing]]
    <2>1. session' = [session EXCEPT ![p] = s] /\ past' = [past EXCEPT ![p] = h]
      BY <1>4, Given
    <2>2. SessionInv(s, h, store, cache)
      BY <1>1, Given, VerifyKeeps
    <2> HIDE DEF s, h
    <2>3. QED BY <1>1, <1>2, <2>1, <2>2, Given, SessionStepKeepsIInv
  <1>5. CASE /\ session' = [session EXCEPT ![p].todo = @ \ {n}]
             /\ past' = [past EXCEPT ![p].missed = TRUE]
    <2> DEFINE s == [session[p] EXCEPT !.todo = todo]
               h == [past[p] EXCEPT !.missed = TRUE]
    <2>1. session' = [session EXCEPT ![p] = s] /\ past' = [past EXCEPT ![p] = h]
      BY <1>5, Given
    <2>2. SessionInv(s, h, store, cache)
      BY <1>1, Given, VerifyKeeps
    <2> HIDE DEF s, h
    <2>3. QED BY <1>1, <1>2, <2>1, <2>2, Given, SessionStepKeepsIInv
  <1>6. QED BY <1>3, <1>4, <1>5 DEF Verify

\* The question is given back: its record, and what it went through.
LEMMA GivingBackKeeps ==
    ASSUME IInv, NEW p \in Sessions, session[p].stage \in {"list", "enumerate", "verify"},
           GivenBack(p), past' = [past EXCEPT ![p].changed = {}],
           WorkerInv', UNCHANGED <<store, changes, cache, handle>>
    PROVE  IInv'
  <1>1. handle[p].up /\ session[p].doc = Nothing
    BY AskingIsUp, Given DEF SessionInv, InOrder
  <1> DEFINE s == [session[p] EXCEPT !.stage = Ended(p), !.todo = {}, !.forget = {},
                     !.index = Without(session[p].index, session[p].forget),
                     !.hits = {}, !.found = {}, !.unavailable = FALSE]
             h == [past[p] EXCEPT !.changed = {}]
  <1>2. session' = [session EXCEPT ![p] = s] /\ past' = [past EXCEPT ![p] = h]
    BY Given DEF GivenBack
  <1>3. /\ session[p].index \in Vectors /\ session[p].forget \in SUBSET Notes
        /\ Ended(p) \in {"rest", "over"} /\ {} \in SUBSET Notes
    BY Given DEF Session, Ended
  <1>4. Without(session[p].index, session[p].forget) \in Vectors
    BY <1>3, WithoutHolds
  <1>5. /\ s \in Session /\ s.stage = Ended(p) /\ s.forget = {} /\ s.doc = Nothing
        /\ s.dirty = session[p].dirty
        /\ s.index = Without(session[p].index, session[p].forget)
    <2>1. Ended(p) \in Stages
      BY <1>3 DEF Stages
    <2> DEFINE index == Without(session[p].index, session[p].forget)
               stage == Ended(p)
    <2>2. index \in Vectors /\ session[p] \in Session
      BY <1>4, Given
    <2>3. s = [session[p] EXCEPT !.stage = stage, !.todo = {}, !.forget = {}, !.index = index,
                         !.hits = {}, !.found = {}, !.unavailable = FALSE]
      OBVIOUS
    <2> HIDE DEF stage, index, s
    <2>4. /\ s \in Session /\ s.stage = stage /\ s.forget = {} /\ s.index = index
          /\ s.doc = session[p].doc /\ s.dirty = session[p].dirty
      <3>1. stage \in Stages
        BY <2>1 DEF stage
      <3>2. s \in Session
        BY <2>2, <2>3, <3>1, {} \in SUBSET Notes DEF Session
      <3>3. /\ s.stage = stage /\ s.forget = {} /\ s.index = index
            /\ s.doc = session[p].doc /\ s.dirty = session[p].dirty
        BY <2>2, <2>3 DEF Session
      <3>4. QED BY <3>2, <3>3
    <2>5. QED BY <1>1, <2>4 DEF stage, index
  <1>6. h \in Past /\ h.had = past[p].had /\ h.replaced = past[p].replaced
    BY Given DEF Past
  <1> HIDE DEF s, h
  <1>7. Filed(s, h, cache)
    BY <1>5, <1>6, Given, ForgettingIsFiled DEF SessionInv
  <1>8. SessionInv(s, h, store, cache)
    BY <1>1, <1>3, <1>5, <1>6, <1>7, Given, LeavingKeeps
  <1>9. QED BY <1>1, <1>2, <1>8, Given, SessionStepKeepsIInv

\* A pass is concluded, and what it left is written or owed.
LEMMA ConcludingKeeps ==
    ASSUME IInv, NEW p \in Sessions, Concluding(p), NEW dirty \in BOOLEAN, Concluded(p, dirty),
           past' \in [Sessions -> Past], past'[p].had = past[p].had,
           \A q \in Sessions \ {p} :
             \/ past'[q] = past[q] /\ cache' = cache
             \/ past'[q] = IF handle[q].up THEN [past[q] EXCEPT !.replaced = TRUE] ELSE past[q],
           WorkerInv', UNCHANGED <<store, changes, handle>>,
           cache' \in Vectors,
           \/ dirty
           \/ cache' = Without(session[p].index, session[p].forget)
           \/ /\ cache' = cache /\ dirty = session[p].dirty
              /\ past'[p].replaced = past[p].replaced
    PROVE  IInv'
  <1>1. handle[p].up /\ session[p].doc = Nothing
    BY AskingIsUp, Given DEF Concluding, In, SessionInv, InOrder
  <1> DEFINE s == [session[p] EXCEPT !.stage = IF Another(p) THEN "list" ELSE Ended(p),
                     !.pass = IF Another(p) THEN 2 ELSE 1,
                     !.index = Without(session[p].index, session[p].forget), !.dirty = dirty,
                     !.hits = {}, !.forget = {}, !.found = {}, !.unavailable = FALSE]
  <1>2. session' = [session EXCEPT ![p] = s]
    BY Given DEF Concluded
  <1>3. /\ session[p].index \in Vectors /\ session[p].forget \in SUBSET Notes
        /\ Ended(p) \in {"rest", "over"} /\ {} \in SUBSET Notes
    BY Given DEF Session, Ended
  <1>4. Without(session[p].index, session[p].forget) \in Vectors
    BY <1>3, WithoutHolds
  <1>5. /\ s \in Session /\ s.stage \in {"rest", "over", "list"} /\ s.forget = {}
        /\ s.doc = Nothing /\ s.dirty = dirty
        /\ s.index = Without(session[p].index, session[p].forget)
    <2> DEFINE stage == IF Another(p) THEN "list" ELSE Ended(p)
               pass == IF Another(p) THEN 2 ELSE 1
               index == Without(session[p].index, session[p].forget)
    <2>1. stage \in Stages /\ stage \in {"rest", "over", "list"} /\ pass \in {1, 2}
      BY <1>3 DEF Stages
    <2>2. s = [session[p] EXCEPT !.stage = stage, !.pass = pass, !.index = index, !.dirty = dirty,
                 !.hits = {}, !.forget = {}, !.found = {}, !.unavailable = FALSE]
      OBVIOUS
    <2>3. index \in Vectors /\ session[p] \in Session
      BY <1>4, Given
    <2> HIDE DEF stage, pass, index, s
    <2>4. /\ s \in Session /\ s.stage = stage /\ s.forget = {} /\ s.index = index
          /\ s.doc = session[p].doc /\ s.dirty = dirty
      <3>1. s \in Session
        BY <2>1, <2>2, <2>3, {} \in SUBSET Notes DEF Session
      <3>2. /\ s.stage = stage /\ s.forget = {} /\ s.index = index
            /\ s.doc = session[p].doc /\ s.dirty = dirty
        BY <2>2, <2>3 DEF Session
      <3>3. QED BY <3>1, <3>2
    <2>5. QED BY <1>1, <2>1, <2>4 DEF index
  <1> HIDE DEF s
  <1>6. past'[p] \in Past
    OBVIOUS
  <1>7. Filed(s, past'[p], cache')
    <2>1. CASE dirty \/ cache' = Without(session[p].index, session[p].forget)
      BY <1>5, <2>1 DEF Filed
    <2>2. CASE /\ cache' = cache /\ dirty = session[p].dirty
               /\ past'[p].replaced = past[p].replaced
      BY <1>5, <2>2, Given, ForgettingIsFiled DEF SessionInv
    <2>3. QED BY <2>1, <2>2
  <1>8. SessionInv(s, past'[p], store, cache')
    BY <1>1, <1>5, <1>6, <1>7, Given, LeavingKeeps
  <1>9. QED BY <1>1, <1>2, <1>8, ProcessStepKeepsIInv

\* What the processes went through, when one of them has filed its index.
LEMMA ReplacedIsPast ==
    ASSUME NEW pasts \in [Sessions -> Past], NEW those \in SUBSET Sessions
    PROVE  /\ Replaced(pasts, those) \in [Sessions -> Past]
           /\ \A p \in Sessions :
                /\ Replaced(pasts, those)[p].had = pasts[p].had
                /\ p \in those =>
                     Replaced(pasts, those)[p] =
                       IF handle[p].up THEN [pasts[p] EXCEPT !.replaced = TRUE] ELSE pasts[p]
  <1>1. \A p \in Sessions : pasts[p] \in Past
    OBVIOUS
  <1>2. QED BY <1>1 DEF Replaced, Past

LEMMA EndingKeepsIInv ==
    ASSUME IInv, NEW p \in Sessions,
           Refuse(p) \/ SemanticRequired(p) \/ Conclude(p) \/ Persist(p) \/ PersistFails(p)
    PROVE  IInv'
  <1>1. /\ session[p].dirty \in BOOLEAN /\ cache \in Vectors
        /\ session[p].index \in Vectors /\ session[p].forget \in SUBSET Notes
    BY Given DEF Session
  <1>2. Without(session[p].index, session[p].forget) \in Vectors
    BY <1>1, WithoutHolds
  <1>3. WorkerInv' /\ UNCHANGED <<store, changes, handle>>
    BY Given, FaultKeepsWorkers DEF Refuse, SemanticRequired, Conclude, Persist, PersistFails,
      workerVars
  <1>4. CASE Refuse(p)
    BY <1>3, <1>4, GivingBackKeeps DEF Refuse, In
  <1>5. CASE SemanticRequired(p)
    BY <1>3, <1>5, GivingBackKeeps DEF SemanticRequired, Concluding, In
  <1> DEFINE kept == [past EXCEPT ![p].changed = Keeps(p)]
  <1>6. /\ kept \in [Sessions -> Past] /\ kept[p].had = past[p].had
        /\ kept[p].replaced = past[p].replaced
        /\ \A q \in Sessions \ {p} : kept[q] = past[q]
    BY Given DEF Past, Keeps
  <1> HIDE DEF kept
  <1>7. CASE Conclude(p)
    <2>1. past' = kept /\ cache' = cache /\ Concluding(p) /\ Concluded(p, session[p].dirty)
      BY <1>7 DEF Conclude, kept
    <2>2. QED BY <1>1, <1>3, <1>6, <2>1, ConcludingKeeps
  <1>8. CASE PersistFails(p)
    <2>1. past' = kept /\ cache' = cache /\ Concluding(p) /\ Concluded(p, TRUE)
      BY <1>8 DEF PersistFails, kept
    <2>2. QED BY <1>1, <1>3, <1>6, <2>1, ConcludingKeeps, TRUE \in BOOLEAN
  <1>9. CASE Persist(p)
    <2> DEFINE filed == [past EXCEPT ![p].changed = Keeps(p), ![p].replaced = FALSE]
    <2>1. /\ past' = Replaced(filed, Sessions \ {p})
          /\ cache' = Without(session[p].index, session[p].forget)
          /\ Concluding(p) /\ Concluded(p, FALSE)
      BY <1>9 DEF Persist
    <2>2. /\ filed \in [Sessions -> Past] /\ filed[p].had = past[p].had
          /\ \A q \in Sessions \ {p} : filed[q] = past[q]
      BY Given DEF Past, Keeps
    <2> HIDE DEF filed
    <2>3. Sessions \ {p} \in SUBSET Sessions
      OBVIOUS
    <2>4. /\ past' \in [Sessions -> Past] /\ past'[p].had = filed[p].had
          /\ \A q \in Sessions \ {p} :
               past'[q] = IF handle[q].up THEN [filed[q] EXCEPT !.replaced = TRUE] ELSE filed[q]
      BY <2>1, <2>2, <2>3, ReplacedIsPast
    <2>5. /\ past'[p].had = past[p].had
          /\ \A q \in Sessions \ {p} :
               past'[q] = IF handle[q].up THEN [past[q] EXCEPT !.replaced = TRUE] ELSE past[q]
      BY <2>2, <2>4
    <2>6. QED BY <1>2, <1>3, <2>1, <2>4, <2>5, ConcludingKeeps, FALSE \in BOOLEAN
  <1>10. QED BY <1>4, <1>5, <1>7, <1>8, <1>9

LEMMA AskKeepsIInv ==
    ASSUME IInv, NEW p \in Sessions, Ask(p)
    PROVE  IInv'
  <1>1. handle[p].up /\ session[p].stage = "rest"
    BY DEF Ask, In
  <1>2. WorkerInv' /\ UNCHANGED <<store, changes, cache, handle>>
    BY Given, FaultKeepsWorkers DEF Ask
  <1>3. ASSUME NEW loaded \in {cache, NoVectors}, Consults(p, loaded)
        PROVE  IInv'
    <2> DEFINE s == [session[p] EXCEPT !.stage = "list", !.pass = 1, !.index = loaded,
                                       !.consulted = TRUE]
               h == [NoPast EXCEPT !.had = loaded]
    <2>1. session' = [session EXCEPT ![p] = s] /\ past' = [past EXCEPT ![p] = h]
      BY <1>3, Given DEF Consults
    <2>2. /\ s = [session[p] EXCEPT !.stage = "list", !.pass = 1, !.index = loaded,
                                   !.consulted = TRUE]
          /\ h = [NoPast EXCEPT !.had = loaded]
      OBVIOUS
    <2> HIDE DEF s, h
    <2>3. SessionInv(session[p], past[p], store, cache) /\ cache \in Vectors
      BY Given
    <2>4. SessionInv(s, h, store, cache)
      BY <1>1, <2>2, <2>3, ConsultingKeeps
    <2>5. QED BY <1>1, <1>2, <2>1, <2>4, Given, SessionStepKeepsIInv
  <1>4. ASSUME AsksAgain(p)
        PROVE  IInv'
    <2> DEFINE s == [session[p] EXCEPT !.stage = "list", !.pass = 1]
               h == [past[p] EXCEPT !.changed = {}, !.missed = FALSE]
    <2>1. session' = [session EXCEPT ![p] = s] /\ past' = [past EXCEPT ![p] = h]
      BY <1>4, Given DEF AsksAgain
    <2>2. SessionInv(s, h, store, cache)
      BY <1>1, Given, AskAgainKeeps
    <2> HIDE DEF s, h
    <2>3. QED BY <1>1, <1>2, <2>1, <2>2, Given, SessionStepKeepsIInv
  <1>5. QED BY <1>3, <1>4 DEF Ask

\* A process starts with a session of its own.
LEMMA StartKeepsIInv ==
    ASSUME IInv, NEW p \in Sessions, Start(p)
    PROVE  IInv'
  <1>1. /\ ~handle[p].up /\ session[p] = NewSession /\ past[p] = NoPast
        /\ UNCHANGED <<store, changes, cache, past>>
    BY DEF Start, ProcessStarts, IInv, DownIsNew
  <1>2. WorkerInv'
    BY Given, StartingKeepsWorkers DEF Start
  <1>3. PICK command \in BOOLEAN : session' = [session EXCEPT ![p].command = command]
    BY DEF Start
  <1> DEFINE s == [NewSession EXCEPT !.command = command]
  <1>4. session' = [session EXCEPT ![p] = s]
    BY <1>1, <1>3, Given
  <1>5. SessionInv(s, NoPast, store, cache)
    BY NewKeeps
  <1> HIDE DEF s
  <1>6. /\ session' \in [Sessions -> Session] /\ session'[p] = s
        /\ \A q \in Sessions \ {p} : session'[q] = session[q]
    BY <1>4, <1>5, Given DEF SessionInv
  <1>7. \A q \in Sessions \ {p} : handle'[q] = handle[q]
    BY Given DEF Start, ProcessStarts, WorkerInv, WorkerTypeOK
  <1>8. handle'[p].up
    <2>1. handle[p] \in Handle
      BY Given DEF WorkerInv, WorkerTypeOK
    <2>2. [handle[p] EXCEPT !.up = TRUE].up = TRUE
      BY <2>1 DEF Handle
    <2>3. handle'[p] = [handle[p] EXCEPT !.up = TRUE]
      BY Given DEF Start, ProcessStarts, WorkerInv, WorkerTypeOK
    <2>4. QED BY <2>2, <2>3
  <1>9. TypeOK'
    BY <1>1, <1>2, <1>6 DEF IInv, WorkerInv, TypeOK
  <1>10. DownIsNew'
    BY <1>1, <1>6, <1>7, <1>8 DEF IInv, DownIsNew
  <1>11. SessionsHold'
    BY <1>1, <1>5, <1>6 DEF IInv, SessionsHold
  <1>12. QED BY <1>2, <1>9, <1>10, <1>11 DEF IInv

\* A process goes, or is killed, and leaves nothing of its session.
LEMMA GoingKeepsIInv ==
    ASSUME IInv, NEW p \in Sessions, Leave(p) \/ Killed(p)
    PROVE  IInv'
  <1>1. handle[p].up /\ UNCHANGED <<store, changes, cache>>
    BY DEF Leave, Killed, Shutdown, ProcessKilled, Forgotten
  <1>2. WorkerInv'
    BY Given, StoppingKeepsWorkers, KillingKeepsWorkers DEF Leave, Killed
  <1>3. session' = [session EXCEPT ![p] = NewSession] /\ past' = [past EXCEPT ![p] = NoPast]
    BY DEF Leave, Killed, Forgotten
  <1>4. \A q \in Sessions \ {p} : handle'[q] = handle[q]
    BY Given DEF Leave, Killed, Shutdown, ProcessKilled, WorkerInv, WorkerTypeOK
  <1>5. SessionInv(NewSession, NoPast, store, cache)
    BY NewKeeps, FALSE \in BOOLEAN
  <1>6. QED BY <1>1, <1>2, <1>3, <1>4, <1>5, Given, SessionStepKeepsIInv

LEMMA ReportKeepsIInv ==
    ASSUME IInv, NEW p \in Sessions, Report(p)
    PROVE  IInv'
  <1>1. WorkerInv' /\ UNCHANGED <<store, changes, cache, session, past>>
    BY Given, StoppingKeepsWorkers DEF Report
  <1>2. handle \in [Sessions -> Handle] /\ handle[p].child # Nothing
        /\ handle' = [handle EXCEPT ![p].at = "rest", ![p].child = Nothing]
    BY Given DEF WorkerInv, WorkerTypeOK, Report, Diagnose, Forgets
  <1>3. handle[p].up
    BY <1>2, Given DEF WorkerInv, HandlesHold, Down
  <1>4. handle'[p].up /\ \A q \in Sessions \ {p} : handle'[q] = handle[q]
    BY <1>2, <1>3 DEF Handle
  <1>5. session' = [session EXCEPT ![p] = session[p]] /\ past' = [past EXCEPT ![p] = past[p]]
    BY <1>1, Given
  <1>6. QED BY <1>1, <1>3, <1>4, <1>5, Given, SessionStepKeepsIInv

LEMMA ChangeNoteKeepsIInv ==
    ASSUME IInv, NEW n \in Notes, ChangeNote(n)
    PROVE  IInv'
  <1>1. PICK t \in Texts \union {Nothing} :
          /\ store' = [store EXCEPT ![n] = t]
          /\ past' = [p \in Sessions |->
                        IF Idle(p) THEN past[p]
                        ELSE [past[p] EXCEPT !.changed = @ \union {n}]]
    BY DEF ChangeNote
  <1>2. /\ WorkerInv' /\ UNCHANGED <<cache, session, handle>>
        /\ changes' \in 0..MaxChanges
    BY Given, FaultKeepsWorkers, MaxChangesAssumption
      DEF ChangeNote, workerVars, IInv, TypeOK
  <1>3. store' \in Store /\ \A m \in Notes \ {n} : store'[m] = store[m]
    BY <1>1, Given DEF IInv, TypeOK, Store
  <1>4. ASSUME NEW p \in Sessions
        PROVE  SessionInv(session[p], past'[p], store', cache)
    <2>1. past'[p] = IF session[p].stage \in {"rest", "over"} THEN past[p]
                     ELSE [past[p] EXCEPT !.changed = past[p].changed \union {n}]
      BY <1>1 DEF Idle
    <2>2. QED BY <1>3, <2>1, Given, ChangingKeeps
  <1>5. past' \in [Sessions -> Past]
    BY <1>1, <1>4 DEF SessionInv
  <1>6. TypeOK'
    BY <1>2, <1>3, <1>5 DEF IInv, WorkerInv, TypeOK, Store
  <1>7. DownIsNew'
    <2>1. \A p \in Sessions : session[p] = NewSession => past'[p] = past[p]
      BY <1>1 DEF Idle, NewSession
    <2>2. QED BY <1>2, <2>1 DEF IInv, DownIsNew
  <1>8. SessionsHold'
    BY <1>2, <1>4 DEF SessionsHold
  <1>9. QED BY <1>2, <1>6, <1>7, <1>8 DEF IInv

\* Another process files its index: those that run have another one before them.
LEMMA AnotherFilesKeepsIInv ==
    ASSUME IInv, AnotherFiles
    PROVE  IInv'
  <1>1. /\ past' = Replaced(past, Sessions) /\ cache' \in Vectors
        /\ UNCHANGED <<store, session, handle>> /\ changes' \in 0..MaxChanges
    BY FilingsAssumption, MaxChangesAssumption DEF AnotherFiles, workerVars, IInv, TypeOK
  <1>2. WorkerInv'
    BY FaultKeepsWorkers DEF AnotherFiles, workerVars, IInv
  <1>3. past \in [Sessions -> Past]
    BY DEF IInv, TypeOK
  <1>4. /\ past' \in [Sessions -> Past]
        /\ \A p \in Sessions :
             past'[p] = IF handle[p].up THEN [past[p] EXCEPT !.replaced = TRUE] ELSE past[p]
    BY <1>1, <1>3, ReplacedIsPast
  <1>5. \A p \in Sessions : SessionInv(session[p], past'[p], store, cache')
    BY <1>4, ReplacingKeeps
  <1>6. TypeOK'
    BY <1>1, <1>2, <1>4 DEF IInv, WorkerInv, TypeOK
  <1>7. DownIsNew'
    BY <1>1, <1>4 DEF IInv, DownIsNew
  <1>8. SessionsHold'
    BY <1>1, <1>5 DEF SessionsHold
  <1>9. QED BY <1>2, <1>6, <1>7, <1>8 DEF IInv

LEMMA WorkingsKeepIInv ==
    ASSUME IInv, Workings
    PROVE  IInv'
  <1>1. WorkerInv /\ UNCHANGED <<store, changes, cache, session, past>>
    BY DEF IInv, Workings
  <1>2. WorkerInv'
    BY <1>1, WorkersKeepWorkers, ElsewhereKeepsWorkers DEF Workings
  <1>3. UNCHANGED handle
    BY DEF Workings, WorkerStep, Validate, Bind, WorkerDies, Elsewhere, ElsewhereSpawns,
      ElsewhereStops, ElsewhereKilled
  <1>4. QED BY <1>1, <1>2, <1>3 DEF IInv, TypeOK, WorkerInv, DownIsNew, SessionsHold

-----------------------------------------------------------------------------
(* The invariant, and what follows from it                                 *)

LEMMA InitIInv == Init => IInv
  <1> SUFFICES ASSUME Init PROVE IInv
    OBVIOUS
  <1>1. WorkerInv
    <2>1. Down \in Handle /\ ~Down.up /\ Down.at = "rest" /\ Down.child = Nothing
      BY DEF Down, Handle, Steps
    <2>2. WorkerTypeOK
      BY <2>1, MaxFaultsAssumption
        DEF Init, WorkerInit, WorkerTypeOK, WorkerStates, Keepers
    <2>3. HandlesHold
      BY <2>1 DEF Init, WorkerInit, HandlesHold, At
    <2>4. NothingLeftBehind
      BY DEF Init, WorkerInit, NothingLeftBehind, Alive
    <2>5. QED BY <2>2, <2>3, <2>4 DEF WorkerInv
  <1>2. \A texts, vectors : SessionInv(NewSession, NoPast, texts, vectors)
    BY NewKeeps, FALSE \in BOOLEAN
  <1>3. NewSession \in Session /\ NoPast \in Past
    BY <1>2 DEF SessionInv
  <1>4. Filings \subseteq Vectors /\ 0 \in 0..MaxChanges
    BY MaxChangesAssumption, FilingsAssumption
  <1>5. TypeOK
    BY <1>1, <1>3, <1>4 DEF Init, TypeOK, WorkerInv
  <1>6. DownIsNew
    BY DEF Init, WorkerInit, DownIsNew, Down
  <1>7. SessionsHold
    BY <1>2 DEF Init, SessionsHold
  <1>8. QED BY <1>1, <1>5, <1>6, <1>7 DEF IInv

LEMMA StepKeepsIInv ==
    ASSUME IInv, NEW p \in Sessions, Step(p)
    PROVE  IInv'
  BY ListKeepsIInv, SkipKeepsIInv, ReadBlankKeepsIInv, ReadNoteKeepsIInv, VerifyKeepsIInv,
     EnsureStepKeepsIInv, EmbeddedKeepsIInv, AsksKeepsIInv, ClaimsKeepsIInv,
     RequestFailsKeepsIInv, EnumerateKeepsIInv, EndingKeepsIInv DEF Step

LEMMA NextKeepsIInv == IInv /\ [Next]_vars => IInv'
  <1> SUFFICES ASSUME IInv, [Next]_vars PROVE IInv'
    OBVIOUS
  <1>1. CASE UNCHANGED vars
    <2>1. WorkerInv' /\ UNCHANGED <<handle, store, changes, cache, session, past>>
      BY <1>1, FaultKeepsWorkers DEF vars, workerVars, IInv
    <2>2. QED BY <2>1 DEF IInv, TypeOK, WorkerInv, DownIsNew, SessionsHold
  <1>2. CASE Next
    BY <1>2, StartKeepsIInv, AskKeepsIInv, StepKeepsIInv, GoingKeepsIInv, ReportKeepsIInv,
       ChangeNoteKeepsIInv, AnotherFilesKeepsIInv, WorkingsKeepIInv DEF Next
  <1>3. QED BY <1>1, <1>2

\* Handles, workers, sessions and what each went through fit together at every step
\* of any number of processes, workers and notes (worker.rs, semantic.rs).
THEOREM RetrievalInvariant == Spec => []IInv
  BY InitIInv, NextKeepsIInv, PTL DEF Spec

\* Every variable keeps its type (core/semantic.rs, SemanticState; worker.rs,
\* WorkerHandle).
THEOREM RetrievalTypes == Spec => []TypeOK
  <1>1. IInv => TypeOK
    BY DEF IInv
  <1>2. QED BY <1>1, RetrievalInvariant, PTL

\* No worker and no socket is left that nobody would stop, unless its process was
\* killed (worker.rs, shutdown and Drop).
THEOREM NobodyIsLeftBehind == Spec => []NothingLeftBehind
  <1>1. IInv => NothingLeftBehind
    BY DEF IInv, WorkerInv
  <1>2. QED BY <1>1, RetrievalInvariant, PTL

\* What was paid for is on disk once a question was answered, or is owed, unless
\* another process, followed or not, has saved its own index over it since
\* (semantic.rs, cache_dirty; cache.rs, save).
THEOREM VectorsAreFiled == Spec => []PaidForIsFiled
  <1>1. IInv => PaidForIsFiled
    BY DEF IInv, SessionsHold, SessionInv, Filed, PaidForIsFiled
  <1>2. QED BY <1>1, RetrievalInvariant, PTL

\* No text is sent for a vector the process has, or had no reason to drop
\* (semantic.rs, synchronise).
THEOREM NothingIsPaidTwice == Spec => PaidOnce
  <1>1. IInv /\ [Next]_vars =>
          [\A p \in Sessions :
             Embedded(p) => past[p].had[session[p].doc.note] # session[p].doc.text]_vars
    BY DEF IInv, SessionsHold, SessionInv, Obtained, Embedded
  <1>2. QED BY <1>1, RetrievalInvariant, PTL DEF Spec, PaidOnce

\* A question that is answered is concluded by its own process, in a pass that is
\* the last.
LEMMA OnlyItsOwnStepConcludes ==
    ASSUME IInv, [Next]_vars, NEW p \in Sessions,
           Concluding(p), Idle(p)', handle'[p].up
    PROVE  \/ SemanticRequired(p)
           \/ \E dirty \in BOOLEAN : Concluded(p, dirty) /\ ~Another(p)
  <1>1. session[p].stage = "verify" /\ session[p].todo = {}
    BY DEF Concluding, In
  <1>2. session'[p].stage \in {"rest", "over"}
    BY DEF Idle
  <1>3. session'[p].stage # session[p].stage
    BY <1>1, <1>2
  <1>4. session \in [Sessions -> Session] /\ session[p] \in Session /\ handle \in [Sessions -> Handle]
    BY Given DEF WorkerInv, WorkerTypeOK
  <1>5. handle[p].up
    BY <1>1, AskingIsUp
  <1>6. PICK q \in Sessions : Ask(q) \/ Step(q) \/ Leave(q) \/ Killed(q)
    <2>1. ASSUME NEW q \in Sessions, Start(q)
          PROVE  session'[p].stage = session[p].stage
      BY <1>4, <2>1 DEF Start, Session
    <2>2. QED BY <1>3, <2>1 DEF Next, vars, Report, ChangeNote, AnotherFiles, Workings
  <1>7. q = p
    <2>1. CASE Step(q)
      BY <1>3, <1>4, <2>1 DEF Step, List, Refuse, GivenBack, Skip, ReadBlank, ReadNote, Verify, Embedded,
        Asks, Claims, RequestFails, ClaimsNothing, NotEmbedded, Enumerate, SemanticRequired, Conclude,
        Persist, PersistFails, Concluded
    <2>2. CASE Ask(q)
      BY <1>3, <1>4, <2>2 DEF Ask, Consults, AsksAgain
    <2>3. CASE Leave(q) \/ Killed(q)
      BY <1>3, <1>4, <2>3 DEF Leave, Killed, Forgotten
    <2>4. QED BY <1>6, <2>1, <2>2, <2>3
  <1>8. Step(p)
    <2>1. ~Ask(p) /\ ~Leave(p)
      BY <1>1 DEF Ask, In, Leave, Idle
    <2>2. ~Killed(p)
      BY <1>4 DEF Killed, ProcessKilled, Down
    <2>3. QED BY <1>6, <1>7, <2>1, <2>2
  <1>9. ~RequestFails(p)
    <2>1. ASSUME NotEmbedded(p)
          PROVE  session'[p].stage = session[p].stage
      BY <1>4, <2>1 DEF NotEmbedded, Session
    <2>2. QED BY <1>1, <1>3, <2>1 DEF RequestFails, In
  <1>10. SemanticRequired(p) \/ Conclude(p) \/ Persist(p) \/ PersistFails(p)
    BY <1>1, <1>3, <1>8, <1>9 DEF Step, List, Refuse, Skip, ReadBlank, ReadNote, Reads, Verify, Embedded,
      Asks, Claims, Enumerate, In
  <1>11. \A dirty \in BOOLEAN : Concluded(p, dirty) => ~Another(p)
    <2>1. ASSUME NEW dirty \in BOOLEAN, Concluded(p, dirty), Another(p)
          PROVE  session'[p].stage = "list"
      BY <1>4, <2>1 DEF Concluded, Session
    <2>2. QED BY <1>2, <2>1
  <1>12. ASSUME Conclude(p) \/ Persist(p) \/ PersistFails(p)
         PROVE  \E dirty \in BOOLEAN : Concluded(p, dirty)
    <2>1. session[p].dirty \in BOOLEAN
      BY <1>4 DEF Session
    <2>2. QED BY <1>12, <2>1 DEF Conclude, Persist, PersistFails
  <1>13. QED BY <1>10, <1>11, <1>12

\* What the last pass leaves in the index.
LEMMA LastPassIsCurrent ==
    ASSUME IInv, NEW p \in Sessions, Concluding(p), NEW dirty \in BOOLEAN,
           Concluded(p, dirty), ~Another(p), past[p].changed = {}, ~past[p].missed,
           NEW n \in Notes
    PROVE  \/ Current(p, n)
           \/ n \in Held(session'[p].index) \ session[p].hits
           \/ session[p].pass = 2 /\ n \in session[p].forget
  <1> DEFINE s == session[p]
             index == s.index
  <1>1. /\ s \in Session /\ InOrder(s) /\ Claimed(s, past[p]) /\ UpToDate(s, past[p], store)
        /\ s.stage = "verify" /\ s.todo = {}
    BY Given DEF SessionInv, Concluding, In
  <1>2. session'[p].index = Without(index, s.forget)
    BY <1>1, Given DEF Concluded, Session
  <1>3. index \in Vectors /\ s.pass \in {1, 2} /\ (s.forget = {} \/ s.pass = 2)
    BY <1>1 DEF Session, Another
  <1> HIDE DEF s, index
  <1>4. session'[p].index[n] = IF n \in s.forget THEN Nothing ELSE index[n]
    BY <1>2 DEF Without
  <1>5. CASE n \notin Held(index)
    <2>1. index[n] = Nothing /\ store[n] \in Blank \union {Nothing}
      BY <1>1, <1>5 DEF UpToDate, InOrder, Held, index
    <2>2. QED BY <1>4, <2>1 DEF Current
  <1>6. CASE n \in Held(index) \ s.hits
    <2>1. n \notin s.forget
      BY <1>1, <1>6 DEF Claimed
    <2>2. QED BY <1>4, <1>6, <2>1 DEF Held, s
  <1>7. CASE n \in s.hits
    <2>1. n \in s.found \/ n \in s.forget
      BY <1>1, <1>7 DEF Claimed
    <2>2. CASE n \in s.found
      <3>1. n \notin s.forget /\ index[n] = store[n]
        BY <1>1, <2>2 DEF Claimed, UpToDate, index
      <3>2. n \in Held(index)
        BY <1>1, <1>7 DEF Claimed, index
      <3>3. store[n] \notin Blank
        BY <1>3, <3>1, <3>2 DEF Held, Vectors
      <3>4. QED BY <1>4, <3>1, <3>3 DEF Current
    <2>3. CASE n \in s.forget
      BY <1>3, <2>3 DEF s
    <2>4. QED BY <2>1, <2>2, <2>3
  <1>8. QED BY <1>5, <1>6, <1>7

\* An answer never says of a note nobody changed what it no longer says, and when
\* nothing changed and nothing was missed it leaves the index up to date
\* (context.rs, run; semantic.rs, synchronise).
THEOREM AnswersKeepUpWithNotes == Spec => AnswersKeepUp
  <1>1. ASSUME IInv, [Next]_vars, NEW p \in Sessions, Concluding(p), Idle(p)', handle'[p].up
        PROVE  /\ \A n \in session[p].found \ past[p].changed : session[p].index[n] = store[n]
               /\ past[p].changed = {} /\ ~past[p].missed =>
                    \A n \in Notes :
                      \/ Current(p, n) \/ n \in Held(session'[p].index) \ session[p].hits
                      \/ (session[p].pass = 2 /\ n \in session[p].forget)
    <2>1. /\ session[p].stage = "verify" /\ session[p].found \subseteq Notes
          /\ Claimed(session[p], past[p]) /\ UpToDate(session[p], past[p], store)
      BY <1>1, Given DEF SessionInv, Concluding, In, Session
    <2>2. \A n \in session[p].found \ past[p].changed : session[p].index[n] = store[n]
      BY <2>1 DEF UpToDate
    <2>3. CASE SemanticRequired(p)
      BY <2>1, <2>2, <2>3 DEF SemanticRequired, Claimed
    <2>4. CASE \E dirty \in BOOLEAN : Concluded(p, dirty) /\ ~Another(p)
      BY <1>1, <2>2, <2>4, LastPassIsCurrent
    <2>5. QED BY <1>1, <2>3, <2>4, OnlyItsOwnStepConcludes
  <1>2. IInv /\ [Next]_vars =>
          [\A p \in Sessions : Concluding(p) /\ Idle(p)' /\ handle'[p].up =>
             /\ \A n \in session[p].found \ past[p].changed : session[p].index[n] = store[n]
             /\ past[p].changed = {} /\ ~past[p].missed =>
                  \A n \in Notes : Current(p, n) \/ n \in Held(session'[p].index) \ session[p].hits
                                     \/ (session[p].pass = 2 /\ n \in session[p].forget)]_vars
    BY <1>1
  <1>3. QED BY <1>2, RetrievalInvariant, PTL DEF Spec, AnswersKeepUp

=============================================================================
