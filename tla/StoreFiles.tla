----------------------------- MODULE StoreFiles -----------------------------
(***************************************************************************)
(* The directories of a store and the calls that change them: notes/ and   *)
(* trash/ with its dated records (core/trash.rs, core/atomic_file.rs), the *)
(* pictures of assets/, and backups/ with its schedule and its retention   *)
(* (core/backup.rs, core/storage.rs).  One process at a time works here:   *)
(* the holder of the writer lease (StoreWriters).                          *)
(*                                                                         *)
(* An operation is the sequence of filesystem calls the code makes.  Any   *)
(* call may fail, the process may be killed between two calls, and the     *)
(* power may be lost: the disk then holds what it held at some instant     *)
(* since the last directory sync that succeeded.                           *)
(***************************************************************************)
EXTENDS Integers, FiniteSets

CONSTANTS Notes, Texts,
          Illustrated,  \* the texts that show a picture of their note
          Nothing,      \* no file, no note, no text, no time
          Keep,         \* SNAPSHOT_RETENTION
          Interval,     \* AUTOMATIC_BACKUP_INTERVAL_HOURS
          Retry,        \* AUTOMATIC_BACKUP_RETRY_MINUTES
          MaxTime,      \* bound: the clock shows 0..MaxTime
          MaxFaults,    \* bound: calls that fail, crashes and power losses
          MaxOps        \* bound: operations begun

ASSUME NothingAssumption == Nothing \notin Notes \union Texts \union Int
ASSUME TextsAssumption == Illustrated \subseteq Texts
ASSUME SpansAssumption ==
  /\ Keep \in Nat \ {0}
  /\ Interval \in Nat \ {0}
  /\ Retry \in Nat \ {0}
  /\ MaxTime \in Nat
  /\ MaxFaults \in Nat
  /\ MaxOps \in Nat

VARIABLES
  disk,       \* the directories, as every reader sees them
  survivors,  \* the directories a power loss may leave
  scratch,    \* backups/.tmp.*: the snapshot being built, or what a crash left
  op,         \* the operation of the process that holds the lease
  doomed,     \* the snapshots apply_retention has still to remove
  schedule,   \* BackupSchedule: volatile, read from the disk once
  clock,      \* the wall clock
  faults,     \* how much has gone wrong so far
  begun       \* operations begun so far

backups == <<scratch, doomed, schedule>>
vars == <<disk, survivors, op, backups, clock, faults, begun>>

Time == 0..MaxTime
Names == Time \X {1, 2}  \* "<second>" and "<second>-2"

\* The record beside a trash entry: none, that of this deletion, or that of
\* another one of the same note.
Dates == {"none", "own", "another"}

\* A directory of backups/ with a snapshot's name: what was copied into it,
\* whether its manifest can be read, and whether all of it is still there.
Snapshot == [name: Names, notes: [Notes -> Texts \union {Nothing}],
             trash: [Notes -> Texts \union {Nothing}],
             pictures: SUBSET Notes, sealed: BOOLEAN, whole: BOOLEAN]

Disk == [notes: [Notes -> Texts \union {Nothing}],
         trash: [Notes -> Texts \union {Nothing}],
         dated: [Notes -> Dates],
         pictures: SUBSET Notes,          \* the notes with a file in assets/
         shelf: SUBSET Snapshot,          \* backups/*
         committed: 0..Keep]              \* snapshots ever renamed into place

EmptyDisk ==
  [notes |-> [n \in Notes |-> Nothing], trash |-> [n \in Notes |-> Nothing],
   dated |-> [n \in Notes |-> "none"], pictures |-> {}, shelf |-> {}, committed |-> 0]

Operations == {"create", "save", "discard", "restore", "import", "backup"}
Steps == {"due", "sweep", "copy", "shelve", "sync shelf", "retain", "gut",
          "remove", "commit", "date", "unlink", "undate", "sync notes",
          "sync trash", "answer"}

\* Where a note is for a reader: a name in notes/ is a live note, whatever
\* trash/ holds.
PageOf(d, n) ==
  IF d.notes[n] # Nothing THEN [place |-> "live", text |-> d.notes[n]]
  ELSE IF d.trash[n] # Nothing THEN [place |-> "trashed", text |-> d.trash[n]]
  ELSE [place |-> "absent", text |-> Nothing]

Pages == [place: {"absent", "live", "trashed"}, text: Texts \union {Nothing}]

Idle == [kind |-> "none"]
FreshSchedule == [loaded |-> FALSE, success |-> Nothing, attempt |-> Nothing]

Init ==
  /\ disk = EmptyDisk
  /\ survivors = {EmptyDisk}
  /\ scratch = {}
  /\ op = Idle
  /\ doomed = {}
  /\ schedule = FreshSchedule
  /\ clock = 0
  /\ faults = 0
  /\ begun = 0

-----------------------------------------------------------------------------
(* Steps *)

At(step) == op.kind # "none" /\ op.step = step
Go(step) == op' = [op EXCEPT !.step = step]
Answer(ok) == op' = [op EXCEPT !.step = "answer", !.ok = ok]

\* A filesystem call that changes a directory.
Change(d) == disk' = d /\ survivors' = survivors \union {d}

Keeps == UNCHANGED <<disk, survivors>>
Quiet == UNCHANGED <<clock, begun>>

Fault == faults < MaxFaults /\ faults' = faults + 1
NoFault == UNCHANGED faults

\* sync_directory_after_commit: a failure is only a warning.
Sync ==
  \/ disk' = disk /\ survivors' = {disk} /\ NoFault
  \/ Keeps /\ Fault

-----------------------------------------------------------------------------
(* An operation begins *)

\* What the callers of each operation have made sure of: a new identifier is
\* fresh, a saved or discarded note was read, a page shows a picture only once
\* its import was answered.
Requested(kind, n, t) ==
  CASE kind = "create" -> PageOf(disk, n).place = "absent" /\ t \in Texts \ Illustrated
    [] kind = "save" -> disk.notes[n] # Nothing /\ t \in Texts
                        /\ (t \in Illustrated => n \in disk.pictures)
    [] kind = "import" -> disk.notes[n] # Nothing /\ t = Nothing
    [] kind = "discard" -> disk.notes[n] # Nothing /\ t = Nothing
    [] kind = "restore" -> disk.trash[n] # Nothing /\ t = Nothing
    [] kind = "backup" -> t = Nothing

Begin(kind, n, t) ==
  /\ op = Idle /\ begun < MaxOps /\ begun' = begun + 1
  /\ Requested(kind, n, t)
  /\ op' = [kind |-> kind, note |-> n, text |-> t, now |-> clock, ok |-> FALSE,
            before |-> PageOf(disk, n), after |-> faults,
            step |-> CASE kind = "backup" -> "sweep"
                       [] kind \in {"import", "restore"} -> "commit"
                       [] OTHER -> "due"]
  /\ Keeps /\ NoFault /\ UNCHANGED <<backups, clock>>

-----------------------------------------------------------------------------
(* backups/ *)

Listed(d) == {s \in d.shelf : s.sealed}

\* Oldest first: by created_at, then by name.
Older(s, t) ==
  \/ s.name[1] < t.name[1]
  \/ s.name[1] = t.name[1] /\ s.name[2] < t.name[2]

LastSnapshotTime(d) ==
  IF Listed(d) = {} THEN Nothing
  ELSE (CHOOSE s \in Listed(d) : \A t \in Listed(d) \ {s} : Older(t, s)).name[1]

Past(last, span) == last = Nothing \/ clock - last >= span

Loaded ==
  IF schedule.loaded THEN schedule
  ELSE [schedule EXCEPT !.loaded = TRUE, !.success = LastSnapshotTime(disk)]

\* automatic_backup_owed: the backups directory is read once per session.
BackUpBeforeMutation ==
  /\ At("due")
  /\ schedule' = Loaded
  /\ Go(IF Past(Loaded.success, Interval) /\ Past(Loaded.attempt, Retry)
        THEN "sweep" ELSE "commit")
  /\ Keeps /\ Quiet /\ NoFault /\ UNCHANGED <<scratch, doomed>>

\* A mutant: a failed attempt counts as a backup.
Mutant_RecordedAlways(ok) ==
  /\ schedule' = [loaded |-> TRUE, attempt |-> op.now, success |-> op.now]
  /\ IF op.kind = "backup" THEN Answer(ok) ELSE Go("commit")

\* record_backup_attempt; then the mutation goes on whatever happened, and the
\* backup somebody asked for is answered.
Recorded(ok) ==
  /\ schedule' = [loaded |-> TRUE, attempt |-> op.now,
                  success |-> IF ok THEN op.now ELSE schedule.success]
  /\ IF op.kind = "backup" THEN Answer(ok) ELSE Go("commit")

\* remove_stale_temp_directories, before anything of this run exists.  A
\* leftover that cannot be removed stays, and the backup goes on: it is built
\* under a name of its own, and the leftover is not followed from there.
SweepScratch ==
  /\ At("sweep")
  /\ \/ scratch' = {} /\ NoFault
     \/ scratch # {} /\ Fault /\ UNCHANGED scratch
  /\ Go("copy")
  /\ Keeps /\ Quiet /\ UNCHANGED <<doomed, schedule>>

\* reserve_snapshot_name
FreeNames == {i \in {1, 2} : \A s \in disk.shelf : s.name # <<op.now, i>>}

\* A mutant: assets/ is not copied, as before phase 3.12R.
Mutant_BuildSnapshotWithoutPictures ==
  /\ At("copy")
  /\ FreeNames # {}
  /\ \E i \in FreeNames :
       /\ \A j \in FreeNames : i <= j
       /\ scratch' = {[name |-> <<op.now, i>>, notes |-> disk.notes,
                       trash |-> disk.trash, pictures |-> {},
                       sealed |-> TRUE, whole |-> TRUE]}
  /\ Go("shelve")
  /\ Keeps /\ Quiet /\ NoFault /\ UNCHANGED <<doomed, schedule>>

\* build_snapshot: notes, trash, pictures, and the manifest only then.
BuildSnapshot ==
  /\ At("copy")
  /\ FreeNames # {}
  /\ \E i \in FreeNames :
       /\ \A j \in FreeNames : i <= j
       /\ scratch' = {[name |-> <<op.now, i>>, notes |-> disk.notes,
                       trash |-> disk.trash, pictures |-> disk.pictures,
                       sealed |-> TRUE, whole |-> TRUE]}
  /\ Go("shelve")
  /\ Keeps /\ Quiet /\ NoFault /\ UNCHANGED <<doomed, schedule>>

\* A copy fails, or the manifest, or both names are taken, or the rename: the
\* scratch directory is removed if it can be.
SnapshotFails ==
  /\ At("copy") \/ At("shelve")
  /\ \/ Fault
     \/ At("copy") /\ FreeNames = {} /\ NoFault
  /\ scratch' \in {{}, scratch}
  /\ Recorded(FALSE)
  /\ Keeps /\ Quiet /\ UNCHANGED doomed

\* The commit point of create_snapshot.
ShelveSnapshot ==
  /\ At("shelve")
  /\ scratch' = {}
  /\ Change([disk EXCEPT !.shelf = @ \union scratch,
                         !.committed = IF @ = Keep THEN Keep ELSE @ + 1])
  /\ Go("sync shelf")
  /\ Quiet /\ NoFault /\ UNCHANGED <<doomed, schedule>>

SyncShelf ==
  /\ At("sync shelf")
  /\ Sync
  /\ Go("retain")
  /\ Quiet /\ UNCHANGED backups

\* apply_retention lists the snapshots and takes the excess, oldest first.
Excess(d) == {s \in Listed(d) : Cardinality({t \in Listed(d) : Older(s, t)}) >= Keep}

Retain ==
  /\ At("retain")
  /\ doomed' = {s.name : s \in Excess(disk)}
  /\ IF doomed' = {} THEN Recorded(TRUE) ELSE Go("gut") /\ UNCHANGED schedule
  /\ Keeps /\ Quiet /\ NoFault /\ UNCHANGED scratch

\* remove_dir_all empties the directory, its manifest sooner or later, ...
NextDoomed ==
  CHOOSE s \in disk.shelf :
    /\ s.name \in doomed
    /\ \A t \in disk.shelf : t.name \in doomed /\ t # s => Older(s, t)

Gut ==
  /\ At("gut")
  /\ \E manifest \in BOOLEAN :
       Change([disk EXCEPT !.shelf = (@ \ {NextDoomed}) \union
                 {[NextDoomed EXCEPT !.whole = FALSE, !.sealed = manifest]}])
  /\ Go("remove")
  /\ Quiet /\ NoFault /\ UNCHANGED backups

\* ... and removes it; an error leaves the rest and the next one is tried.
PassOver ==
  /\ doomed' = doomed \ {NextDoomed.name}
  /\ IF doomed' = {} THEN Recorded(TRUE) ELSE Go("gut") /\ UNCHANGED schedule
  /\ Quiet /\ UNCHANGED scratch

Remove ==
  /\ At("remove")
  /\ Change([disk EXCEPT !.shelf = @ \ {NextDoomed}])
  /\ NoFault
  /\ PassOver

RemoveFails ==
  /\ At("gut") \/ At("remove")
  /\ Fault
  /\ Keeps
  /\ PassOver

-----------------------------------------------------------------------------
(* notes/, trash/ and assets/ *)

\* create_atomic: hard_link publishes the complete file under an absent name.
CreateNote ==
  /\ At("commit") /\ op.kind = "create"
  /\ disk.notes[op.note] = Nothing
  /\ Change([disk EXCEPT !.notes[op.note] = op.text])
  /\ Go("sync notes")
  /\ Quiet /\ NoFault /\ UNCHANGED backups

\* write_atomic: the synced temporary file is renamed over the note.
SaveNote ==
  /\ At("commit") /\ op.kind = "save"
  /\ Change([disk EXCEPT !.notes[op.note] = op.text])
  /\ Go("sync notes")
  /\ Quiet /\ NoFault /\ UNCHANGED backups

\* import_image: write_atomic under a fresh name of the note's own directory.
ImportImage ==
  /\ At("commit") /\ op.kind = "import"
  /\ Change([disk EXCEPT !.pictures = @ \union {op.note}])
  /\ Go("sync notes")
  /\ Quiet /\ NoFault /\ UNCHANGED backups

\* A mutant: the note is removed from notes/ and then written to trash/.
Mutant_MoveToTrashRemovesFirst ==
  /\ At("commit") /\ op.kind = "discard"
  /\ disk.notes[op.note] # Nothing
  /\ disk.trash[op.note] = Nothing
  /\ Change([disk EXCEPT !.notes[op.note] = Nothing])
  /\ Go("date")
  /\ Quiet /\ NoFault /\ UNCHANGED backups

\* move_to_trash: the rename, after its two checks.
MoveToTrash ==
  /\ At("commit") /\ op.kind = "discard"
  /\ disk.notes[op.note] # Nothing
  /\ disk.trash[op.note] = Nothing
  /\ Change([disk EXCEPT !.notes[op.note] = Nothing,
                         !.trash[op.note] = disk.notes[op.note],
                         !.dated[op.note] = IF @ = "none" THEN "none" ELSE "another"])
  /\ Go("date")
  /\ Quiet /\ NoFault /\ UNCHANGED backups

\* The record beside the file; without it the entry loses its date.
DateTrash ==
  /\ At("date")
  /\ \/ Change([disk EXCEPT !.dated[op.note] = "own"]) /\ NoFault
     \/ Keeps /\ Fault
  /\ Go("sync notes")
  /\ Quiet /\ UNCHANGED backups

\* restore_from_trash: hard_link refuses a name that exists.
LinkBack ==
  /\ At("commit") /\ op.kind = "restore"
  /\ disk.trash[op.note] # Nothing
  /\ disk.notes[op.note] = Nothing
  /\ Change([disk EXCEPT !.notes[op.note] = disk.trash[op.note]])
  /\ Go("unlink")
  /\ Quiet /\ NoFault /\ UNCHANGED backups

UnlinkTrash ==
  /\ At("unlink")
  /\ \/ Change([disk EXCEPT !.trash[op.note] = Nothing]) /\ NoFault
     \/ Keeps /\ Fault
  /\ Go("undate")
  /\ Quiet /\ UNCHANGED backups

RemoveRecord ==
  /\ At("undate")
  /\ \/ Change([disk EXCEPT !.dated[op.note] = "none"]) /\ NoFault
     \/ disk.dated[op.note] # "none" /\ Keeps /\ Fault
  /\ Go("sync notes")
  /\ Quiet /\ UNCHANGED backups

\* The commit is refused by what is on the disk: the trash already holds an
\* entry of that name, or a live note does.
Refuse ==
  /\ At("commit")
  /\ \/ op.kind = "create" /\ disk.notes[op.note] # Nothing
     \/ op.kind = "discard" /\ (disk.notes[op.note] = Nothing \/ disk.trash[op.note] # Nothing)
     \/ op.kind = "restore" /\ (disk.trash[op.note] = Nothing \/ disk.notes[op.note] # Nothing)
  /\ Answer(FALSE)
  /\ Keeps /\ Quiet /\ NoFault /\ UNCHANGED backups

\* A call up to the commit point fails.
CommitFails ==
  /\ At("commit")
  /\ Fault
  /\ Answer(FALSE)
  /\ Keeps /\ Quiet /\ UNCHANGED backups

\* A mutant: the directory is not synced.
Mutant_SyncNotesForgotten ==
  /\ At("sync notes")
  /\ IF op.kind \in {"discard", "restore"} THEN Go("sync trash") ELSE Answer(TRUE)
  /\ Keeps /\ NoFault /\ Quiet /\ UNCHANGED backups

SyncNotes ==
  /\ At("sync notes")
  /\ Sync
  /\ IF op.kind \in {"discard", "restore"} THEN Go("sync trash") ELSE Answer(TRUE)
  /\ Quiet /\ UNCHANGED backups

SyncTrash ==
  /\ At("sync trash")
  /\ Sync
  /\ Answer(TRUE)
  /\ Quiet /\ UNCHANGED backups

Return ==
  /\ At("answer")
  /\ op' = Idle
  /\ Keeps /\ Quiet /\ NoFault /\ UNCHANGED backups

-----------------------------------------------------------------------------
(* The process and the machine *)

\* Another process takes the lease, or this one starts again.
NewSession ==
  /\ op' = Idle
  /\ doomed' = {}
  /\ schedule' = FreshSchedule
  /\ Quiet /\ UNCHANGED scratch

Restart ==
  /\ op = Idle /\ schedule # FreshSchedule
  /\ NewSession
  /\ Keeps /\ NoFault

Crash ==
  /\ op # Idle
  /\ Fault
  /\ NewSession
  /\ Keeps

PowerLoss ==
  /\ Fault
  /\ disk' \in survivors
  /\ survivors' = {disk'}
  /\ NewSession

\* An operation is short beside the spans the clock is asked about.
SetClock ==
  /\ op = Idle
  /\ clock' \in Time \ {clock}
  /\ Keeps /\ NoFault /\ UNCHANGED <<op, backups, begun>>

Next ==
  \/ \E kind \in Operations, n \in Notes, t \in Texts \union {Nothing} : Begin(kind, n, t)
  \/ BackUpBeforeMutation \/ SweepScratch \/ BuildSnapshot \/ SnapshotFails
  \/ ShelveSnapshot \/ SyncShelf \/ Retain \/ Gut \/ Remove \/ RemoveFails
  \/ CreateNote \/ SaveNote \/ ImportImage \/ MoveToTrash \/ DateTrash
  \/ LinkBack \/ UnlinkTrash \/ RemoveRecord \/ Refuse \/ CommitFails
  \/ SyncNotes \/ SyncTrash \/ Return
  \/ Restart \/ Crash \/ PowerLoss \/ SetClock

Spec == Init /\ [][Next]_vars

-----------------------------------------------------------------------------
(* Properties *)

TypeOK ==
  /\ disk \in Disk
  /\ survivors \subseteq Disk
  /\ disk \in survivors
  /\ scratch \subseteq Snapshot
  /\ \/ op = Idle
     \/ op \in [kind: Operations, note: Notes, text: Texts \union {Nothing},
                now: Time, ok: BOOLEAN, before: Pages, after: 0..MaxFaults, step: Steps]
  /\ doomed \subseteq Names
  /\ schedule \in [loaded: BOOLEAN, success: Time \union {Nothing},
                   attempt: Time \union {Nothing}]
  /\ clock \in Time
  /\ faults \in 0..MaxFaults
  /\ begun \in 0..MaxOps

\* An answer tells what the directories hold, whichever call failed: done means
\* that the note is where the operation was to bring it, with its text, and an
\* error that it is where it was (write.rs: repeating is safe).  What was done
\* without trouble survives a power loss, and so does everything before it, the
\* changes whose own sync failed included (atomic_file.rs: nothing has to
\* remember that a sync was missed).
AnswersHold ==
  At("answer") =>
    /\ PageOf(disk, op.note) =
         IF ~op.ok \/ op.kind \in {"backup", "import"} THEN op.before
         ELSE IF op.kind \in {"create", "save"} THEN [place |-> "live", text |-> op.text]
         ELSE IF op.kind = "discard" THEN [place |-> "trashed", text |-> op.before.text]
         ELSE [place |-> "live", text |-> op.before.text]
    /\ op.ok /\ op.after = faults =>
         \A d \in survivors :
           /\ \A n \in Notes : PageOf(d, n) = PageOf(disk, n)
           /\ d.committed = disk.committed

\* A backup that was answered as made is there, whole and with the notebook as
\* it is, unless as many as are kept carry a date no earlier; and whatever is
\* listed as whole has the picture of every text in it that shows one, in its
\* notes and in its trash (backup.rs: everything recoverable, or it is not a
\* backup).
BackupKept ==
  /\ At("answer") /\ op.kind = "backup" /\ op.ok =>
       \/ \E s \in Listed(disk) :
            s.whole /\ \A n \in Notes : PageOf(s, n) = PageOf(disk, n)
       \/ Cardinality({s \in Listed(disk) : s.whole /\ s.name[1] >= op.now}) >= Keep
  /\ \A s \in Listed(disk) : s.whole =>
       \A n \in Notes :
         {s.notes[n], s.trash[n]} \intersect Illustrated # {} => n \in s.pictures

\* No note is created, overwritten or discarded without a complete snapshot less
\* than the interval old, or an attempt at one within the retry span.
DayIsCovered ==
  [][CreateNote \/ SaveNote \/ MoveToTrash =>
       \/ \E s \in Listed(disk) : s.whole /\ clock - s.name[1] < Interval
       \/ schedule.attempt # Nothing /\ clock - schedule.attempt < Retry]_vars

\* The directories are the notebook: each operation changes where a note is in
\* one of its calls, all the others change nothing a reader sees.
Shown(d) == [n \in Notes |-> PageOf(d, n)]

Abstract == INSTANCE Notebook WITH
  NoText <- Nothing,
  book <- Shown(disk),
  kept <- {Shown(d) : d \in survivors}

IsNotebook == Abstract!Spec

=============================================================================
