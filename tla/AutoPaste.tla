------------------------------- MODULE AutoPaste -------------------------------
(***************************************************************************)
(* The policy of clipboard capture, noteit-core/src/autopaste.rs: which    *)
(* note is armed, in which run of the mode, and what becomes of a          *)
(* clipboard change and of a read that finishes.  It holds no text.        *)
(***************************************************************************)
EXTENDS Integers

CONSTANT Notes      \* the notes of the store

VARIABLES
    armed,           \* the session capturing, or NotArmed
    nextGeneration,  \* moves on with every arm and every disarm
    reading,         \* a clipboard read is in flight
    queued           \* a change arrived while it was

policyVars == <<armed, nextGeneration, reading, queued>>

Sessions == [note : Notes, generation : Nat \ {0}]
NotArmed == [generation |-> 0]

PolicyTypeOK ==
    /\ armed \in Sessions \cup {NotArmed}
    /\ nextGeneration \in Nat
    /\ reading \in BOOLEAN
    /\ queued \in BOOLEAN

PolicyInit ==
    /\ armed = NotArmed
    /\ nextGeneration = 0
    /\ reading = FALSE
    /\ queued = FALSE

IsArmed == armed # NotArmed
IsTarget(n) == IsArmed /\ armed.note = n

(* Mutant: the change queued for the old target is left for the new one. *)
Mutant_ArmKeepsQueue(n) ==
    /\ nextGeneration' = nextGeneration + 1
    /\ armed' = [note |-> n, generation |-> nextGeneration + 1]
    /\ UNCHANGED <<reading, queued>>

(* A read in flight stays in flight, under the session it started with.    *)
Arm(n) ==
    /\ nextGeneration' = nextGeneration + 1
    /\ armed' = [note |-> n, generation |-> nextGeneration + 1]
    /\ queued' = FALSE
    /\ UNCHANGED reading

(* Mutant: the target stays. *)
Mutant_DisarmKeepsNote ==
    /\ armed' = [armed EXCEPT !.generation = 0]
    /\ queued' = FALSE
    /\ UNCHANGED <<nextGeneration, reading>>

Disarm ==
    /\ nextGeneration' = IF IsArmed THEN nextGeneration + 1 ELSE nextGeneration
    /\ armed' = NotArmed
    /\ queued' = FALSE
    /\ UNCHANGED reading

(* Mutant: changes are read as they come, whether or not one is being read. *)
Mutant_ReadsAtOnce(own, offersText) == IsArmed /\ ~own /\ offersText

(* observe answers Read: an external change, with text, and nobody reading. *)
ReadsNow(own, offersText) == IsArmed /\ ~own /\ offersText /\ ~reading

Observe(own, offersText) ==
    /\ IF IsArmed /\ ~own /\ offersText
       THEN reading' = TRUE /\ queued' = (queued \/ reading)
       ELSE UNCHANGED <<reading, queued>>
    /\ UNCHANGED <<armed, nextGeneration>>

(* Mutant: what came in during the read is forgotten. *)
Mutant_ForgetsQueue == FALSE

(* finish_read returns a session: one change at least is still to be read. *)
ReadsAgain == queued /\ IsArmed

FinishRead ==
    /\ reading' = ReadsAgain
    /\ queued' = FALSE
    /\ UNCHANGED <<armed, nextGeneration>>

(* Mutant: the target is compared, and not the run. *)
Mutant_AcceptsSameNote(session) == IsTarget(session.note)

Accepts(session) == armed = session
=============================================================================
