------------------------------ MODULE Lifecycle ------------------------------
(***************************************************************************)
(* The LifecycleCoordinator of src/src/app.rs: the one place that decides  *)
(* what may run at the same time.  Hiding and quitting claim it for as     *)
(* long as their flush takes; an external write claims it from the moment  *)
(* it asks a window to hold still until its answer is known.  The rule is  *)
(* meant to be symmetric.                                                  *)
(***************************************************************************)
EXTENDS Integers

VARIABLES
    active,          \* the lifecycle operation in progress, or NoOperation
    externalWrites   \* external writes holding a note's editor still

lifecycleVars == <<active, externalWrites>>

LifecycleOperation == {"Hide", "Quit"}
NoOperation == "none"

LifecycleTypeOK ==
    /\ active \in LifecycleOperation \cup {NoOperation}
    /\ externalWrites \in Nat

LifecycleInit ==
    /\ active = NoOperation
    /\ externalWrites = 0

(* Closing, creating, moving to the trash, changing geometry.              *)
StructuralActionAllowed ==
    /\ active = NoOperation
    /\ externalWrites = 0

(* Mutant: an external write asks nobody. *)
Mutant_ExternalWriteAlwaysAllowed == TRUE

(* An external write looks only at the operation: writes of others do not  *)
(* refuse it, the control server serialises them.                          *)
ExternalWriteAllowed == active = NoOperation

BeginLifecycle(operation) ==
    /\ active = NoOperation
    /\ externalWrites = 0
    /\ active' = operation
    /\ UNCHANGED externalWrites

FinishLifecycle(operation) ==
    /\ active' = IF active = operation THEN NoOperation ELSE active
    /\ UNCHANGED externalWrites

BeginExternalWrite ==
    /\ ExternalWriteAllowed
    /\ externalWrites' = externalWrites + 1
    /\ UNCHANGED active

FinishExternalWrite ==
    /\ externalWrites' = IF externalWrites = 0 THEN 0 ELSE externalWrites - 1
    /\ UNCHANGED active
=============================================================================
