------------------------------ MODULE OneServer ------------------------------
(***************************************************************************)
(* What a worker bridge promises about the server it keeps, a process or a *)
(* connection: at most one runs at any moment, a new one always has a      *)
(* newer generation than every one before it, and after the bridge is done *)
(* none runs.                                                              *)
(***************************************************************************)
EXTENDS Integers

VARIABLES
  newest,   \* the generation of the last process started; -1 before the first
  running,  \* the generations whose process runs
  over      \* the bridge reported its stop

vars == <<newest, running, over>>

\* A bridge that spawns its server starts with one running, a bridge that dials with none.
Init ==
  /\ \/ newest = 0 /\ running = {0}
     \/ newest = -1 /\ running = {}
  /\ over = FALSE

\* A process starts. One that still ran was killed and reaped first.
Start ==
  /\ ~over
  /\ newest' \in Nat /\ newest' > newest
  /\ running' = {newest'}
  /\ UNCHANGED over

\* The process ended, or was killed.
End == running' = {} /\ UNCHANGED <<newest, over>>

Finish == over' = TRUE /\ running' = {} /\ UNCHANGED newest

Next == Start \/ End \/ Finish

Spec == Init /\ [][Next]_vars
=============================================================================
