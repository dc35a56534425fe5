----------------------------- MODULE Lifecycle -----------------------------
(***************************************************************************)
(* What a user of a Benchmark object may rely on, without the reconciler,  *)
(* its goroutines, its cache and the failures in between: the state of the *)
(* object only moves forward, one phase at a time, and Complete is         *)
(* reported only after the benchmark's metadata has been output.  Module   *)
(* BenchmarkController is shown to implement it.                           *)
(***************************************************************************)

VARIABLES
    phase,      \* Status.State of the object, "absent" when there is none
    posted      \* the metadata output of this object has been sent

lvars == <<phase, posted>>

LInit == phase = "absent" /\ posted = FALSE

LCreate == phase = "absent" /\ phase' = "" /\ posted' = FALSE

\* startWorkloads has been called for every workload.
LInitialize == phase = "" /\ phase' = "Initializing" /\ UNCHANGED posted

\* All workloads are initialized and the rates are running.
LRun == phase = "Initializing" /\ phase' = "Running" /\ UNCHANGED posted

LPost == phase = "Running" /\ posted' = TRUE /\ UNCHANGED phase

LComplete == phase = "Running" /\ posted /\ phase' = "Complete" /\ UNCHANGED posted

LRemove == phase # "absent" /\ phase' = "absent" /\ UNCHANGED posted

LNext == LCreate \/ LInitialize \/ LRun \/ LPost \/ LComplete \/ LRemove

LSpec == LInit /\ [][LNext]_lvars
=============================================================================
