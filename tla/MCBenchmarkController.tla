----------------------- MODULE MCBenchmarkController -----------------------
(***************************************************************************)
(* Instances of BenchmarkController for TLC; the cfg files choose the      *)
(* rates, the runtime, and which parts of the environment misbehave.       *)
(***************************************************************************)
EXTENDS BenchmarkController
=============================================================================
