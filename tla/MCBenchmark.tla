----------------------------- MODULE MCBenchmark -----------------------------
(* The high-BDP harness alone. *)
EXTENDS Benchmark
==============================================================================
