----------------------------- MODULE MCBenchRun -----------------------------
(* Small instances of BenchRun.  NrOp is given by the number of operations *)
(* of each worker: two keys loaded by three threads, three keys by two.    *)
EXTENDS BenchRun, TLC

OneOneNone == 0 :> 1 @@ 1 :> 1 @@ 2 :> 0
TwoOne     == 0 :> 2 @@ 1 :> 1
=============================================================================
