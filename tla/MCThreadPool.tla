----------------------------- MODULE MCThreadPool -----------------------------
(* Two job types: a pool of two threads that compete for one job list, and *)
(* a pool of one thread, fed by the same main thread.                      *)
EXTENDS ThreadPool, TLC

CONSTANTS a1, a2, b1     \* worker threads

MCWorkers == {a1, a2, b1}
MCTypeOf == a1 :> 0 @@ a2 :> 0 @@ b1 :> 1
===============================================================================
