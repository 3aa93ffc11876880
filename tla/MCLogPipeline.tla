---------------------------- MODULE MCLogPipeline ----------------------------
(***************************************************************************)
(* LogPipeline for TLC: two request threads, one core and one more thread  *)
(* in the pool, room for one event in the queue.                           *)
(***************************************************************************)
EXTENDS LogPipeline

CONSTANTS t1, t2, w1, w2

MCThreads == {t1, t2}
MCWorkers == {w1, w2}

=============================================================================
