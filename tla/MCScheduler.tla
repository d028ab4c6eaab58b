----------------------------- MODULE MCScheduler -----------------------------
(* Small schedulers for TLC. *)
EXTENDS Scheduler

CONSTANTS w1, w2, f1, f2, c1

TwoWorkers == {w1, w2}
NoCallbacks == {}
=============================================================================
