---------------------------- MODULE MCTimerManager ----------------------------
(* Small timer managers for TLC. *)
EXTENDS TimerManager, TLC

CONSTANTS t1, t2, i1, i2

\* The idle threads run the same code and no property names one of them.
Symmetric == Permutations(Idlers)
===============================================================================
