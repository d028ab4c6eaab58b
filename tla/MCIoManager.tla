----------------------------- MODULE MCIoManager -----------------------------
(* Small epoll schedulers for TLC. *)
EXTENDS IoManager, TLC

CONSTANTS w1, w2, f1, f2, c1

\* The threads run the same code and no property names one of them.
Symmetric == Permutations(Threads)
==============================================================================
