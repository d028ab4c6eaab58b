------------------------------- MODULE TaskPool -------------------------------
(***************************************************************************)
(* What the scheduler promises the code that submits work to it, without    *)
(* threads, queues or counters: a submitted task runs on one thread at a    *)
(* time, at most Capacity tasks run at once, a task that yields or is woken *)
(* runs again, and stop() returns only when nothing is waiting or running.  *)
(***************************************************************************)
EXTENDS Integers, FiniteSets

CONSTANTS Tasks, Capacity

VARIABLES status, stopped

poolVars == <<status, stopped>>

Statuses == {"fresh", "pending", "running", "parked", "done"}

PoolInit ==
    /\ status = [f \in Tasks |-> "fresh"]
    /\ stopped = FALSE

Move(f, from, to) ==
    /\ ~stopped
    /\ status[f] \in from
    /\ status' = [status EXCEPT ![f] = to]
    /\ UNCHANGED stopped

\* Submit a new task, wake a parked one, or submit a finished fiber again.
Submit(f) == Move(f, {"fresh", "parked", "done"}, "pending")

SubmitTwo(f, g) ==
    /\ ~stopped
    /\ f # g
    /\ status[f] = "fresh" /\ status[g] = "fresh"
    /\ status' = [status EXCEPT ![f] = "pending", ![g] = "pending"]
    /\ UNCHANGED stopped

Running == {f \in Tasks : status[f] = "running"}

Run(f) == Cardinality(Running) < Capacity /\ Move(f, {"pending"}, "running")

\* A fiber that had already finished is discarded without running.
Discard(f) == Move(f, {"pending"}, "done")

Yield(f) == Move(f, {"running"}, "pending")

Park(f) == Move(f, {"running"}, "parked")

Finish(f) == Move(f, {"running"}, "done")

Stop ==
    /\ \A f \in Tasks : status[f] \notin {"pending", "running"}
    /\ stopped' = TRUE
    /\ UNCHANGED status

PoolNext ==
    \/ Stop
    \/ \E f, g \in Tasks : SubmitTwo(f, g)
    \/ \E f \in Tasks :
          Submit(f) \/ Run(f) \/ Discard(f) \/ Yield(f) \/ Park(f) \/ Finish(f)

PoolSpec == PoolInit /\ [][PoolNext]_poolVars
===============================================================================
