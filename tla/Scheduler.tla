------------------------------ MODULE Scheduler ------------------------------
(***************************************************************************)
(* The N:M coroutine scheduler of lyslg (lyslg/scheduler.{h,cc}) together   *)
(* with the states of the fibers it runs (lyslg/fiber.{h,cc}).              *)
(*                                                                          *)
(* Worker threads execute Scheduler::run: take the first eligible entry of  *)
(* m_fibers under m_mutex, switch into it, and look at the fiber's state    *)
(* when it switches back.  The owner thread (Root) constructs, starts,      *)
(* schedules and finally stops the scheduler; with use_caller it executes   *)
(* run() itself from inside stop().                                         *)
(*                                                                          *)
(* One action is one stretch of code no other thread can observe halfway: a *)
(* critical section of m_mutex, an operation on an atomic counter, or a     *)
(* write of Fiber::m_state.                                                 *)
(***************************************************************************)
EXTENDS Integers, FiniteSets, Sequences, SequencesExt

CONSTANTS
    Workers,     \* threads that start() creates (m_threadCount of them)
    Root,        \* the thread that owns the scheduler and calls stop()
    UseCaller,   \* constructor argument use_caller
    Fibers,      \* tasks submitted as Fiber::ptr
    Callbacks,   \* tasks submitted as std::function<void()>
    AnyThread,   \* FiberAndThread::thread = -1
    NoTask,      \* no fiber under the run loop
    EarlyWake,   \* may a fiber be scheduled again before run() is done with it?
    LatePins,    \* may a task pin work to a thread that has left run()?
    MaxYields    \* bound on the number of yields in a behaviour

Tasks == Fibers \cup Callbacks
Procs == Workers \cup {Root}

\* "threads > 0" is the constructor's assertion: with use_caller one of the
\* threads is the caller, without it they are all workers.
ASSUME SchedulerAssumption ==
    /\ IsFiniteSet(Workers)
    /\ Root \notin Workers
    /\ UseCaller \in BOOLEAN
    /\ UseCaller \/ Workers # {}
    /\ Fibers \cap Callbacks = {}
    /\ AnyThread \notin Procs
    /\ NoTask \notin Tasks
    /\ EarlyWake \in BOOLEAN
    /\ LatePins \in BOOLEAN
    /\ MaxYields \in Nat

\* Fiber::State, and NONE for a callback that no Fiber wraps yet.
States == {"NONE", "INIT", "HOLD", "EXEC", "TERM", "READY", "EXCEPT"}
Finished == {"TERM", "EXCEPT"}

RunPoints == {"loop", "got", "exec", "armed", "switch", "after", "idle"}
WorkerPoints == RunPoints \cup {"unborn", "exited"}
RootPoints == RunPoints \cup
    {"new", "client", "stopEarly", "stopSet", "stopCheck", "join", "stopped"}

VARIABLES
    m_fibers,            \* the queue: [task, thread] entries
    m_activeThreadCount,
    m_idleThreadCount,
    m_stopping,
    m_autoStop,
    m_state,             \* Fiber::m_state of every task
    armed,               \* fibers handed to a waker before they yield to HOLD
    pc,                  \* where each thread is
    cur,                 \* the task under each thread's run loop
    idleTerm,            \* threads whose idle fiber is TERM
    yields               \* yields so far

fiberVars  == <<m_state, armed, yields>>
flagVars   == <<m_stopping, m_autoStop>>
countVars  == <<m_activeThreadCount, m_idleThreadCount>>
threadVars == <<pc, cur, idleTerm>>
vars == <<m_fibers, countVars, flagVars, fiberVars, threadVars>>

Entry == [task : Tasks, thread : Procs \cup {AnyThread}]

TypeOK ==
    /\ m_fibers \in Seq(Entry)
    /\ m_activeThreadCount \in Nat
    /\ m_idleThreadCount \in Nat
    /\ m_stopping \in BOOLEAN
    /\ m_autoStop \in BOOLEAN
    /\ m_state \in [Tasks -> States]
    /\ armed \subseteq Tasks
    /\ pc \in [Procs -> WorkerPoints \cup RootPoints]
    /\ \A t \in Procs : pc[t] \in IF t = Root THEN RootPoints ELSE WorkerPoints
    /\ cur \in [Procs -> Tasks \cup {NoTask}]
    /\ idleTerm \subseteq Procs
    /\ yields \in 0..MaxYields

Init ==
    /\ m_fibers = <<>>
    /\ m_activeThreadCount = 0
    /\ m_idleThreadCount = 0
    /\ m_stopping = TRUE
    /\ m_autoStop = FALSE
    /\ m_state = [f \in Tasks |-> IF f \in Callbacks THEN "NONE" ELSE "INIT"]
    /\ armed = {}
    /\ pc = [t \in Procs |-> IF t = Root THEN "new" ELSE "unborn"]
    /\ cur = [t \in Procs |-> NoTask]
    /\ idleTerm = {}
    /\ yields = 0

Queued(f) == \E i \in 1..Len(m_fibers) : m_fibers[i].task = f
OnThread(f) == \E t \in Procs : cur[t] = f

(***************************************************************************)
(* Submitting work.  schedule() appends under m_mutex; the base class's     *)
(* tickle() only logs.                                                      *)
(***************************************************************************)
schedule(f, thread) ==
    m_fibers' = Append(m_fibers, [task |-> f, thread |-> thread])

scheduleBatch(f, g) ==
    m_fibers' = m_fibers \o << [task |-> f, thread |-> AnyThread],
                               [task |-> g, thread |-> AnyThread] >>

\* A task nobody has submitted yet.
Fresh(f) == m_state[f] \in {"NONE", "INIT"} /\ ~Queued(f) /\ ~OnThread(f)

\* A finished fiber whose owner submits its Fiber::ptr once more.
Stale(f) == f \in Fibers /\ m_state[f] \in Finished /\ ~Queued(f) /\ ~OnThread(f)

\* A fiber its waker may schedule.  The code lets a waker on another thread in
\* from the moment the fiber is armed; without EarlyWake the waker comes only
\* after run() has let go of the fiber.
Wakeable(f) == f \in armed /\ (EarlyWake \/ ~OnThread(f))

\* Variant: the waker keeps its registration and schedules the fiber again.
wakeTwice(f) == schedule(f, AnyThread) /\ UNCHANGED armed

wake(f) == schedule(f, AnyThread) /\ armed' = armed \ {f}

\* The owner submits tasks, with any thread id it knows, until it calls stop().
OwnerSubmits == pc[Root] \in {"new", "client"}

KnownThreads ==
    {AnyThread} \cup {t \in Workers : pc[t] # "unborn"}
                \cup (IF UseCaller THEN {Root} ELSE {})

ClientSchedule ==
    /\ OwnerSubmits
    /\ \E f \in Tasks, thread \in KnownThreads :
          /\ Fresh(f) \/ Stale(f)
          /\ schedule(f, thread)
    /\ UNCHANGED <<countVars, flagVars, fiberVars, threadVars>>

ClientScheduleBatch ==
    /\ OwnerSubmits
    /\ \E f, g \in Tasks :
          /\ f # g
          /\ Fresh(f) /\ Fresh(g)
          /\ scheduleBatch(f, g)
    /\ UNCHANGED <<countVars, flagVars, fiberVars, threadVars>>

ClientWake ==
    /\ OwnerSubmits
    /\ \E f \in Tasks : Wakeable(f) /\ wake(f)
    /\ UNCHANGED <<countVars, flagVars, m_state, yields, threadVars>>

(***************************************************************************)
(* start() creates the workers while it holds m_mutex, which is the first   *)
(* thing run() needs, so their birth is one step.                           *)
(***************************************************************************)
start ==
    /\ pc[Root] = "new"
    /\ m_stopping
    /\ m_stopping' = FALSE
    /\ pc' = [t \in Procs |-> IF t = Root THEN "client" ELSE "loop"]
    /\ UNCHANGED <<m_fibers, countVars, m_autoStop, fiberVars, cur, idleTerm>>

(***************************************************************************)
(* Scheduler::run.                                                          *)
(***************************************************************************)
\* Variant: the queue is not looked at.
stoppingUnchecked == m_autoStop /\ m_stopping /\ m_activeThreadCount = 0

stopping ==
    /\ m_autoStop
    /\ m_stopping
    /\ m_fibers = <<>>
    /\ m_activeThreadCount = 0

\* Variant: an entry pinned to this very thread is skipped as well.
EligibleUnpinned(t, e) == e.thread = AnyThread /\ m_state[e.task] # "EXEC"

\* An entry is skipped when it is pinned to another thread, or when its fiber
\* is in EXEC.
Eligible(t, e) == e.thread \in {AnyThread, t} /\ m_state[e.task] # "EXEC"

NothingFor(t) == \A i \in 1..Len(m_fibers) : ~Eligible(t, m_fibers[i])

\* Variant: the thread takes the entry without counting itself.
PickUncounted(t) ==
    /\ pc[t] = "loop"
    /\ \E i \in 1..Len(m_fibers) :
          /\ Eligible(t, m_fibers[i])
          /\ \A j \in 1..(i - 1) : ~Eligible(t, m_fibers[j])
          /\ cur' = [cur EXCEPT ![t] = m_fibers[i].task]
          /\ m_fibers' = RemoveAt(m_fibers, i)
    /\ pc' = [pc EXCEPT ![t] = "got"]
    /\ UNCHANGED <<countVars, flagVars, fiberVars, idleTerm>>

\* Take the first eligible entry, and count the thread as active.
Pick(t) ==
    /\ pc[t] = "loop"
    /\ \E i \in 1..Len(m_fibers) :
          /\ Eligible(t, m_fibers[i])
          /\ \A j \in 1..(i - 1) : ~Eligible(t, m_fibers[j])
          /\ cur' = [cur EXCEPT ![t] = m_fibers[i].task]
          /\ m_fibers' = RemoveAt(m_fibers, i)
    /\ m_activeThreadCount' = m_activeThreadCount + 1
    /\ pc' = [pc EXCEPT ![t] = "got"]
    /\ UNCHANGED <<m_idleThreadCount, flagVars, fiberVars, idleTerm>>

\* Variant: the early "continue" forgets to count the thread out.
DropFinishedCounted(t) ==
    /\ pc[t] = "got"
    /\ m_state[cur[t]] \in Finished
    /\ cur' = [cur EXCEPT ![t] = NoTask]
    /\ pc' = [pc EXCEPT ![t] = "loop"]
    /\ UNCHANGED <<m_fibers, countVars, flagVars, fiberVars, idleTerm>>

\* The entry was a fiber that has finished meanwhile: nothing to run.
DropFinished(t) ==
    /\ pc[t] = "got"
    /\ m_state[cur[t]] \in Finished
    /\ m_activeThreadCount' = m_activeThreadCount - 1
    /\ cur' = [cur EXCEPT ![t] = NoTask]
    /\ pc' = [pc EXCEPT ![t] = "loop"]
    /\ UNCHANGED <<m_fibers, m_idleThreadCount, flagVars, fiberVars, idleTerm>>

\* Fiber::swapIn, of the fiber itself or of the cb_fiber made for a callback.
SwapIn(t) ==
    /\ pc[t] = "got"
    /\ m_state[cur[t]] \notin Finished
    /\ m_state' = [m_state EXCEPT ![cur[t]] = "EXEC"]
    /\ pc' = [pc EXCEPT ![t] = "exec"]
    /\ UNCHANGED <<m_fibers, countVars, flagVars, armed, yields, cur, idleTerm>>

\* Fiber::swapOut has returned to the run loop, which is no longer active.
SwapBack(t) ==
    /\ pc[t] = "switch"
    /\ m_activeThreadCount' = m_activeThreadCount - 1
    /\ pc' = [pc EXCEPT ![t] = "after"]
    /\ UNCHANGED <<m_fibers, m_idleThreadCount, flagVars, fiberVars, cur, idleTerm>>

\* Variant: a fiber that yielded to READY is not queued again.
SettleUnqueued(t) ==
    /\ pc[t] = "after"
    /\ cur' = [cur EXCEPT ![t] = NoTask]
    /\ pc' = [pc EXCEPT ![t] = "loop"]
    /\ UNCHANGED <<m_fibers, countVars, flagVars, fiberVars, idleTerm>>

\* A READY fiber is queued again, for any thread; one that did not finish is
\* marked HOLD; either way the run loop drops it.
Settle(t) ==
    /\ pc[t] = "after"
    /\ IF m_state[cur[t]] = "READY"
         THEN schedule(cur[t], AnyThread) /\ UNCHANGED m_state
         ELSE /\ m_state' = IF m_state[cur[t]] \in Finished
                              THEN m_state
                              ELSE [m_state EXCEPT ![cur[t]] = "HOLD"]
              /\ UNCHANGED m_fibers
    /\ cur' = [cur EXCEPT ![t] = NoTask]
    /\ pc' = [pc EXCEPT ![t] = "loop"]
    /\ UNCHANGED <<countVars, flagVars, armed, yields, idleTerm>>

\* Nothing to take and the idle fiber is alive: switch into it.
EnterIdle(t) ==
    /\ pc[t] = "loop"
    /\ NothingFor(t)
    /\ t \notin idleTerm
    /\ m_idleThreadCount' = m_idleThreadCount + 1
    /\ pc' = [pc EXCEPT ![t] = "idle"]
    /\ UNCHANGED <<m_fibers, m_activeThreadCount, flagVars, fiberVars, cur, idleTerm>>

\* Scheduler::idle evaluates stopping() once and yields, or terminates; the
\* run loop goes round once more in both cases.
LeaveIdle(t) ==
    /\ pc[t] = "idle"
    /\ idleTerm' = IF stopping THEN idleTerm \cup {t} ELSE idleTerm
    /\ m_idleThreadCount' = m_idleThreadCount - 1
    /\ pc' = [pc EXCEPT ![t] = "loop"]
    /\ UNCHANGED <<m_fibers, m_activeThreadCount, flagVars, fiberVars, cur>>

\* Nothing to take and the idle fiber has terminated: run() returns.
Exit(t) ==
    /\ pc[t] = "loop"
    /\ NothingFor(t)
    /\ t \in idleTerm
    /\ pc' = [pc EXCEPT ![t] = IF t = Root THEN "join" ELSE "exited"]
    /\ UNCHANGED <<m_fibers, countVars, flagVars, fiberVars, cur, idleTerm>>

(***************************************************************************)
(* What the code of a task does while it executes on thread t.              *)
(***************************************************************************)
\* Threads that will still come round to Scheduler::run's queue scan.
Live(t) ==
    /\ t # Root \/ UseCaller
    /\ pc[t] \notin {"exited", "join", "stopped"}

\* schedule(fc, thread) takes any thread id and does not ask whether that thread
\* is still in run(); without LatePins the application keeps to threads that are.
PinTargets ==
    IF LatePins THEN KnownThreads
    ELSE {thread \in KnownThreads : thread # AnyThread => Live(thread)}

TaskSchedule(t) ==
    /\ pc[t] = "exec"
    /\ \E f \in Tasks, thread \in PinTargets : Fresh(f) /\ schedule(f, thread)
    /\ UNCHANGED <<countVars, flagVars, fiberVars, threadVars>>

TaskWake(t) ==
    /\ pc[t] = "exec"
    /\ \E f \in Tasks : Wakeable(f) /\ wake(f)
    /\ UNCHANGED <<countVars, flagVars, m_state, yields, threadVars>>

\* A hooked call registers the fiber with a timer or a file descriptor ...
Arm(t) ==
    /\ pc[t] = "exec"
    /\ yields < MaxYields
    /\ yields' = yields + 1
    /\ armed' = armed \cup {cur[t]}
    /\ pc' = [pc EXCEPT ![t] = "armed"]
    /\ UNCHANGED <<m_fibers, countVars, flagVars, m_state, cur, idleTerm>>

\* ... and then yields.  The state is HOLD before the context is saved.
YieldToHold(t) ==
    /\ pc[t] = "armed"
    /\ m_state' = [m_state EXCEPT ![cur[t]] = "HOLD"]
    /\ pc' = [pc EXCEPT ![t] = "switch"]
    /\ UNCHANGED <<m_fibers, countVars, flagVars, armed, yields, cur, idleTerm>>

YieldToReady(t) ==
    /\ pc[t] = "exec"
    /\ yields < MaxYields
    /\ yields' = yields + 1
    /\ m_state' = [m_state EXCEPT ![cur[t]] = "READY"]
    /\ pc' = [pc EXCEPT ![t] = "switch"]
    /\ UNCHANGED <<m_fibers, countVars, flagVars, armed, cur, idleTerm>>

\* Fiber::MainFunc: the task's function returned, or threw.
MainFunc(t) ==
    /\ pc[t] = "exec"
    /\ \E s \in Finished : m_state' = [m_state EXCEPT ![cur[t]] = s]
    /\ pc' = [pc EXCEPT ![t] = "switch"]
    /\ UNCHANGED <<m_fibers, countVars, flagVars, armed, yields, cur, idleTerm>>

(***************************************************************************)
(* Scheduler::stop, on the owner thread.                                    *)
(***************************************************************************)
StopBegin ==
    /\ pc[Root] = "client"
    /\ m_autoStop' = TRUE
    /\ pc' = [pc EXCEPT ![Root] =
                IF UseCaller /\ Workers = {} THEN "stopEarly" ELSE "stopSet"]
    /\ UNCHANGED <<m_fibers, countVars, m_stopping, fiberVars, cur, idleTerm>>

\* Variant: the queue is not looked at before the early return.
StopEarlyUnchecked ==
    /\ pc[Root] = "stopEarly"
    /\ m_stopping' = TRUE
    /\ UNCHANGED <<m_fibers, countVars, m_autoStop, fiberVars, cur, idleTerm>>
    /\ pc' = [pc EXCEPT ![Root] = "stopped"]

\* No worker and the root fiber has not run: with an empty queue stop() is done.
StopEarly ==
    /\ pc[Root] = "stopEarly"
    /\ m_stopping' = TRUE
    /\ UNCHANGED <<m_fibers, countVars, m_autoStop, fiberVars, cur, idleTerm>>
    /\ pc' = [pc EXCEPT ![Root] = IF stopping' THEN "stopped" ELSE "stopSet"]

StopSet ==
    /\ pc[Root] = "stopSet"
    /\ m_stopping' = TRUE
    /\ pc' = [pc EXCEPT ![Root] = "stopCheck"]
    /\ UNCHANGED <<m_fibers, countVars, m_autoStop, fiberVars, cur, idleTerm>>

\* m_rootFiber->call() enters run() on this thread.
StopCheck ==
    /\ pc[Root] = "stopCheck"
    /\ pc' = [pc EXCEPT ![Root] = IF UseCaller /\ ~stopping THEN "loop" ELSE "join"]
    /\ UNCHANGED <<m_fibers, countVars, flagVars, fiberVars, cur, idleTerm>>

Join ==
    /\ pc[Root] = "join"
    /\ \A t \in Workers : pc[t] = "exited"
    /\ pc' = [pc EXCEPT ![Root] = "stopped"]
    /\ UNCHANGED <<m_fibers, countVars, flagVars, fiberVars, cur, idleTerm>>

-----------------------------------------------------------------------------

\* One step of thread t inside run().
run(t) ==
    \/ Pick(t)
    \/ DropFinished(t)
    \/ SwapIn(t)
    \/ SwapBack(t)
    \/ Settle(t)
    \/ EnterIdle(t)
    \/ LeaveIdle(t)
    \/ Exit(t)
    \/ TaskSchedule(t)
    \/ TaskWake(t)
    \/ Arm(t)
    \/ YieldToHold(t)
    \/ YieldToReady(t)
    \/ MainFunc(t)

stop == StopEarly \/ StopSet \/ StopCheck \/ Join

Client == ClientSchedule \/ ClientScheduleBatch \/ ClientWake \/ start \/ StopBegin

\* stop() has returned: only stuttering is left.
Terminated == pc[Root] = "stopped" /\ UNCHANGED vars

Next == Client \/ stop \/ Terminated \/ \E t \in Procs : run(t)

\* Every thread the operating system runs makes progress; the owner is not
\* obliged to submit anything or to call stop(), but finishes it once called.
Fairness == WF_vars(stop) /\ \A t \in Procs : WF_vars(run(t))

Spec == Init /\ [][Next]_vars
FairSpec == Spec /\ Fairness
-----------------------------------------------------------------------------
(***************************************************************************)
(* Properties.                                                              *)
(***************************************************************************)

\* A fiber is in one place only: under one thread's run loop, or in one entry
\* of m_fibers, never both.  A fiber in two places would be switched into by
\* two threads and run twice on one stack (Fiber::swapIn).
OneOwner ==
    /\ \A t, u \in Procs : cur[t] = cur[u] /\ cur[t] # NoTask => t = u
    /\ \A f \in Tasks : ~(Queued(f) /\ OnThread(f))
    /\ \A i, j \in 1..Len(m_fibers) : m_fibers[i].task = m_fibers[j].task => i = j

\* Fiber::swapIn's LYSLG_ASSERT(m_state != EXEC) cannot fail: what a thread
\* took from the queue is not being executed when it switches to it.
SwapInAssert == \A t \in Procs : pc[t] = "got" => m_state[cur[t]] # "EXEC"

\* m_activeThreadCount is the number of threads between taking an entry and
\* switching back, on every path through run(); stopping() relies on it.
ActivePoints == {"got", "exec", "armed", "switch"}
ActiveCountExact ==
    m_activeThreadCount = Cardinality({t \in Procs : pc[t] \in ActivePoints})

\* A fiber that yielded is not forgotten: until it runs again it is held by its
\* waker, queued, or still under a run loop (dropping the last reference to it
\* would fail the assertion in ~Fiber).
NoLostFiber ==
    \A f \in Tasks : m_state[f] \in {"HOLD", "READY"} =>
        f \in armed \/ Queued(f) \/ OnThread(f)

\* No entry waits for a thread that is gone: the thread of a pinned entry, or
\* some thread for an unpinned one, has not returned from run() for good, however
\* late the entry comes: a thread may be about to leave when it is pinned to.  An
\* orphan would keep stopping() false and stop() joining for ever.
NoOrphan ==
    \A i \in 1..Len(m_fibers) :
        \E t \in Procs : Live(t) /\ m_fibers[i].thread \in {AnyThread, t}

\* When stop() returns, everything submitted has been run: the queue is empty
\* and no thread holds a task, although a thread that requeues a READY fiber
\* first stops counting as active, which lets others see stopping() too early.
DrainedOnStop ==
    pc[Root] = "stopped" =>
        /\ m_fibers = <<>>
        /\ \A t \in Procs : cur[t] = NoTask
        /\ \A t \in Workers : pc[t] = "exited"

\* The comment in Scheduler::run where the state of the fiber that switched
\* back is examined: if it is not READY, TERM or EXCEPT it "can only be HOLD, or
\* possibly INIT".
OnlyHoldOrInit ==
    \A t \in Procs : pc[t] = "after" =>
        m_state[cur[t]] \in Finished \cup {"READY", "HOLD", "INIT"}

\* stop() returns once it has been called: no thread is left spinning in idle()
\* or waiting for another, and join() ends.
StopReturns == m_autoStop ~> (pc[Root] = "stopped")

\* Whatever is queued when stop() is called, or afterwards, is taken by a
\* thread: the scan that skips pinned and executing entries starves nobody.
QueuedIsTaken == \A f \in Tasks : (m_autoStop /\ Queued(f)) ~> OnThread(f)

(***************************************************************************)
(* The scheduler implements TaskPool.  A task taken from the queue counts   *)
(* as running from swapIn until the run loop has settled its state.         *)
(***************************************************************************)
Executing(f) == \E t \in Procs : cur[t] = f /\ pc[t] \in {"exec", "armed", "switch", "after"}

taskStatus(f) ==
    IF Executing(f) THEN "running"
    ELSE IF Queued(f) \/ OnThread(f) THEN "pending"
    ELSE IF m_state[f] \in Finished THEN "done"
    ELSE IF m_state[f] \in {"NONE", "INIT"} THEN "fresh"
    ELSE "parked"

Pool == INSTANCE TaskPool WITH
    Tasks    <- Tasks,
    Capacity <- Cardinality(Workers) + (IF UseCaller THEN 1 ELSE 0),
    status   <- [f \in Tasks |-> taskStatus(f)],
    stopped  <- (pc[Root] = "stopped")

\* Every step of the scheduler is a step of TaskPool or changes nothing there:
\* no task is run twice, dropped or resumed after stop() returned.
PoolSpec == Pool!PoolSpec
=============================================================================
