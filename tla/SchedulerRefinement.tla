-------------------------- MODULE SchedulerRefinement --------------------------
(***************************************************************************)
(* Scheduler implements TaskPool, for any number of workers, fibers and     *)
(* callbacks: PoolSpec is proved step by step, from the invariants of       *)
(* SchedulerProofs.                                                         *)
(***************************************************************************)
EXTENDS SchedulerProofs

\* Where a thread executes the task it holds, as TaskPool sees it.
RunningPoints == {"exec", "armed", "switch", "after"}

\* The status of each task, by its owner.
StatusByOwner ==
    \A f \in Tasks :
        /\ \A t \in Procs : cur[t] = f =>
              taskStatus(f) = IF pc[t] = "got" THEN "pending" ELSE "running"
        /\ f \in QueuedTasks => taskStatus(f) = "pending"
        /\ f \notin QueuedTasks /\ (\A t \in Procs : cur[t] # f) =>
              taskStatus(f) = IF m_state[f] \in Finished THEN "done"
                              ELSE IF m_state[f] \in {"NONE", "INIT"} THEN "fresh" ELSE "parked"

\* A task has one owner, so its status is what that owner says.
LEMMA StatusIs == TypeInv /\ OwnerInv => StatusByOwner
  <1> SUFFICES ASSUME TypeInv, OwnerInv, NEW f \in Tasks
               PROVE  /\ \A t \in Procs : cur[t] = f =>
                            taskStatus(f) = IF pc[t] = "got" THEN "pending" ELSE "running"
                      /\ f \in QueuedTasks => taskStatus(f) = "pending"
                      /\ f \notin QueuedTasks /\ (\A t \in Procs : cur[t] # f) =>
                            taskStatus(f) = IF m_state[f] \in Finished THEN "done"
                                            ELSE IF m_state[f] \in {"NONE", "INIT"} THEN "fresh"
                                            ELSE "parked"
    BY DEF StatusByOwner
  <1>1. f \in QueuedTasks <=> Queued(f)
    BY DEF QueuedTasks
  <1>2. ASSUME NEW t \in Procs, cur[t] = f
        PROVE  taskStatus(f) = IF pc[t] = "got" THEN "pending" ELSE "running"
    <2>1. f # NoTask
      BY SchedulerAssumption
    <2>2. pc[t] = "got" \/ pc[t] \in RunningPoints
      BY <1>2, <2>1 DEF TypeInv, CurHeld, Holding, RunningPoints
    <2>3. \A u \in Procs : cur[u] = f => u = t
      BY <1>2, <2>1 DEF OwnerInv
    <2>4. Executing(f) <=> pc[t] \in RunningPoints
      BY <1>2, <2>3 DEF Executing, RunningPoints
    <2>5. OnThread(f)
      BY <1>2 DEF OnThread
    <2>6. QED
      BY <2>2, <2>4, <2>5 DEF taskStatus, RunningPoints
  <1>3. ASSUME \A t \in Procs : cur[t] # f
        PROVE  ~Executing(f) /\ ~OnThread(f)
    BY <1>3 DEF Executing, OnThread
  <1>4. ASSUME f \in QueuedTasks PROVE taskStatus(f) = "pending"
    <2>1. \A t \in Procs : cur[t] # f
      BY <1>4 DEF OwnerInv
    <2>2. QED
      BY <1>1, <1>3, <1>4, <2>1 DEF taskStatus
  <1>5. ASSUME f \notin QueuedTasks, \A t \in Procs : cur[t] # f
        PROVE  taskStatus(f) = IF m_state[f] \in Finished THEN "done"
                               ELSE IF m_state[f] \in {"NONE", "INIT"} THEN "fresh" ELSE "parked"
    BY <1>1, <1>3, <1>5 DEF taskStatus
  <1>6. QED
    BY <1>2, <1>4, <1>5

\* The same of the state after a step.
LEMMA StatusIsNext == (TypeInv /\ OwnerInv)' => StatusByOwner'
  BY StatusIs, PTL

\* A task whose owner stays the same, and who stays on the same side of swapIn, or
\* whose state stays the same if it is nobody's, keeps its status.
LEMMA StatusKept ==
  ASSUME StatusByOwner, StatusByOwner', NEW f \in Tasks,
         \A t \in Procs : cur'[t] = f <=> cur[t] = f,
         \A t \in Procs : cur[t] = f => (pc'[t] = "got" <=> pc[t] = "got"),
         f \in QueuedTasks' <=> f \in QueuedTasks,
         m_state'[f] = m_state[f] \/ \E t \in Procs : cur[t] = f
  PROVE  taskStatus(f)' = taskStatus(f)
  <1>1. CASE \E t \in Procs : cur[t] = f
    BY <1>1 DEF StatusByOwner
  <1>2. CASE f \in QueuedTasks
    BY <1>2 DEF StatusByOwner
  <1>3. CASE f \notin QueuedTasks /\ \A t \in Procs : cur[t] # f
    BY <1>3 DEF StatusByOwner
  <1>4. QED
    BY <1>1, <1>2, <1>3

\* The mapped variables, by name.
Status == [f \in Tasks |-> taskStatus(f)]
Stopped == pc[Root] = "stopped"
Threads == Workers \cup (IF UseCaller THEN {Root} ELSE {})

\* Nothing changes for TaskPool.
LEMMA StatusSame ==
  ASSUME \A f \in Tasks : taskStatus(f)' = taskStatus(f)
  PROVE  Status' = Status
  BY DEF Status

\* One task changes its status.
LEMMA StatusOne ==
  ASSUME NEW f \in Tasks, NEW to, taskStatus(f)' = to,
         \A g \in Tasks \ {f} : taskStatus(g)' = taskStatus(g)
  PROVE  Status' = [Status EXCEPT ![f] = to]
  BY DEF Status

\* Cardinality means the same inside TaskPool.
LEMMA PoolCardinality ==
  ASSUME NEW S
  PROVE  Pool!Cardinality(S) = Cardinality(S)
  BY DEF Pool!Cardinality, Cardinality

\* A step of TaskPool, in the mapped variables.
LEMMA MoveStep ==
  ASSUME ~Stopped, Stopped' = Stopped, NEW f \in Tasks, NEW to,
         Status' = [Status EXCEPT ![f] = to],
         \/ Status[f] \in {"fresh", "parked", "done"} /\ to = "pending"
         \/ /\ Status[f] = "pending" /\ to = "running"
            /\ Cardinality({g \in Tasks : Status[g] = "running"})
                 < Cardinality(Workers) + (IF UseCaller THEN 1 ELSE 0)
         \/ Status[f] = "pending" /\ to = "done"
         \/ Status[f] = "running" /\ to \in {"pending", "parked", "done"}
  PROVE  Pool!PoolNext
  <1>1. ASSUME NEW from, Status[f] \in from PROVE Pool!Move(f, from, to)
    BY <1>1 DEF Status, Stopped, Pool!Move
  <1>2. CASE Status[f] \in {"fresh", "parked", "done"} /\ to = "pending"
    <2>1. Pool!Submit(f)
      BY <1>1, <1>2, Zenon DEF Pool!Submit
    <2>2. QED
      BY <2>1 DEF Pool!PoolNext
  <1>3. CASE /\ Status[f] = "pending" /\ to = "running"
             /\ Cardinality({g \in Tasks : Status[g] = "running"})
                  < Cardinality(Workers) + (IF UseCaller THEN 1 ELSE 0)
    <2>1. Pool!Move(f, {"pending"}, "running")
      BY <1>1, <1>3
    <2>2. Pool!Running = {g \in Tasks : Status[g] = "running"}
      BY DEF Pool!Running, Status
    <2>3. Pool!Run(f)
      BY <1>3, <2>1, <2>2, PoolCardinality DEF Pool!Run
    <2>4. QED
      BY <2>3 DEF Pool!PoolNext
  <1>4. CASE Status[f] = "pending" /\ to = "done"
    <2>1. Pool!Discard(f)
      BY <1>1, <1>4 DEF Pool!Discard
    <2>2. QED
      BY <2>1 DEF Pool!PoolNext
  <1>5. CASE Status[f] = "running" /\ to \in {"pending", "parked", "done"}
    <2>1. Pool!Move(f, {"running"}, to)
      BY <1>1, <1>5
    <2>2. Pool!Yield(f) \/ Pool!Park(f) \/ Pool!Finish(f)
      BY <1>5, <2>1 DEF Pool!Yield, Pool!Park, Pool!Finish
    <2>3. QED
      BY <2>2 DEF Pool!PoolNext
  <1>6. QED
    BY <1>2, <1>3, <1>4, <1>5

\* The threads that execute tasks, and how many tasks they execute: one each, so
\* that while one thread is not executing there is room for another task.
LEMMA Room ==
  ASSUME TypeInv, OwnerInv, StatusByOwner, DrainInv, NEW t \in Procs, pc[t] = "got"
  PROVE  Cardinality({g \in Tasks : Status[g] = "running"})
           < Cardinality(Workers) + (IF UseCaller THEN 1 ELSE 0)
  <1> DEFINE R == {g \in Tasks : Status[g] = "running"}
             A == {u \in Procs : pc[u] \in RunningPoints}
             F == [u \in A |-> cur[u]]
  <1>1. IsFiniteSet(Threads)
        /\ Cardinality(Threads) = Cardinality(Workers) + (IF UseCaller THEN 1 ELSE 0)
        /\ Cardinality(Threads) \in Nat
    <2>1. IsFiniteSet(Workers) /\ Root \notin Workers /\ UseCaller \in BOOLEAN
      BY SchedulerAssumption
    <2>2. CASE UseCaller
      <3>1. Threads = Workers \cup {Root}
        BY <2>2 DEF Threads
      <3>2. QED
        BY <2>1, <2>2, <3>1, FS_AddElement, FS_CardinalityType
    <2>3. CASE ~UseCaller
      <3>1. Threads = Workers
        BY <2>3 DEF Threads
      <3>2. QED
        BY <2>1, <2>3, <3>1, FS_CardinalityType
    <2>4. QED
      BY <2>1, <2>2, <2>3
  <1>2. t \in Threads /\ A \in SUBSET (Threads \ {t})
    BY DEF Threads, RunningPoints, DrainInv, RunPoints, Procs
  <1>3. IsFiniteSet(A) /\ Cardinality(A) < Cardinality(Threads) /\ Cardinality(A) \in Nat
    <2>1. IsFiniteSet(Threads \ {t}) /\ Cardinality(Threads \ {t}) = Cardinality(Threads) - 1
      BY <1>1, <1>2, FS_RemoveElement
    <2>2. IsFiniteSet(A) /\ Cardinality(A) <= Cardinality(Threads \ {t})
      BY <1>2, <2>1, FS_Subset
    <2>3. Cardinality(A) \in Nat
      BY <2>2, FS_CardinalityType
    <2>4. QED
      BY <1>1, <2>1, <2>2, <2>3
  <1>4. \A g \in R : \E u \in A : cur[u] = g
    <2> SUFFICES ASSUME NEW g \in R PROVE \E u \in A : cur[u] = g
      OBVIOUS
    <2>1. taskStatus(g) = "running"
      BY DEF Status
    <2>2. PICK u \in Procs : cur[u] = g
      BY <2>1 DEF StatusByOwner, Finished
    <2>3. g # NoTask /\ pc[u] # "got"
      BY <2>1, <2>2, SchedulerAssumption DEF StatusByOwner
    <2>4. pc[u] \in RunningPoints
      BY <2>2, <2>3 DEF TypeInv, CurHeld, Holding, RunningPoints
    <2>5. QED
      BY <2>2, <2>4
  <1>5. \A u \in A : cur[u] \in R
    <2> SUFFICES ASSUME NEW u \in A PROVE cur[u] \in R
      OBVIOUS
    <2>1. cur[u] \in Tasks /\ pc[u] # "got"
      BY DEF TypeInv, TypeOK, CurHeld, Holding, RunningPoints
    <2>2. taskStatus(cur[u]) = "running"
      BY <2>1 DEF StatusByOwner
    <2>3. QED
      BY <2>1, <2>2 DEF Status
  <1>6. F \in Surjection(A, R)
    BY <1>4, <1>5 DEF Surjection
  <1>7. IsFiniteSet(R) /\ Cardinality(R) <= Cardinality(A)
    BY <1>3, <1>6, FS_Surjection
  <1>8. Cardinality(R) \in Nat
    BY <1>7, FS_CardinalityType
  <1>9. QED
    BY <1>1, <1>3, <1>7, <1>8

-----------------------------------------------------------------------------
(***************************************************************************)
(* The steps.                                                               *)
(***************************************************************************)

Mapped == TypeInv /\ OwnerInv /\ DrainInv /\ StatusByOwner

\* schedule() of a task that nobody has: a submission or a wake-up.
LEMMA SubmitRefines ==
  ASSUME Mapped, Mapped', NEW f \in Tasks, NEW thread \in Procs \cup {AnyThread},
         schedule(f, thread), f \notin QueuedTasks, \A t \in Procs : cur[t] # f,
         UNCHANGED <<m_state, pc, cur>>, ~Stopped
  PROVE  Pool!PoolNext
  <1> USE DEF Mapped
  <1>1. QueuedTasks' = QueuedTasks \cup {f}
    BY AppendQueued DEF TypeInv
  <1>2. taskStatus(f)' = "pending"
    BY <1>1 DEF StatusByOwner
  <1>3. \A g \in Tasks \ {f} : taskStatus(g)' = taskStatus(g)
    <2> SUFFICES ASSUME NEW g \in Tasks \ {f} PROVE taskStatus(g)' = taskStatus(g)
      OBVIOUS
    <2>1. g \in QueuedTasks' <=> g \in QueuedTasks
      BY <1>1
    <2>2. QED
      BY <2>1, StatusKept
  <1>4. Status' = [Status EXCEPT ![f] = "pending"]
    BY <1>2, <1>3, StatusOne
  <1>5. Status[f] \in {"fresh", "parked", "done"}
    BY DEF StatusByOwner, Status
  <1>6. Stopped' = Stopped
    BY DEF Stopped
  <1>7. QED
    BY <1>4, <1>5, <1>6, MoveStep

\* A batch of two new tasks.
LEMMA BatchRefines ==
  ASSUME Mapped, Mapped', ClientScheduleBatch
  PROVE  Pool!PoolNext
  <1> USE DEF Mapped
  <1>1. PICK f \in Tasks, g \in Tasks : f # g /\ Fresh(f) /\ Fresh(g) /\ scheduleBatch(f, g)
    BY DEF ClientScheduleBatch
  <1>2. UNCHANGED <<m_state, pc, cur>> /\ ~Stopped /\ Stopped' = Stopped
    BY DEF ClientScheduleBatch, fiberVars, threadVars, OwnerSubmits, Stopped
  <1>3. QueuedTasks' = QueuedTasks \cup {f, g}
    BY <1>1, BatchQueued DEF TypeInv
  <1>4. taskStatus(f)' = "pending" /\ taskStatus(g)' = "pending"
    BY <1>3 DEF StatusByOwner
  <1>5. \A h \in Tasks \ {f, g} : taskStatus(h)' = taskStatus(h)
    <2> SUFFICES ASSUME NEW h \in Tasks \ {f, g} PROVE taskStatus(h)' = taskStatus(h)
      OBVIOUS
    <2>1. h \in QueuedTasks' <=> h \in QueuedTasks
      BY <1>3
    <2>2. QED
      BY <1>2, <2>1, StatusKept
  <1>6. taskStatus(f) = "fresh" /\ taskStatus(g) = "fresh"
    BY <1>1 DEF Fresh, OnThread, QueuedTasks, StatusByOwner, Finished
  <1>7. Status' = [Status EXCEPT ![f] = "pending", ![g] = "pending"]
    BY <1>1, <1>4, <1>5 DEF Status
  <1>8. Pool!SubmitTwo(f, g)
    BY <1>1, <1>2, <1>6, <1>7 DEF Pool!SubmitTwo, Status, Stopped
  <1>9. QED
    BY <1>8 DEF Pool!PoolNext

\* Steps that leave every task with its owner.
LEMMA StutterRefines ==
  ASSUME Mapped, Mapped', UNCHANGED <<m_fibers, cur>>,
         \A t \in Procs : cur[t] # NoTask => (pc'[t] = "got" <=> pc[t] = "got"),
         \A f \in Tasks : m_state'[f] = m_state[f] \/ \E t \in Procs : cur[t] = f
  PROVE  Status' = Status
  <1> USE DEF Mapped
  <1>1. QueuedTasks' = QueuedTasks
    BY DEF QueuedTasks, Queued
  <1>2. ASSUME NEW f \in Tasks PROVE taskStatus(f)' = taskStatus(f)
    <2>1. f # NoTask
      BY SchedulerAssumption
    <2>2. QED
      BY <1>1, <2>1, StatusKept
  <1>3. QED
    BY <1>2, StatusSame

\* Pick: a queued task is on a thread, and still pending.
LEMMA PickRefines ==
  ASSUME Mapped, Mapped', NEW t \in Procs, Pick(t)
  PROVE  Status' = Status
  <1> USE DEF Mapped
  <1>1. PICK i \in 1..Len(m_fibers) :
          /\ cur' = [cur EXCEPT ![t] = m_fibers[i].task]
          /\ m_fibers' = RemoveAt(m_fibers, i)
    BY DEF Pick
  <1>2. PICK f \in Tasks : f = m_fibers[i].task
    BY EntryTasks DEF TypeInv
  <1>3. QueuedTasks' = QueuedTasks \ {f} /\ f \in QueuedTasks
    BY <1>1, <1>2, RemoveQueued DEF TypeInv, OwnerInv
  <1>4. cur[t] = NoTask
    BY DEF Pick, TypeInv, CurHeld, Holding
  <1>5. /\ cur'[t] = f /\ pc'[t] = "got" /\ m_state' = m_state
        /\ \A u \in Procs \ {t} : cur'[u] = cur[u] /\ pc'[u] = pc[u]
    BY <1>1, <1>2 DEF Pick, fiberVars, TypeInv, TypeOK
  <1>6. taskStatus(f) = "pending" /\ taskStatus(f)' = "pending"
    BY <1>2, <1>3, <1>5 DEF StatusByOwner
  <1>7. ASSUME NEW g \in Tasks, g # f PROVE taskStatus(g)' = taskStatus(g)
    <2>1. g # NoTask
      BY SchedulerAssumption
    <2>2. g \in QueuedTasks' <=> g \in QueuedTasks
      BY <1>3, <1>7
    <2>3. \A u \in Procs : cur'[u] = g <=> cur[u] = g
      BY <1>4, <1>5, <1>7, <2>1
    <2>4. \A u \in Procs : cur[u] = g => (pc'[u] = "got" <=> pc[u] = "got")
      BY <1>4, <1>5, <2>1
    <2>5. QED
      BY <1>5, <2>2, <2>3, <2>4, StatusKept
  <1>8. QED
    BY <1>2, <1>6, <1>7, StatusSame

\* A step of thread t that lets go of its task, or switches to it, moves only
\* that task.
LEMMA OthersKept ==
  ASSUME Mapped, Mapped', NEW t \in Procs, cur[t] \in Tasks,
         \A u \in Procs \ {t} : cur'[u] = cur[u] /\ pc'[u] = pc[u],
         cur'[t] \in {cur[t], NoTask},
         NEW g \in Tasks, g # cur[t], m_state'[g] = m_state[g],
         g \in QueuedTasks' <=> g \in QueuedTasks
  PROVE  taskStatus(g)' = taskStatus(g)
  <1> USE DEF Mapped
  <1>1. g # NoTask
    BY SchedulerAssumption
  <1>2. \A u \in Procs : cur'[u] = g <=> cur[u] = g
    BY <1>1
  <1>3. \A u \in Procs : cur[u] = g => (pc'[u] = "got" <=> pc[u] = "got")
    BY <1>1
  <1>4. QED
    BY <1>2, <1>3, StatusKept

\* A step that takes the task f off thread t, or switches to it, is a step of
\* TaskPool's when the task's status changes as TaskPool says.
LEMMA TaskRefines ==
  ASSUME Mapped, Mapped', NEW t \in Procs, NEW f \in Tasks, cur[t] = f,
         pc' = [pc EXCEPT ![t] = pc'[t]], pc'[t] # "stopped", pc[t] \in Holding,
         \A u \in Procs \ {t} : cur'[u] = cur[u], cur'[t] \in {f, NoTask},
         \A g \in Tasks \ {f} : m_state'[g] = m_state[g],
         \A g \in Tasks \ {f} : g \in QueuedTasks' <=> g \in QueuedTasks,
         \/ pc[t] = "got" /\ taskStatus(f)' \in {"running", "done"}
         \/ pc[t] # "got" /\ taskStatus(f)' \in {"pending", "parked", "done"}
  PROVE  Pool!PoolNext
  <1> USE DEF Mapped
  <1>1. \A u \in Procs \ {t} : pc'[u] = pc[u]
    BY DEF TypeInv, TypeOK
  <1>2. \A g \in Tasks \ {f} : taskStatus(g)' = taskStatus(g)
    BY <1>1, OthersKept
  <1>3. PICK to : to = taskStatus(f)'
    OBVIOUS
  <1>4. Status' = [Status EXCEPT ![f] = to]
    BY <1>2, <1>3, StatusOne
  <1>5. Status[f] = IF pc[t] = "got" THEN "pending" ELSE "running"
    BY DEF StatusByOwner, Status
  <1>6. ~Stopped /\ Stopped' = Stopped
    <2>1. pc[Root] # "stopped"
      BY DEF Holding, DrainInv, Procs
    <2>2. pc'[Root] # "stopped"
      BY <1>1, <2>1 DEF Procs
    <2>3. QED
      BY <2>1, <2>2 DEF Stopped
  <1>7. CASE pc[t] = "got" /\ to = "running"
    <2>1. Cardinality({g \in Tasks : Status[g] = "running"})
            < Cardinality(Workers) + (IF UseCaller THEN 1 ELSE 0)
      BY <1>7, Room
    <2>2. QED
      BY <1>4, <1>5, <1>6, <1>7, <2>1, MoveStep
  <1>8. CASE pc[t] = "got" /\ to = "done"
    BY <1>4, <1>5, <1>6, <1>8, MoveStep
  <1>9. CASE pc[t] # "got" /\ to \in {"pending", "parked", "done"}
    BY <1>4, <1>5, <1>6, <1>9, MoveStep
  <1>10. QED
    BY <1>3, <1>7, <1>8, <1>9

\* Scheduler::run: what a thread does is invisible to TaskPool or a step of its.
LEMMA RunRefines ==
  ASSUME ~EarlyWake, Mapped, Mapped', NEW t \in Procs, run(t)
  PROVE  Pool!PoolNext \/ (Status' = Status /\ Stopped' = Stopped)
  <1> USE DEF Mapped
  <1>0. /\ pc \in [Procs -> WorkerPoints \cup RootPoints]
        /\ cur \in [Procs -> Tasks \cup {NoTask}]
        /\ m_state \in [Tasks -> States]
        /\ \A u \in Procs : pc[u] \in Holding => cur[u] \in Tasks
        /\ \A u \in Procs : pc[u] \notin Holding => cur[u] = NoTask
    BY DEF TypeInv, TypeOK, CurHeld
  <1>1. pc[t] \in RunPoints /\ ~Stopped
    <2>1. pc[t] \in RunPoints
      BY DEF run, Pick, DropFinished, SwapIn, SwapBack, Settle, EnterIdle, LeaveIdle, Exit,
         TaskSchedule, TaskWake, Arm, YieldToHold, YieldToReady, MainFunc, RunPoints
    <2>2. QED
      BY <2>1 DEF Stopped, DrainInv, RunPoints, Procs
  <1>2. Stopped' = Stopped
    <2>1. \A u \in Procs \ {t} : pc'[u] = pc[u]
      BY <1>0 DEF run, Pick, DropFinished, SwapIn, SwapBack, Settle, EnterIdle, LeaveIdle, Exit,
         TaskSchedule, TaskWake, Arm, YieldToHold, YieldToReady, MainFunc, threadVars
    <2>2. pc'[t] # "stopped"
      BY <1>0, <1>1 DEF run, Pick, DropFinished, SwapIn, SwapBack, Settle, EnterIdle, LeaveIdle, Exit,
         TaskSchedule, TaskWake, Arm, YieldToHold, YieldToReady, MainFunc, threadVars, RunPoints
    <2>3. QED
      BY <1>1, <2>1, <2>2 DEF Stopped, Procs
  <1>3. CASE Pick(t)
    BY <1>2, <1>3, PickRefines
  <1>4. CASE DropFinished(t)
    <2>1. PICK f \in Tasks : f = cur[t]
      BY <1>0, <1>4 DEF DropFinished, Holding
    <2>2. /\ pc[t] = "got" /\ m_state[f] \in Finished
          /\ cur' = [cur EXCEPT ![t] = NoTask] /\ pc' = [pc EXCEPT ![t] = "loop"]
          /\ m_state' = m_state /\ m_fibers' = m_fibers
      BY <1>4, <2>1 DEF DropFinished, fiberVars
    <2>3. /\ pc'[t] = "loop" /\ cur'[t] = NoTask
          /\ \A u \in Procs \ {t} : cur'[u] = cur[u]
      BY <1>0, <2>2
    <2>4. QueuedTasks' = QueuedTasks
      BY <2>2 DEF QueuedTasks, Queued
    <2>5. f # NoTask /\ f \notin QueuedTasks' /\ \A u \in Procs : cur'[u] # f
      BY <2>1, <2>3, <2>4, SchedulerAssumption DEF OwnerInv
    <2>6. taskStatus(f)' = "done"
      BY <2>2, <2>5 DEF StatusByOwner
    <2>7. QED
      BY <2>1, <2>2, <2>3, <2>4, <2>6, TaskRefines DEF Holding
  <1>5. CASE SwapIn(t)
    <2>1. PICK f \in Tasks : f = cur[t]
      BY <1>0, <1>5 DEF SwapIn, Holding
    <2>2. /\ pc[t] = "got" /\ cur' = cur /\ pc' = [pc EXCEPT ![t] = "exec"]
          /\ m_state' = [m_state EXCEPT ![f] = "EXEC"] /\ m_fibers' = m_fibers
      BY <1>5, <2>1 DEF SwapIn
    <2>3. pc'[t] = "exec" /\ \A g \in Tasks \ {f} : m_state'[g] = m_state[g]
      BY <1>0, <2>2
    <2>4. QueuedTasks' = QueuedTasks
      BY <2>2 DEF QueuedTasks, Queued
    <2>5. taskStatus(f)' = "running"
      BY <2>1, <2>2, <2>3 DEF StatusByOwner
    <2>6. QED
      BY <2>1, <2>2, <2>3, <2>4, <2>5, TaskRefines DEF Holding
  <1>6. CASE Settle(t)
    <2>1. PICK f \in Tasks : f = cur[t]
      BY <1>0, <1>6 DEF Settle, Holding
    <2>2. /\ pc[t] = "after" /\ cur' = [cur EXCEPT ![t] = NoTask]
          /\ pc' = [pc EXCEPT ![t] = "loop"]
      BY <1>6 DEF Settle
    <2>3. /\ pc'[t] = "loop" /\ cur'[t] = NoTask
          /\ \A u \in Procs \ {t} : cur'[u] = cur[u]
      BY <1>0, <2>2
    <2>4. f # NoTask /\ f \notin QueuedTasks /\ \A u \in Procs : cur'[u] # f
      BY <2>1, <2>3, SchedulerAssumption DEF OwnerInv
    <2>5. CASE m_state[f] = "READY"
      <3>1. schedule(f, AnyThread) /\ m_state' = m_state
        BY <1>6, <2>1, <2>5 DEF Settle
      <3>2. QueuedTasks' = QueuedTasks \cup {f}
        BY <3>1, AppendQueued DEF TypeInv
      <3>3. taskStatus(f)' = "pending"
        BY <3>2 DEF StatusByOwner
      <3>4. \A g \in Tasks \ {f} : g \in QueuedTasks' <=> g \in QueuedTasks
        BY <3>2
      <3>5. QED
        BY <2>1, <2>2, <2>3, <3>1, <3>3, <3>4, TaskRefines DEF Holding
    <2>6. CASE m_state[f] # "READY"
      <3>1. /\ m_fibers' = m_fibers
            /\ m_state' = IF m_state[f] \in Finished THEN m_state ELSE [m_state EXCEPT ![f] = "HOLD"]
        BY <1>6, <2>1, <2>6 DEF Settle
      <3>2. QueuedTasks' = QueuedTasks
        BY <3>1 DEF QueuedTasks, Queued
      <3>3. m_state'[f] \in Finished \cup {"HOLD"} /\ \A g \in Tasks \ {f} : m_state'[g] = m_state[g]
        BY <1>0, <3>1
      <3>4. taskStatus(f)' \in {"done", "parked"}
        BY <2>4, <3>2, <3>3 DEF StatusByOwner, Finished
      <3>5. QED
        BY <2>1, <2>2, <2>3, <3>2, <3>3, <3>4, TaskRefines DEF Holding
    <2>7. QED
      BY <2>5, <2>6
  <1>7. CASE \/ SwapBack(t) \/ Arm(t) \/ YieldToHold(t) \/ YieldToReady(t) \/ MainFunc(t)
             \/ EnterIdle(t) \/ LeaveIdle(t) \/ Exit(t)
    <2>1. UNCHANGED <<m_fibers, cur>>
      BY <1>7 DEF SwapBack, Arm, YieldToHold, YieldToReady, MainFunc, EnterIdle, LeaveIdle, Exit
    <2>2. \A u \in Procs : pc'[u] = "got" <=> pc[u] = "got"
      BY <1>0, <1>7
      DEF SwapBack, Arm, YieldToHold, YieldToReady, MainFunc, EnterIdle, LeaveIdle, Exit
    <2>3. \A f \in Tasks : m_state'[f] = m_state[f] \/ cur[t] = f
      BY <1>0, <1>7
      DEF SwapBack, Arm, YieldToHold, YieldToReady, MainFunc, EnterIdle, LeaveIdle, Exit, fiberVars
    <2>4. Status' = Status
      BY <2>1, <2>2, <2>3, StutterRefines
    <2>5. QED
      BY <1>2, <2>4
  <1>8. CASE TaskSchedule(t)
    <2>1. PICK f \in Tasks, thread \in PinTargets : Fresh(f) /\ schedule(f, thread)
      BY <1>8 DEF TaskSchedule
    <2>2. UNCHANGED <<m_state, pc, cur>>
      BY <1>8 DEF TaskSchedule, fiberVars, threadVars
    <2>3. f \notin QueuedTasks /\ \A u \in Procs : cur[u] # f
      BY <2>1, GuardFacts
    <2>4. QED
      BY <1>1, <2>1, <2>2, <2>3, SubmitRefines, PinTargetsKnown
  <1>9. CASE TaskWake(t)
    <2>1. PICK f \in Tasks : Wakeable(f) /\ wake(f)
      BY <1>9 DEF TaskWake
    <2>2. UNCHANGED <<m_state, pc, cur>> /\ schedule(f, AnyThread)
      BY <1>9, <2>1 DEF TaskWake, threadVars, wake
    <2>3. f \notin QueuedTasks /\ \A u \in Procs : cur[u] # f
      BY <2>1, GuardFacts DEF OwnerInv
    <2>4. QED
      BY <1>1, <2>1, <2>2, <2>3, SubmitRefines
  <1>10. QED
    BY <1>3, <1>4, <1>5, <1>6, <1>7, <1>8, <1>9 DEF run

\* The owner thread: it submits, wakes, starts; and when stop() returns, nothing
\* is waiting or running.
LEMMA OwnerRefines ==
  ASSUME ~EarlyWake, Mapped, Mapped', Client \/ stop
  PROVE  Pool!PoolNext \/ (Status' = Status /\ Stopped' = Stopped)
  <1> USE DEF Mapped
  <1>0. /\ pc \in [Procs -> WorkerPoints \cup RootPoints] /\ Root \in Procs /\ Root \notin Workers
        /\ \A u \in Procs : pc[u] \notin Holding => cur[u] = NoTask
    BY SchedulerAssumption DEF TypeInv, TypeOK, CurHeld, Procs
  <1>1. CASE ClientSchedule
    <2>1. PICK f \in Tasks, thread \in KnownThreads : (Fresh(f) \/ Stale(f)) /\ schedule(f, thread)
      BY <1>1 DEF ClientSchedule
    <2>2. UNCHANGED <<m_state, pc, cur>> /\ ~Stopped
      BY <1>1 DEF ClientSchedule, fiberVars, threadVars, OwnerSubmits, Stopped
    <2>3. f \notin QueuedTasks /\ \A u \in Procs : cur[u] # f
      BY <2>1, GuardFacts
    <2>4. thread \in Procs \cup {AnyThread}
      BY DEF KnownThreads, Procs
    <2>5. QED
      BY <2>1, <2>2, <2>3, <2>4, SubmitRefines
  <1>2. CASE ClientScheduleBatch
    BY <1>2, BatchRefines
  <1>3. CASE ClientWake
    <2>1. PICK f \in Tasks : Wakeable(f) /\ wake(f)
      BY <1>3 DEF ClientWake
    <2>2. UNCHANGED <<m_state, pc, cur>> /\ schedule(f, AnyThread) /\ ~Stopped
      BY <1>3, <2>1 DEF ClientWake, threadVars, wake, OwnerSubmits, Stopped
    <2>3. f \notin QueuedTasks /\ \A u \in Procs : cur[u] # f
      BY <2>1, GuardFacts DEF OwnerInv
    <2>4. QED
      BY <2>1, <2>2, <2>3, SubmitRefines
  <1>4. CASE start \/ StopBegin \/ stop
    <2>1. UNCHANGED <<m_fibers, m_state, cur>>
      BY <1>4 DEF start, StopBegin, stop, StopEarly, StopSet, StopCheck, Join, fiberVars
    <2>2. \A u \in Procs : cur[u] # NoTask => (pc'[u] = "got" <=> pc[u] = "got")
      <3>1. CASE start
        <4>1. \A u \in Workers : pc[u] = "unborn"
          BY <3>1 DEF start, TypeInv, BornTogether
        <4>2. QED
          BY <1>0, <3>1, <4>1 DEF start, Holding, Procs
      <3>2. CASE StopBegin \/ stop
        BY <1>0, <3>2 DEF StopBegin, stop, StopEarly, StopSet, StopCheck, Join
      <3>3. QED
        BY <1>4, <3>1, <3>2
    <2>3. Status' = Status
      BY <2>1, <2>2, StutterRefines
    <2>4. ~Stopped
      BY <1>4 DEF start, StopBegin, stop, StopEarly, StopSet, StopCheck, Join, Stopped
    <2>5. CASE Stopped'
      <3>1. pc'[Root] = "stopped"
        BY <2>5 DEF Stopped
      <3>2. m_fibers' = <<>> /\ \A u \in Procs : cur'[u] = NoTask
        <4>1. (TypeInv /\ DrainInv => DrainedOnStop)'
          BY DrainImplies, PTL
        <4>2. QED
          BY <3>1, <4>1 DEF DrainedOnStop
      <3>3. ASSUME NEW f \in Tasks PROVE taskStatus(f)' \notin {"pending", "running"}
        <4>1. f # NoTask /\ f \notin QueuedTasks'
          BY <3>2, SchedulerAssumption DEF QueuedTasks, Queued
        <4>2. QED
          BY <3>2, <4>1 DEF StatusByOwner
      <3>4. \A f \in Tasks : Status[f] \notin {"pending", "running"}
        BY <2>3, <3>3 DEF Status
      <3>5. Pool!Stop
        BY <2>3, <3>1, <3>4 DEF Pool!Stop, Status
      <3>6. QED
        BY <3>5 DEF Pool!PoolNext
    <2>6. CASE ~Stopped'
      <3>1. Stopped' = Stopped
        BY <2>4, <2>6 DEF Stopped
      <3>2. QED
        BY <2>3, <3>1
    <2>7. QED
      BY <2>5, <2>6
  <1>5. QED
    BY <1>1, <1>2, <1>3, <1>4 DEF Client

\* Every step of the scheduler, as TaskPool sees it.
LEMMA StepRefines ==
  ASSUME ~EarlyWake, Mapped, Mapped', [Next]_vars
  PROVE  [Pool!PoolNext]_(Pool!poolVars)
  <1>1. ASSUME Status' = Status, Stopped' = Stopped
        PROVE  UNCHANGED Pool!poolVars
    BY <1>1 DEF Status, Stopped, Pool!poolVars
  <1>2. CASE UNCHANGED vars
    <2>1. UNCHANGED <<m_fibers, m_state, pc, cur>>
      BY <1>2 DEF vars, fiberVars, threadVars
    <2>2. Status' = Status
      BY <2>1, StutterRefines
    <2>3. Stopped' = Stopped
      BY <2>1 DEF Stopped
    <2>4. QED
      BY <1>1, <2>2, <2>3
  <1>3. CASE Client \/ stop
    BY <1>1, <1>3, OwnerRefines
  <1>4. ASSUME NEW t \in Procs, run(t) PROVE [Pool!PoolNext]_(Pool!poolVars)
    BY <1>1, <1>4, RunRefines
  <1>5. QED
    BY <1>2, <1>3, <1>4 DEF Next, Terminated

\* Before anything is submitted every task is fresh.
LEMMA InitRefines == Init => Pool!PoolInit
  <1> SUFFICES ASSUME Init PROVE Pool!PoolInit
    OBVIOUS
  <1>1. StatusByOwner /\ QueuedTasks = {} /\ pc[Root] # "stopped"
    <2>1. TypeInv /\ OwnerInv
      BY TypeInit, OwnerInit
    <2>2. QueuedTasks = {} /\ pc[Root] # "stopped"
      BY DEF Init, QueuedTasks, Queued, Procs
    <2>3. QED
      BY <2>1, <2>2, StatusIs
  <1>2. ASSUME NEW f \in Tasks PROVE taskStatus(f) = "fresh"
    <2>1. m_state[f] \in {"NONE", "INIT"} /\ \A t \in Procs : cur[t] # f
      BY SchedulerAssumption DEF Init
    <2>2. QED
      BY <1>1, <2>1 DEF StatusByOwner, Finished
  <1>3. QED
    BY <1>1, <1>2 DEF Pool!PoolInit

(***************************************************************************)
(* The scheduler implements TaskPool when wakers wait until run() has let   *)
(* go of a fiber and tasks pin work only to threads that are in run(): a    *)
(* submitted task runs on one thread at a time, never more tasks run than   *)
(* there are threads, what yields or is woken runs again, nothing is        *)
(* dropped, and stop() returns only when nothing is left to run.            *)
(***************************************************************************)
THEOREM SchedulerImplementsPool ==
  ASSUME ~EarlyWake, ~LatePins
  PROVE  Spec => PoolSpec
  <1>1. Init => Pool!PoolInit
    BY InitRefines
  <1>2. TypeInv /\ OwnerInv /\ DrainInv => Mapped
    BY StatusIs DEF Mapped
  <1>3. Mapped /\ Mapped' /\ [Next]_vars => [Pool!PoolNext]_(Pool!poolVars)
    BY StepRefines
  <1>4. Spec => []Mapped
    BY <1>2, DrainAlways, PTL
  <1>5. Spec => Init /\ [][Next]_vars
    BY DEF Spec
  <1>6. Pool!PoolInit /\ [][Pool!PoolNext]_(Pool!poolVars) => PoolSpec
    BY DEF PoolSpec, Pool!PoolSpec
  <1>7. QED
    BY <1>1, <1>3, <1>4, <1>5, <1>6, PTL
===============================================================================
