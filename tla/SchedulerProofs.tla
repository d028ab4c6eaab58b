--------------------------- MODULE SchedulerProofs ---------------------------
(***************************************************************************)
(* Proofs about Scheduler, for any number of workers, fibers and callbacks, *)
(* with and without use_caller.                                             *)
(***************************************************************************)
EXTENDS Scheduler, FiniteSetTheorems, SequenceTheorems, TLAPS

\* Procs is finite, so the threads at a program point can be counted.
LEMMA ProcsFinite == IsFiniteSet(Procs)
  <1>1. IsFiniteSet(Workers)
    BY SchedulerAssumption
  <1>2. QED
    BY <1>1, FS_AddElement DEF Procs

\* Erasing entry i of the queue: the entries before it stay, those after it
\* move up by one.
LEMMA RemoveAtEntries ==
  ASSUME NEW S, NEW q \in Seq(S), NEW i \in 1..Len(q)
  PROVE  /\ RemoveAt(q, i) \in Seq(S)
         /\ Len(RemoveAt(q, i)) = Len(q) - 1
         /\ \A j \in 1..(Len(q) - 1) :
               RemoveAt(q, i)[j] = IF j < i THEN q[j] ELSE q[j + 1]
  <1> DEFINE a == SubSeq(q, 1, i - 1)
             b == SubSeq(q, i + 1, Len(q))
  <1>1. /\ a \in Seq(S) /\ Len(a) = i - 1
        /\ \A j \in 1..(i - 1) : a[j] = q[j]
    BY SMT
  <1>2. /\ b \in Seq(S) /\ Len(b) = Len(q) - i
        /\ \A j \in 1..(Len(q) - i) : b[j] = q[i + j]
    BY SMT
  <1>3. RemoveAt(q, i) = a \o b
    BY DEF RemoveAt
  <1> HIDE DEF a, b
  <1>4. /\ a \o b \in Seq(S)
        /\ Len(a \o b) = Len(a) + Len(b)
        /\ \A j \in 1..(Len(a) + Len(b)) :
              (a \o b)[j] = IF j <= Len(a) THEN a[j] ELSE b[j - Len(a)]
    BY <1>1, <1>2, ConcatProperties
  <1>5. Len(a) + Len(b) = Len(q) - 1
    BY <1>1, <1>2
  <1>6. ASSUME NEW j \in 1..(Len(q) - 1)
        PROVE  (a \o b)[j] = IF j < i THEN q[j] ELSE q[j + 1]
    <2>1. CASE j < i
      BY <1>1, <1>4, <1>5, <2>1
    <2>2. CASE ~(j < i)
      <3>1. j - (i - 1) \in 1..(Len(q) - i) /\ i + (j - (i - 1)) = j + 1
        BY <2>2
      <3>2. (a \o b)[j] = b[j - (i - 1)]
        BY <1>1, <1>4, <1>5, <2>2
      <3>3. QED
        BY <1>2, <2>2, <3>1, <3>2
    <2>3. QED
      BY <2>1, <2>2
  <1>7. QED
    BY <1>3, <1>4, <1>5, <1>6

\* The threads at one of the program points in A.
At(p, A) == {u \in Procs : p[u] \in A}

\* The number of threads at the points in A, when thread t moves from one point
\* to another: it moves into A, out of A, or neither.
LEMMA CountMove ==
  ASSUME NEW X, NEW p \in [Procs -> X], NEW A, NEW t \in Procs, NEW v
  PROVE  /\ Cardinality(At(p, A)) \in Nat
         /\ p[t] \notin A /\ v \in A =>
               Cardinality(At([p EXCEPT ![t] = v], A)) = Cardinality(At(p, A)) + 1
         /\ p[t] \in A /\ v \notin A =>
               /\ Cardinality(At(p, A)) > 0
               /\ Cardinality(At([p EXCEPT ![t] = v], A)) = Cardinality(At(p, A)) - 1
         /\ (p[t] \in A <=> v \in A) => At([p EXCEPT ![t] = v], A) = At(p, A)
  <1> DEFINE before == At(p, A)
             after  == At([p EXCEPT ![t] = v], A)
  <1>1. IsFiniteSet(before)
    BY ProcsFinite, FS_Subset DEF At
  <1>2. Cardinality(before) \in Nat
    BY <1>1, FS_CardinalityType
  <1>3. ASSUME p[t] \notin A, v \in A
        PROVE  Cardinality(after) = Cardinality(before) + 1
    <2>1. after = before \cup {t} /\ t \notin before
      BY <1>3 DEF At
    <2>2. QED
      BY <1>1, <2>1, FS_AddElement
  <1>4. ASSUME p[t] \in A, v \notin A
        PROVE  Cardinality(before) > 0 /\ Cardinality(after) = Cardinality(before) - 1
    <2>1. after = before \ {t} /\ t \in before
      BY <1>4 DEF At
    <2>2. Cardinality(after) = Cardinality(before) - 1
      BY <1>1, <2>1, FS_RemoveElement
    <2>3. Cardinality(after) \in Nat
      BY <1>1, <2>1, FS_RemoveElement, FS_CardinalityType
    <2>4. QED
      BY <1>2, <2>2, <2>3
  <1>5. ASSUME p[t] \in A <=> v \in A
        PROVE  after = before
    BY <1>5 DEF At
  <1>6. QED
    BY <1>2, <1>3, <1>4, <1>5

-----------------------------------------------------------------------------
(***************************************************************************)
(* Types and counters.                                                      *)
(***************************************************************************)

Holding == {"got", "exec", "armed", "switch", "after"}

\* A thread has a task exactly between taking an entry and settling it.
CurHeld == \A t \in Procs : cur[t] # NoTask <=> pc[t] \in Holding

\* The workers are born together, by start().
BornTogether == \A t \in Workers : pc[t] = "unborn" <=> pc[Root] = "new"

IdleCountExact == m_idleThreadCount = Cardinality(At(pc, {"idle"}))

TypeInv ==
    TypeOK /\ CurHeld /\ BornTogether /\ ActiveCountExact /\ IdleCountExact

\* A thread that moves to point v, adjusting the counters by whether it enters
\* or leaves the counted points, keeps both counters exact and non-negative.
LEMMA MoveCounts ==
  ASSUME TypeOK, ActiveCountExact, IdleCountExact,
         NEW t \in Procs, NEW v, pc' = [pc EXCEPT ![t] = v],
         \/ /\ pc[t] \notin ActivePoints /\ v \in ActivePoints
            /\ m_activeThreadCount' = m_activeThreadCount + 1
         \/ /\ pc[t] \in ActivePoints /\ v \notin ActivePoints
            /\ m_activeThreadCount' = m_activeThreadCount - 1
         \/ /\ pc[t] \in ActivePoints <=> v \in ActivePoints
            /\ m_activeThreadCount' = m_activeThreadCount,
         \/ /\ pc[t] # "idle" /\ v = "idle"
            /\ m_idleThreadCount' = m_idleThreadCount + 1
         \/ /\ pc[t] = "idle" /\ v # "idle"
            /\ m_idleThreadCount' = m_idleThreadCount - 1
         \/ /\ pc[t] = "idle" <=> v = "idle"
            /\ m_idleThreadCount' = m_idleThreadCount
  PROVE  /\ ActiveCountExact' /\ IdleCountExact'
         /\ m_activeThreadCount' \in Nat /\ m_idleThreadCount' \in Nat
  <1>1. pc \in [Procs -> WorkerPoints \cup RootPoints]
    BY DEF TypeOK
  <1>2. m_activeThreadCount = Cardinality(At(pc, ActivePoints))
    BY DEF ActiveCountExact, At
  <1> DEFINE Counted(A) ==
        /\ Cardinality(At(pc, A)) \in Nat
        /\ pc[t] \notin A /\ v \in A =>
               Cardinality(At(pc', A)) = Cardinality(At(pc, A)) + 1
        /\ pc[t] \in A /\ v \notin A =>
               /\ Cardinality(At(pc, A)) > 0
               /\ Cardinality(At(pc', A)) = Cardinality(At(pc, A)) - 1
        /\ (pc[t] \in A <=> v \in A) => At(pc', A) = At(pc, A)
  <1>3. Counted(ActivePoints) /\ Counted({"idle"})
    BY <1>1, CountMove, ZenonT(60)
  <1>4. /\ m_activeThreadCount' = Cardinality(At(pc', ActivePoints))
        /\ m_activeThreadCount' \in Nat
    BY <1>2, <1>3
  <1>5. m_idleThreadCount' = Cardinality(At(pc', {"idle"})) /\ m_idleThreadCount' \in Nat
    BY <1>3 DEF IdleCountExact
  <1>6. QED
    BY <1>4, <1>5 DEF ActiveCountExact, IdleCountExact, At

\* What can be read from the queue, and what schedule() puts there.
LEMMA EntryTasks ==
  ASSUME TypeOK, NEW i \in 1..Len(m_fibers)
  PROVE  m_fibers[i].task \in Tasks /\ m_fibers[i].thread \in Procs \cup {AnyThread}
  <1>1. m_fibers[i] \in Entry
    BY DEF TypeOK
  <1>2. QED
    BY <1>1 DEF Entry

\* Appending a well-formed entry keeps the queue well-formed.
LEMMA AppendEntry ==
  ASSUME TypeOK, NEW f \in Tasks, NEW thread \in Procs \cup {AnyThread}
  PROVE  Append(m_fibers, [task |-> f, thread |-> thread]) \in Seq(Entry)
  <1>1. [task |-> f, thread |-> thread] \in Entry
    BY DEF Entry
  <1>2. QED
    BY <1>1 DEF TypeOK

\* What a task may pin work to: nothing, or one of the threads.
LEMMA PinTargetsKnown ==
  ASSUME NEW thread \in PinTargets
  PROVE  /\ thread \in Procs \cup {AnyThread}
         /\ ~LatePins => thread = AnyThread \/ (thread \in Procs /\ Live(thread))
  BY DEF PinTargets, KnownThreads, Procs

\* The state the constructor leaves behind satisfies TypeInv.
LEMMA TypeInit == Init => TypeInv
  <1> SUFFICES ASSUME Init PROVE TypeInv
    OBVIOUS
  <1>1. m_fibers \in Seq(Entry) /\ yields \in 0..MaxYields
    BY SchedulerAssumption DEF Init
  <1>2. pc \in [Procs -> WorkerPoints \cup RootPoints]
        /\ \A t \in Procs : pc[t] \in IF t = Root THEN RootPoints ELSE WorkerPoints
    BY DEF Init, WorkerPoints, RootPoints
  <1>3. TypeOK
    BY <1>1, <1>2 DEF Init, TypeOK, States
  <1>4. CurHeld /\ BornTogether
    BY SchedulerAssumption DEF Init, CurHeld, Holding, BornTogether, Procs
  <1>5. At(pc, ActivePoints) = {} /\ At(pc, {"idle"}) = {}
    BY DEF Init, ActivePoints, At
  <1>6. QED
    BY <1>3, <1>4, <1>5, FS_EmptySet
    DEF Init, TypeInv, ActiveCountExact, IdleCountExact, At
\* Every action keeps the types, the counters and the thread/task pairing.  The
\* threads move one at a time, except in start().
LEMMA TypeNext == TypeInv /\ [Next]_vars => TypeInv'
  <1> SUFFICES ASSUME TypeInv, [Next]_vars PROVE TypeInv'
    OBVIOUS
  <1> USE DEF TypeInv
  <1>1. CASE UNCHANGED vars
    BY <1>1 DEF vars, threadVars, countVars, flagVars, fiberVars, TypeOK, CurHeld,
                BornTogether, ActiveCountExact, IdleCountExact, At, Queued, OnThread
  <1>2. CASE ClientSchedule
    <2>1. m_fibers' \in Seq(Entry)
      BY <1>2 DEF ClientSchedule, schedule, KnownThreads, Entry, TypeOK, Procs
    <2>2. QED
      BY <1>2, <2>1 DEF ClientSchedule, threadVars, countVars, flagVars, fiberVars, TypeOK,
                CurHeld, BornTogether, ActiveCountExact, IdleCountExact, At
  <1>3. CASE ClientScheduleBatch
    <2>1. m_fibers' \in Seq(Entry)
      <3>1. PICK f \in Tasks, g \in Tasks : scheduleBatch(f, g)
        BY <1>3 DEF ClientScheduleBatch
      <3>2. << [task |-> f, thread |-> AnyThread], [task |-> g, thread |-> AnyThread] >> \in Seq(Entry)
        BY DEF Entry
      <3>3. QED
        BY <3>1, <3>2, ConcatProperties DEF scheduleBatch, TypeOK
    <2>2. QED
      BY <1>3, <2>1 DEF ClientScheduleBatch, threadVars, countVars, flagVars, fiberVars, TypeOK,
                CurHeld, BornTogether, ActiveCountExact, IdleCountExact, At
  <1>4. CASE ClientWake
    <2>1. m_fibers' \in Seq(Entry) /\ armed' \subseteq Tasks
      BY <1>4 DEF ClientWake, wake, schedule, Entry, TypeOK
    <2>2. QED
      BY <1>4, <2>1 DEF ClientWake, threadVars, countVars, flagVars, TypeOK,
                CurHeld, BornTogether, ActiveCountExact, IdleCountExact, At
  <1>5. CASE start
    <2>1. \A t \in Procs : pc[t] \in {"new", "unborn"} /\ pc'[t] \in {"client", "loop"}
      BY <1>5 DEF start, TypeOK, BornTogether, Procs
    <2>2. /\ At(pc, ActivePoints) = {} /\ At(pc', ActivePoints) = {}
          /\ At(pc, {"idle"}) = {} /\ At(pc', {"idle"}) = {}
      BY <2>1 DEF At, ActivePoints
    <2>3. ActiveCountExact' /\ IdleCountExact'
      BY <1>5, <2>2 DEF start, countVars, ActiveCountExact, IdleCountExact, At
    <2>4. CurHeld' /\ BornTogether'
      BY <1>5, <2>1, SchedulerAssumption
      DEF start, TypeOK, CurHeld, BornTogether, Holding, Procs
    <2>5. TypeOK'
      BY <1>5, SchedulerAssumption
      DEF start, TypeOK, countVars, fiberVars, WorkerPoints, RootPoints, RunPoints, Procs
    <2>6. QED
      BY <2>3, <2>4, <2>5
  <1>6. CASE StopBegin \/ stop
    <2>1. PICK v \in RootPoints \ {"new"} : pc' = [pc EXCEPT ![Root] = v]
                  /\ v \notin Holding /\ v # "idle"
      BY <1>6 DEF StopBegin, StopEarly, StopSet, StopCheck, Join, stop,
            RootPoints, RunPoints, Holding
    <2>2. pc[Root] \notin Holding /\ pc[Root] \notin {"idle", "new"}
      BY <1>6 DEF StopBegin, StopEarly, StopSet, StopCheck, Join, stop,
            Holding
    <2>3. m_activeThreadCount' = m_activeThreadCount /\ m_idleThreadCount' = m_idleThreadCount
      BY <1>6 DEF StopBegin, StopEarly, StopSet, StopCheck, Join, stop,
            countVars
    <2>4. Root \in Procs
      BY DEF Procs
    <2>5. /\ ActiveCountExact' /\ IdleCountExact'
          /\ m_activeThreadCount' \in Nat /\ m_idleThreadCount' \in Nat
      BY <2>1, <2>2, <2>3, <2>4, MoveCounts DEF Holding, ActivePoints
    <2>6. CurHeld' /\ BornTogether'
      BY <1>6, <2>1, <2>2, <2>4, SchedulerAssumption
      DEF StopBegin, StopEarly, StopSet, StopCheck, Join, stop,
            TypeOK, CurHeld, BornTogether, Procs
    <2>7. TypeOK'
      BY <1>6, <2>1, <2>4, <2>5 DEF StopBegin, StopEarly, StopSet, StopCheck, Join, stop,
            TypeOK, flagVars, fiberVars
    <2>8. QED
      BY <2>5, <2>6, <2>7
  <1>7. CASE Terminated
    BY <1>7, <1>1 DEF Terminated
  <1>8. ASSUME NEW t \in Procs, run(t) PROVE TypeInv'
    <2> USE DEF run, Pick, DropFinished, SwapIn, SwapBack, Settle, EnterIdle, LeaveIdle, Exit,
            TaskSchedule, TaskWake, Arm, YieldToHold, YieldToReady, MainFunc
    <2> DEFINE v == pc'[t]
    <2>0. pc \in [Procs -> WorkerPoints \cup RootPoints]
      BY DEF TypeOK
    <2>1. /\ v \in RunPoints \cup {"join", "exited"}
            /\ pc' = [pc EXCEPT ![t] = v]
            /\ v \in IF t = Root THEN RootPoints ELSE WorkerPoints
      BY <1>8 DEF threadVars, TypeOK, RunPoints, RootPoints, WorkerPoints
    <2>2. pc[t] \in RunPoints
      BY <1>8 DEF RunPoints
    <2>3. pc'[t] = v /\ \A u \in Procs \ {t} : pc'[u] = pc[u]
      BY <2>1 DEF TypeOK
    <2>4. \/ /\ pc[t] \notin ActivePoints /\ v \in ActivePoints
             /\ m_activeThreadCount' = m_activeThreadCount + 1
          \/ /\ pc[t] \in ActivePoints /\ v \notin ActivePoints
             /\ m_activeThreadCount' = m_activeThreadCount - 1
          \/ /\ pc[t] \in ActivePoints <=> v \in ActivePoints
             /\ m_activeThreadCount' = m_activeThreadCount
      BY <1>8, <2>0 DEF ActivePoints, countVars, threadVars
    <2>5. \/ /\ pc[t] # "idle" /\ v = "idle"
             /\ m_idleThreadCount' = m_idleThreadCount + 1
          \/ /\ pc[t] = "idle" /\ v # "idle"
             /\ m_idleThreadCount' = m_idleThreadCount - 1
          \/ /\ pc[t] = "idle" <=> v = "idle"
             /\ m_idleThreadCount' = m_idleThreadCount
      BY <1>8, <2>0 DEF countVars, threadVars
    <2>6. /\ ActiveCountExact' /\ IdleCountExact'
          /\ m_activeThreadCount' \in Nat /\ m_idleThreadCount' \in Nat
      BY <2>1, <2>4, <2>5, MoveCounts
    <2>7. BornTogether'
      BY <2>1, <2>2, <2>3 DEF BornTogether, RunPoints, Procs
    <2>8. CurHeld' /\ cur' \in [Procs -> Tasks \cup {NoTask}]
      <3>1. CASE Pick(t)
        <4>1. PICK i \in 1..Len(m_fibers) : cur' = [cur EXCEPT ![t] = m_fibers[i].task]
          BY <3>1
        <4>2. m_fibers[i].task \in Tasks
          BY EntryTasks
        <4>3. QED
          BY <3>1, <4>1, <4>2, SchedulerAssumption DEF CurHeld, TypeOK, Holding
      <3>2. CASE ~Pick(t)
        BY <1>8, <2>3, <3>2 DEF CurHeld, TypeOK, Holding, threadVars
      <3>3. QED
        BY <3>1, <3>2
    <2>9. m_fibers' \in Seq(Entry)
      <3>1. CASE Pick(t)
        <4>1. PICK i \in 1..Len(m_fibers) : m_fibers' = RemoveAt(m_fibers, i)
          BY <3>1
        <4>2. QED
          BY <4>1, RemoveAtEntries DEF TypeOK
      <3>2. CASE Settle(t)
        <4>1. cur[t] \in Tasks
          BY <3>2 DEF CurHeld, Holding, TypeOK
        <4>2. QED
          BY <3>2, <4>1, AppendEntry DEF schedule, TypeOK
      <3>3. CASE TaskSchedule(t) \/ TaskWake(t)
        BY <3>3, AppendEntry, PinTargetsKnown DEF wake, schedule
      <3>4. QED
        BY <1>8, <3>1, <3>2, <3>3 DEF TypeOK
    <2>10. m_state' \in [Tasks -> States] /\ armed' \subseteq Tasks
      <3>1. pc[t] \in Holding => cur[t] \in Tasks
        BY DEF CurHeld, TypeOK
      <3>2. QED
        BY <1>8, <3>1 DEF TypeOK, fiberVars, States, Finished, Holding, wake
    <2>11. TypeOK'
      <3>1. idleTerm' \subseteq Procs /\ yields' \in 0..MaxYields
        BY <1>8, SchedulerAssumption DEF TypeOK, fiberVars, threadVars
      <3>2. m_stopping' \in BOOLEAN /\ m_autoStop' \in BOOLEAN
        BY <1>8 DEF TypeOK, flagVars
      <3>3. /\ pc' \in [Procs -> WorkerPoints \cup RootPoints]
            /\ \A u \in Procs : pc'[u] \in IF u = Root THEN RootPoints ELSE WorkerPoints
        BY <2>1 DEF TypeOK, WorkerPoints, RootPoints
      <3>4. QED
        BY <2>6, <2>8, <2>9, <2>10, <3>1, <3>2, <3>3 DEF TypeOK
    <2>12. QED
      BY <2>6, <2>7, <2>8, <2>11
  <1>9. QED
    BY <1>1, <1>2, <1>3, <1>4, <1>5, <1>6, <1>7, <1>8 DEF Next, Client

\* Both atomic counters are exact and every variable has its type, always.
LEMMA TypeAlways == Spec => []TypeInv
  BY TypeInit, TypeNext, PTL DEF Spec

\* Type correctness: in particular neither atomic counter wraps below zero, and
\* a thread is never at a point of run() its kind of thread does not have.
THEOREM SchedulerTypes == Spec => []TypeOK
  <1>1. TypeInv => TypeOK
    BY DEF TypeInv
  <1>2. QED
    BY <1>1, TypeAlways, PTL

\* m_activeThreadCount is the number of threads busy with a task on every path
\* through Scheduler::run, early wakes or not, so that stopping() never
\* misjudges it for good.
THEOREM ActiveCounted == Spec => []ActiveCountExact
  <1>1. TypeInv => ActiveCountExact
    BY DEF TypeInv
  <1>2. QED
    BY <1>1, TypeAlways, PTL

-----------------------------------------------------------------------------
(***************************************************************************)
(* Ownership of fibers, when wakers come only after run() has let go.       *)
(***************************************************************************)

\* The tasks in the queue, and that no task is there twice.
QueuedTasks == {f \in Tasks : Queued(f)}
Distinct ==
    \A i, j \in 1..Len(m_fibers) : m_fibers[i].task = m_fibers[j].task => i = j

\* schedule() adds its task to the queued ones, and keeps entries distinct if the
\* task was not queued.
LEMMA AppendQueued ==
  ASSUME TypeOK, NEW f \in Tasks, NEW thread \in Procs \cup {AnyThread},
         schedule(f, thread)
  PROVE  /\ QueuedTasks' = QueuedTasks \cup {f}
         /\ Distinct /\ f \notin QueuedTasks => Distinct'
  <1> DEFINE e == [task |-> f, thread |-> thread]
  <1>1. /\ m_fibers' \in Seq(Entry) /\ Len(m_fibers') = Len(m_fibers) + 1
        /\ \A i \in 1..Len(m_fibers) : m_fibers'[i] = m_fibers[i]
        /\ m_fibers'[Len(m_fibers) + 1].task = f
    <2>1. e \in Entry /\ e.task = f
      BY DEF Entry
    <2>2. m_fibers' = Append(m_fibers, e) /\ m_fibers \in Seq(Entry)
      BY DEF schedule, TypeOK
    <2> HIDE DEF e
    <2>3. QED
      BY <2>1, <2>2
  <1>2. Len(m_fibers) \in Nat
    BY DEF TypeOK
  <1>3. ASSUME NEW g \in Tasks PROVE Queued(g)' <=> Queued(g) \/ g = f
    <2>1. ASSUME NEW i \in 1..Len(m_fibers'), m_fibers'[i].task = g PROVE Queued(g) \/ g = f
      BY <1>1, <1>2, <2>1 DEF Queued
    <2>2. ASSUME NEW i \in 1..Len(m_fibers), m_fibers[i].task = g PROVE Queued(g)'
      BY <1>1, <1>2, <2>2 DEF Queued
    <2>3. Queued(f)'
      BY <1>1, <1>2 DEF Queued
    <2>4. QED
      BY <2>1, <2>2, <2>3 DEF Queued
  <1>4. QueuedTasks' = QueuedTasks \cup {f}
    BY <1>3 DEF QueuedTasks
  <1>5. ASSUME Distinct, f \notin QueuedTasks PROVE Distinct'
    BY <1>1, <1>2, <1>5 DEF Distinct, QueuedTasks, Queued
  <1>6. QED
    BY <1>4, <1>5

\* Taking entry i out of the queue takes its task out of the queued ones.
LEMMA RemoveQueued ==
  ASSUME TypeOK, Distinct, NEW i \in 1..Len(m_fibers), m_fibers' = RemoveAt(m_fibers, i)
  PROVE  /\ QueuedTasks' = QueuedTasks \ {m_fibers[i].task}
         /\ m_fibers[i].task \in QueuedTasks
         /\ Distinct'
  <1>1. /\ m_fibers' \in Seq(Entry) /\ Len(m_fibers') = Len(m_fibers) - 1
        /\ \A j \in 1..(Len(m_fibers) - 1) :
              m_fibers'[j] = IF j < i THEN m_fibers[j] ELSE m_fibers[j + 1]
    BY RemoveAtEntries DEF TypeOK
  <1>2. Len(m_fibers) \in Nat
    BY DEF TypeOK
  <1>3. m_fibers[i].task \in QueuedTasks
    BY EntryTasks DEF QueuedTasks, Queued
  <1>4. Distinct'
    <2> DEFINE from(j) == IF j < i THEN j ELSE j + 1
    <2>1. ASSUME NEW j \in 1..(Len(m_fibers) - 1)
          PROVE  from(j) \in 1..Len(m_fibers) /\ m_fibers'[j] = m_fibers[from(j)]
      BY <1>1, <1>2
    <2>2. ASSUME NEW j \in 1..(Len(m_fibers) - 1), NEW k \in 1..(Len(m_fibers) - 1),
                 m_fibers'[j].task = m_fibers'[k].task
          PROVE  j = k
      <3>1. from(j) = from(k)
        BY <2>1, <2>2 DEF Distinct
      <3>2. QED
        BY <1>2, <3>1
    <2>3. QED
      BY <1>1, <2>2 DEF Distinct
  <1>5. ASSUME NEW g \in Tasks, Queued(g), g # m_fibers[i].task PROVE Queued(g)'
    <2>1. PICK k \in 1..Len(m_fibers) : m_fibers[k].task = g
      BY <1>5 DEF Queued
    <2>2. k # i
      BY <1>5, <2>1
    <2>3. CASE k < i
      BY <1>1, <1>2, <2>1, <2>3 DEF Queued
    <2>4. CASE k > i
      <3>1. k - 1 \in 1..(Len(m_fibers) - 1) /\ ~(k - 1 < i) /\ (k - 1) + 1 = k
        BY <1>2, <2>4
      <3>2. QED
        BY <1>1, <2>1, <3>1 DEF Queued
    <2>5. QED
      BY <2>2, <2>3, <2>4
  <1>6. ASSUME NEW g \in Tasks, Queued(g)' PROVE Queued(g) /\ g # m_fibers[i].task
    <2>1. PICK j \in 1..(Len(m_fibers) - 1) : m_fibers'[j].task = g
      BY <1>1, <1>6 DEF Queued
    <2>2. PICK k \in 1..Len(m_fibers) : k # i /\ m_fibers'[j] = m_fibers[k]
      <3>1. CASE j < i
        BY <1>1, <1>2, <3>1
      <3>2. CASE ~(j < i)
        BY <1>1, <1>2, <3>2
      <3>3. QED
        BY <3>1, <3>2
    <2>3. QED
      BY <2>1, <2>2 DEF Queued, Distinct
  <1>7. QueuedTasks' = QueuedTasks \ {m_fibers[i].task}
    BY <1>5, <1>6 DEF QueuedTasks
  <1>8. QED
    BY <1>3, <1>4, <1>7

\* The batch form of schedule() adds its two tasks.
LEMMA BatchQueued ==
  ASSUME TypeOK, NEW f \in Tasks, NEW g \in Tasks, f # g, scheduleBatch(f, g)
  PROVE  /\ QueuedTasks' = QueuedTasks \cup {f, g}
         /\ Distinct /\ f \notin QueuedTasks /\ g \notin QueuedTasks => Distinct'
  <1> DEFINE e == << [task |-> f, thread |-> AnyThread], [task |-> g, thread |-> AnyThread] >>
             n == Len(m_fibers)
  <1>1. /\ e \in Seq(Entry) /\ Len(e) = 2
        /\ e[1].task = f /\ e[2].task = g
    BY DEF Entry
  <1>2. m_fibers \in Seq(Entry) /\ n \in Nat /\ m_fibers' = m_fibers \o e
    BY DEF TypeOK, scheduleBatch
  <1> HIDE DEF e
  <1>3. /\ m_fibers' \in Seq(Entry) /\ Len(m_fibers') = n + 2
        /\ \A i \in 1..(n + 2) : m_fibers'[i] = IF i <= n THEN m_fibers[i] ELSE e[i - n]
    <2>1. /\ m_fibers \o e \in Seq(Entry)
          /\ Len(m_fibers \o e) = Len(m_fibers) + Len(e)
          /\ \A i \in 1..(Len(m_fibers) + Len(e)) :
                (m_fibers \o e)[i] = IF i <= Len(m_fibers) THEN m_fibers[i] ELSE e[i - Len(m_fibers)]
      BY <1>1, <1>2, ConcatProperties
    <2>2. QED
      BY <1>1, <1>2, <2>1
  <1>4. /\ \A i \in 1..n : m_fibers'[i] = m_fibers[i]
        /\ m_fibers'[n + 1].task = f /\ m_fibers'[n + 2].task = g
    <2>1. (n + 1) - n = 1 /\ (n + 2) - n = 2 /\ ~(n + 1 <= n) /\ ~(n + 2 <= n)
          /\ n + 1 \in 1..(n + 2) /\ n + 2 \in 1..(n + 2) /\ \A i \in 1..n : i \in 1..(n + 2) /\ i <= n
      BY <1>2
    <2>2. QED
      BY <1>1, <1>3, <2>1
  <1>5. \A i \in 1..(n + 2) : i \in 1..n \/ i = n + 1 \/ i = n + 2
    BY <1>2
  <1> HIDE DEF n
  <1>6. ASSUME NEW h \in Tasks PROVE Queued(h)' <=> Queued(h) \/ h = f \/ h = g
    <2>1. Queued(h)' => Queued(h) \/ h = f \/ h = g
      BY <1>3, <1>4, <1>5 DEF Queued, n
    <2>2. Queued(h) => Queued(h)'
      BY <1>2, <1>3, <1>4 DEF Queued, n
    <2>3. Queued(f)' /\ Queued(g)'
      BY <1>2, <1>3, <1>4 DEF Queued
    <2>4. QED
      BY <2>1, <2>2, <2>3
  <1>7. QueuedTasks' = QueuedTasks \cup {f, g}
    BY <1>6 DEF QueuedTasks
  <1>8. ASSUME Distinct, f \notin QueuedTasks, g \notin QueuedTasks PROVE Distinct'
    <2>1. \A i \in 1..n : m_fibers[i].task \notin {f, g}
      BY <1>8 DEF QueuedTasks, Queued, n
    <2>2. \A i, j \in 1..n : m_fibers[i].task = m_fibers[j].task => i = j
      BY <1>8 DEF Distinct, n
    <2>3. QED
      BY <1>3, <1>4, <1>5, <2>1, <2>2 DEF Distinct
  <1>9. QED
    BY <1>7, <1>8

\* What a thread knows about the task it holds, by where it is in run().
HeldState(t) ==
    /\ pc[t] = "got" => m_state[cur[t]] # "EXEC" /\ cur[t] \notin armed
    /\ pc[t] = "exec" => m_state[cur[t]] = "EXEC" /\ cur[t] \notin armed
    /\ pc[t] = "armed" => m_state[cur[t]] = "EXEC" /\ cur[t] \in armed
    /\ pc[t] \in {"switch", "after"} =>
          /\ m_state[cur[t]] \in {"TERM", "EXCEPT", "READY", "HOLD"}
          /\ cur[t] \in armed <=> m_state[cur[t]] = "HOLD"

\* The inductive invariant behind OneOwner, SwapInAssert and NoLostFiber: every
\* task is with exactly one of its possible owners (a thread, the queue, its
\* waker), and its Fiber::m_state says which.
OwnerInv ==
    /\ Distinct
    /\ \A t, u \in Procs : cur[t] = cur[u] /\ cur[t] # NoTask => t = u
    /\ \A t \in Procs : cur[t] \notin QueuedTasks
    /\ \A t \in Procs : HeldState(t)
    /\ \A f \in Tasks : m_state[f] = "EXEC" => \E t \in Procs : cur[t] = f
    /\ \A f \in armed : f \notin QueuedTasks /\ m_state[f] \in {"EXEC", "HOLD"}
    /\ \A f \in Tasks : m_state[f] \in {"HOLD", "READY"} =>
          f \in armed \/ f \in QueuedTasks \/ \E t \in Procs : cur[t] = f

\* Before anything is submitted, no task is queued, armed or on a thread.
LEMMA OwnerInit == Init => OwnerInv
  <1> SUFFICES ASSUME Init PROVE OwnerInv
    OBVIOUS
  <1>1. QueuedTasks = {} /\ Distinct
    BY DEF Init, QueuedTasks, Queued, Distinct
  <1>2. ASSUME NEW t \in Procs
        PROVE  cur[t] = NoTask /\ pc[t] \in {"new", "unborn"}
    BY DEF Init
  <1>3. \A f \in Tasks : m_state[f] \in {"NONE", "INIT"}
    BY DEF Init
  <1>4. armed = {}
    BY DEF Init
  <1>5. \A t \in Procs : HeldState(t)
    BY <1>2 DEF HeldState
  <1>6. QED
    BY <1>1, <1>2, <1>3, <1>4, <1>5 DEF OwnerInv

\* What the guards of the submitting actions give, in terms of QueuedTasks.
LEMMA GuardFacts ==
  ASSUME NEW f \in Tasks
  PROVE  /\ Fresh(f) \/ Stale(f) =>
               /\ f \notin QueuedTasks
               /\ \A t \in Procs : cur[t] # f
               /\ m_state[f] \in {"NONE", "INIT", "TERM", "EXCEPT"}
         /\ ~EarlyWake /\ Wakeable(f) => f \in armed /\ \A t \in Procs : cur[t] # f
  BY DEF Fresh, Stale, Wakeable, OnThread, QueuedTasks, Finished

\* Steps that leave the fibers, the queue and the tasks in the threads' hands
\* alone, and move threads only between points where they hold nothing.
LEMMA OwnerStutter ==
  ASSUME OwnerInv, UNCHANGED <<m_fibers, m_state, armed, cur>>,
         \A t \in Procs : pc'[t] = pc[t] \/ pc'[t] \notin Holding
  PROVE  OwnerInv'
  <1>1. QueuedTasks' = QueuedTasks /\ Distinct'
    BY DEF QueuedTasks, Queued, Distinct, OwnerInv
  <1>2. ASSUME NEW t \in Procs PROVE HeldState(t)'
    BY <1>2 DEF OwnerInv, HeldState, Holding
  <1>3. QED
    BY <1>1, <1>2 DEF OwnerInv

\* Steps that append one task f, owned by nobody else, to the queue.
LEMMA OwnerAppend ==
  ASSUME TypeInv, OwnerInv, NEW f \in Tasks, NEW thread \in Procs \cup {AnyThread},
         schedule(f, thread), f \notin QueuedTasks, \A t \in Procs : cur[t] # f,
         armed' = armed \ {f}, UNCHANGED <<m_state, threadVars>>
  PROVE  OwnerInv'
  <1>1. QueuedTasks' = QueuedTasks \cup {f} /\ Distinct'
    BY AppendQueued DEF TypeInv, OwnerInv
  <1>2. UNCHANGED <<pc, cur>>
    BY DEF threadVars
  <1>3. ASSUME NEW t \in Procs PROVE HeldState(t)'
    BY <1>2 DEF OwnerInv, HeldState
  <1>4. QED
    BY <1>1, <1>2, <1>3 DEF OwnerInv

\* Every step of the scheduler preserves OwnerInv, when wakers wait for run().
LEMMA OwnerNext ==
  ASSUME ~EarlyWake, TypeInv, OwnerInv, [Next]_vars
  PROVE  OwnerInv'
  <1> USE DEF TypeInv
  <1>0. /\ pc \in [Procs -> WorkerPoints \cup RootPoints]
        /\ cur \in [Procs -> Tasks \cup {NoTask}]
        /\ m_state \in [Tasks -> States]
        /\ NoTask \notin Tasks
    BY SchedulerAssumption DEF TypeOK
  <1>1. CASE UNCHANGED vars
    BY <1>1, OwnerStutter DEF vars, threadVars, fiberVars
  <1>2. CASE ClientSchedule
    <2>1. PICK f \in Tasks, thread \in KnownThreads : (Fresh(f) \/ Stale(f)) /\ schedule(f, thread)
      BY <1>2 DEF ClientSchedule
    <2>2. thread \in Procs \cup {AnyThread}
      BY DEF KnownThreads, Procs
    <2>3. f \notin armed
      BY <2>1, GuardFacts DEF OwnerInv
    <2>4. armed' = armed \ {f} /\ UNCHANGED <<m_state, threadVars>>
      BY <1>2, <2>3 DEF ClientSchedule, fiberVars
    <2>5. QED
      BY <2>1, <2>2, <2>4, GuardFacts, OwnerAppend
  <1>3. CASE ClientScheduleBatch
    <2>1. PICK f \in Tasks, g \in Tasks : f # g /\ Fresh(f) /\ Fresh(g) /\ scheduleBatch(f, g)
      BY <1>3 DEF ClientScheduleBatch
    <2>2. /\ f \notin QueuedTasks /\ g \notin QueuedTasks
          /\ \A t \in Procs : cur[t] # f /\ cur[t] # g
          /\ f \notin armed /\ g \notin armed
      BY <2>1, GuardFacts DEF OwnerInv
    <2>3. QueuedTasks' = QueuedTasks \cup {f, g} /\ Distinct'
      BY <2>1, <2>2, BatchQueued DEF OwnerInv
    <2>4. UNCHANGED <<m_state, armed, pc, cur>>
      BY <1>3 DEF ClientScheduleBatch, fiberVars, threadVars
    <2>5. ASSUME NEW t \in Procs PROVE HeldState(t)'
      BY <2>4 DEF OwnerInv, HeldState
    <2>6. QED
      BY <2>2, <2>3, <2>4, <2>5 DEF OwnerInv
  <1>4. ASSUME NEW f \in Tasks, Wakeable(f), wake(f), UNCHANGED <<m_state, threadVars>>
        PROVE  OwnerInv'
    <2>1. f \in armed /\ \A t \in Procs : cur[t] # f
      BY <1>4, GuardFacts
    <2>2. f \notin QueuedTasks
      BY <2>1 DEF OwnerInv
    <2>3. schedule(f, AnyThread) /\ armed' = armed \ {f}
      BY <1>4 DEF wake
    <2>4. QED
      BY <1>4, <2>1, <2>2, <2>3, OwnerAppend
  <1>5. CASE ClientWake
    BY <1>4, <1>5 DEF ClientWake
  <1>6. CASE start
    BY <1>6, OwnerStutter DEF start, fiberVars, Holding
  <1>7. CASE StopBegin \/ stop \/ Terminated
    <2>1. \A t \in Procs : pc'[t] = pc[t] \/ pc'[t] \notin Holding
      BY <1>0, <1>7 DEF StopBegin, stop, StopEarly, StopSet, StopCheck, Join, Terminated,
                vars, threadVars, Holding
    <2>2. UNCHANGED <<m_fibers, m_state, armed, cur>>
      BY <1>7 DEF StopBegin, stop, StopEarly, StopSet, StopCheck, Join, Terminated,
                vars, threadVars, fiberVars
    <2>3. QED
      BY <2>1, <2>2, OwnerStutter
  <1>8. ASSUME NEW t \in Procs, run(t) PROVE OwnerInv'
    <2>1. pc[t] \in Holding => cur[t] \in Tasks
      BY <1>0 DEF CurHeld
    <2>2. HeldState(t)
      BY DEF OwnerInv
    <2>3. \A u \in Procs \ {t} : cur[u] # cur[t] \/ cur[t] = NoTask
      BY DEF OwnerInv
    <2>4. CASE Pick(t)
      <3>1. PICK i \in 1..Len(m_fibers) :
              /\ Eligible(t, m_fibers[i])
              /\ cur' = [cur EXCEPT ![t] = m_fibers[i].task]
              /\ m_fibers' = RemoveAt(m_fibers, i)
        BY <2>4 DEF Pick
      <3> DEFINE f == m_fibers[i].task
      <3>2. f \in Tasks /\ m_state[f] # "EXEC"
        BY <3>1, EntryTasks DEF Eligible
      <3>3. QueuedTasks' = QueuedTasks \ {f} /\ f \in QueuedTasks /\ Distinct'
        BY <3>1, RemoveQueued DEF OwnerInv
      <3>4. f \notin armed /\ \A u \in Procs : cur[u] # f
        BY <3>3 DEF OwnerInv
      <3>5. cur[t] = NoTask
        BY <2>4 DEF Pick, CurHeld, Holding
      <3>6. /\ cur'[t] = f /\ pc'[t] = "got"
            /\ \A u \in Procs \ {t} : cur'[u] = cur[u] /\ pc'[u] = pc[u]
            /\ UNCHANGED <<m_state, armed>>
        BY <1>0, <2>4, <3>1 DEF Pick, fiberVars
      <3> HIDE DEF f
      <3>7. ASSUME NEW u \in Procs PROVE HeldState(u)'
        BY <3>2, <3>4, <3>6 DEF OwnerInv, HeldState
      <3>8. QED
        BY <1>0, <3>2, <3>3, <3>4, <3>5, <3>6, <3>7 DEF OwnerInv
    <2>5. CASE Settle(t) /\ m_state[cur[t]] = "READY"
      <3>1. cur[t] \in Tasks /\ cur[t] \notin armed /\ cur[t] \notin QueuedTasks
        BY <2>1, <2>2, <2>5 DEF Settle, HeldState, Holding, OwnerInv
      <3>2. QueuedTasks' = QueuedTasks \cup {cur[t]} /\ Distinct'
        BY <2>5, <3>1, AppendQueued DEF Settle, OwnerInv
      <3>3. /\ cur'[t] = NoTask /\ pc'[t] = "loop"
            /\ \A u \in Procs \ {t} : cur'[u] = cur[u] /\ pc'[u] = pc[u]
            /\ UNCHANGED <<m_state, armed>>
        BY <1>0, <2>5 DEF Settle
      <3>4. ASSUME NEW u \in Procs PROVE HeldState(u)'
        BY <3>3 DEF OwnerInv, HeldState
      <3>5. NoTask \notin QueuedTasks'
        BY <1>0 DEF QueuedTasks
      <3>6. \A u \in Procs : cur'[u] \notin QueuedTasks'
        BY <2>3, <3>1, <3>2, <3>3, <3>5, <1>0 DEF OwnerInv
      <3>7. /\ \A u, w \in Procs : cur'[u] = cur'[w] /\ cur'[u] # NoTask => u = w
            /\ \A f \in Tasks : m_state'[f] = "EXEC" => \E u \in Procs : cur'[u] = f
        BY <2>5, <3>3 DEF OwnerInv
      <3>8. QED
        BY <3>1, <3>2, <3>3, <3>4, <3>6, <3>7 DEF OwnerInv
    <2>6. CASE DropFinished(t) \/ (Settle(t) /\ m_state[cur[t]] # "READY")
      <3>1. cur[t] \in Tasks
        BY <2>1, <2>6 DEF DropFinished, Settle, Holding
      <3>2. /\ m_state' = m_state
            /\ m_state[cur[t]] \in Finished \/ cur[t] \in armed
        BY <1>0, <2>2, <2>6, <3>1 DEF DropFinished, Settle, HeldState, Finished, fiberVars
      <3>3. /\ cur'[t] = NoTask /\ pc'[t] = "loop"
            /\ \A u \in Procs \ {t} : cur'[u] = cur[u] /\ pc'[u] = pc[u]
            /\ UNCHANGED <<m_fibers, armed>>
        BY <1>0, <2>6 DEF DropFinished, Settle, fiberVars
      <3>4. QueuedTasks' = QueuedTasks /\ Distinct' /\ NoTask \notin QueuedTasks
        BY <1>0, <3>3 DEF QueuedTasks, Queued, Distinct, OwnerInv
      <3>5. ASSUME NEW u \in Procs PROVE HeldState(u)'
        BY <3>2, <3>3 DEF OwnerInv, HeldState
      <3>6. m_state[cur[t]] # "EXEC" /\ (m_state[cur[t]] \in {"HOLD", "READY"} => cur[t] \in armed)
        BY <2>2, <2>6, <3>2 DEF DropFinished, Settle, HeldState, Finished
      <3>7. QED
        BY <1>0, <3>2, <3>3, <3>4, <3>5, <3>6 DEF OwnerInv
    <2>7. CASE SwapIn(t) \/ Arm(t) \/ YieldToHold(t) \/ YieldToReady(t) \/ MainFunc(t) \/ SwapBack(t)
      <3>1. cur[t] \in Tasks
        BY <2>1, <2>7 DEF SwapIn, Arm, YieldToHold, YieldToReady, MainFunc, SwapBack, Holding
      <3>2. /\ UNCHANGED <<m_fibers, cur>>
            /\ \A u \in Procs \ {t} : pc'[u] = pc[u]
            /\ \A f \in Tasks \ {cur[t]} : m_state'[f] = m_state[f] /\ (f \in armed' <=> f \in armed)
            /\ armed' \subseteq armed \cup {cur[t]}
        BY <1>0, <2>7 DEF SwapIn, Arm, YieldToHold, YieldToReady, MainFunc, SwapBack, fiberVars
      <3>3. QueuedTasks' = QueuedTasks /\ Distinct'
        BY <3>2 DEF QueuedTasks, Queued, Distinct, OwnerInv
      <3>4. HeldState(t)'
        BY <1>0, <2>2, <2>7, <3>1, <3>2
        DEF HeldState, SwapIn, Arm, YieldToHold, YieldToReady, MainFunc, SwapBack, fiberVars, Finished
      <3>5. ASSUME NEW u \in Procs \ {t} PROVE HeldState(u)'
        <4>1. pc[u] \in Holding => cur[u] \in Tasks \ {cur[t]}
          BY <1>0, <2>3, <3>1 DEF CurHeld
        <4>2. HeldState(u)
          BY DEF OwnerInv
        <4>3. QED
          BY <3>2, <4>1, <4>2 DEF HeldState, Holding
      <3>6. cur[t] \in armed' => m_state'[cur[t]] \in {"EXEC", "HOLD"}
        BY <1>0, <2>2, <2>7, <3>1
        DEF HeldState, SwapIn, Arm, YieldToHold, YieldToReady, MainFunc, SwapBack, fiberVars, Finished
      <3>7. QED
        BY <3>1, <3>2, <3>3, <3>4, <3>5, <3>6 DEF OwnerInv, TypeOK
    <2>8. CASE EnterIdle(t) \/ LeaveIdle(t) \/ Exit(t)
      <3>1. \A u \in Procs : pc'[u] = pc[u] \/ pc'[u] \notin Holding
        BY <1>0, <2>8 DEF EnterIdle, LeaveIdle, Exit, Holding
      <3>2. QED
        BY <2>8, <3>1, OwnerStutter DEF EnterIdle, LeaveIdle, Exit, fiberVars
    <2>9. CASE TaskSchedule(t)
      <3>1. PICK f \in Tasks, thread \in PinTargets : Fresh(f) /\ schedule(f, thread)
        BY <2>9 DEF TaskSchedule
      <3>2. f \notin armed
        BY <3>1, GuardFacts DEF OwnerInv
      <3>3. armed' = armed \ {f} /\ UNCHANGED <<m_state, threadVars>>
        BY <2>9, <3>2 DEF TaskSchedule, fiberVars
      <3>4. QED
        BY <3>1, <3>3, GuardFacts, OwnerAppend, PinTargetsKnown
    <2>10. CASE TaskWake(t)
      BY <1>4, <2>10 DEF TaskWake
    <2>11. QED
      BY <1>8, <2>4, <2>5, <2>6, <2>7, <2>8, <2>9, <2>10 DEF run
  <1>9. QED
    BY <1>1, <1>2, <1>3, <1>5, <1>6, <1>7, <1>8 DEF Next, Client

\* The inductive invariant gives the three properties of fiber ownership.
LEMMA OwnerImplies ==
  ASSUME TypeInv, OwnerInv
  PROVE  OneOwner /\ SwapInAssert /\ NoLostFiber
  <1>1. \A f \in Tasks : Queued(f) <=> f \in QueuedTasks
    BY DEF QueuedTasks
  <1>2. OneOwner
    BY <1>1 DEF OwnerInv, OneOwner, OnThread, Distinct
  <1>3. SwapInAssert
    BY DEF OwnerInv, SwapInAssert, HeldState
  <1>4. NoLostFiber
    BY <1>1 DEF OwnerInv, NoLostFiber, OnThread
  <1>5. QED
    BY <1>2, <1>3, <1>4

\* The invariant holds when no waker comes before run() has let go of the fiber.
LEMMA OwnerAlways ==
  ASSUME ~EarlyWake
  PROVE  Spec => [](TypeInv /\ OwnerInv)
  <1>1. Init => TypeInv /\ OwnerInv
    BY TypeInit, OwnerInit
  <1>2. TypeInv /\ OwnerInv /\ [Next]_vars => (TypeInv /\ OwnerInv)'
    BY TypeNext, OwnerNext
  <1>3. QED
    BY <1>1, <1>2, PTL DEF Spec

\* If no waker schedules a fiber before Scheduler::run has let go of it, then
\* no fiber is ever under two threads, in the queue twice, or in both.
THEOREM FiberOwnership ==
  ASSUME ~EarlyWake
  PROVE  Spec => []OneOwner
  <1>1. TypeInv /\ OwnerInv => OneOwner
    BY OwnerImplies
  <1>2. QED
    BY <1>1, OwnerAlways, PTL

\* Under the same condition Fiber::swapIn's assertion cannot fail.
THEOREM SwapInSafe ==
  ASSUME ~EarlyWake
  PROVE  Spec => []SwapInAssert
  <1>1. TypeInv /\ OwnerInv => SwapInAssert
    BY OwnerImplies
  <1>2. QED
    BY <1>1, OwnerAlways, PTL

\* And no fiber that yielded is forgotten by its waker, the queue and run() alike.
THEOREM FibersKept ==
  ASSUME ~EarlyWake
  PROVE  Spec => []NoLostFiber
  <1>1. TypeInv /\ OwnerInv => NoLostFiber
    BY OwnerImplies
  <1>2. QED
    BY <1>1, OwnerAlways, PTL

-----------------------------------------------------------------------------
(***************************************************************************)
(* The state of a fiber that switched back.                                 *)
(***************************************************************************)

\* What Scheduler::run finds when it is the only thread: nobody else can have
\* changed the state that the fiber left behind.
LeftBehind ==
    \A t \in Procs : pc[t] \in {"switch", "after"} =>
        m_state[cur[t]] \in Finished \cup {"READY", "HOLD"}

\* The steps of a single thread keep it, early wakes included.
LEMMA SoloNext ==
  ASSUME Workers = {}, TypeInv, LeftBehind, [Next]_vars
  PROVE  LeftBehind'
  <1>0. /\ Procs = {Root} /\ pc \in [Procs -> WorkerPoints \cup RootPoints]
        /\ cur \in [Procs -> Tasks \cup {NoTask}]
        /\ m_state \in [Tasks -> States]
        /\ pc[Root] \in Holding => cur[Root] \in Tasks
    BY DEF TypeInv, TypeOK, CurHeld, Procs
  <1>1. CASE UNCHANGED <<m_state, pc, cur>>
    BY <1>1 DEF LeftBehind
  <1>2. CASE Client \/ stop \/ Terminated
    <2>1. m_state' = m_state /\ cur' = cur
      BY <1>2 DEF Client, ClientSchedule, ClientScheduleBatch, ClientWake, start, StopBegin, stop,
         StopEarly, StopSet, StopCheck, Join, Terminated, vars, fiberVars, threadVars
    <2>2. pc' = pc \/ pc'[Root] \notin {"switch", "after"}
      BY <1>0, <1>2 DEF Client, ClientSchedule, ClientScheduleBatch, ClientWake, start, StopBegin,
         stop, StopEarly, StopSet, StopCheck, Join, Terminated, vars, threadVars
    <2>3. QED
      BY <1>0, <2>1, <2>2 DEF LeftBehind
  <1>3. CASE run(Root)
    <2>1. CASE YieldToHold(Root) \/ YieldToReady(Root) \/ MainFunc(Root)
      BY <1>0, <2>1 DEF YieldToHold, YieldToReady, MainFunc, LeftBehind, Holding, Finished
    <2>2. CASE SwapBack(Root)
      BY <1>0, <2>2 DEF SwapBack, LeftBehind, fiberVars
    <2>3. CASE TaskSchedule(Root) \/ TaskWake(Root)
      BY <1>1, <2>3 DEF TaskSchedule, TaskWake, fiberVars, threadVars
    <2>4. CASE \/ Pick(Root) \/ DropFinished(Root) \/ SwapIn(Root) \/ Settle(Root)
               \/ EnterIdle(Root) \/ LeaveIdle(Root) \/ Exit(Root) \/ Arm(Root)
      <3>1. pc'[Root] \notin {"switch", "after"}
        BY <1>0, <2>4 DEF Pick, DropFinished, SwapIn, Settle, EnterIdle, LeaveIdle, Exit, Arm
      <3>2. QED
        BY <1>0, <3>1 DEF LeftBehind
    <2>5. QED
      BY <1>3, <2>1, <2>2, <2>3, <2>4 DEF run
  <1>4. QED
    BY <1>0, <1>1, <1>2, <1>3 DEF Next, vars, fiberVars, threadVars

\* What run()'s comment says of the state of a fiber that switched back is true
\* when wakers wait for run(), and also whenever the wakers run on the very
\* thread that switched; a waker on another thread can falsify it.
THEOREM SwitchedBackState ==
  ASSUME ~EarlyWake \/ Workers = {}
  PROVE  Spec => []OnlyHoldOrInit
  <1>1. CASE ~EarlyWake
    <2>1. TypeInv /\ OwnerInv => OnlyHoldOrInit
      BY DEF OwnerInv, HeldState, OnlyHoldOrInit, Finished
    <2>2. QED
      BY <1>1, <2>1, OwnerAlways, PTL
  <1>2. CASE Workers = {}
    <2>1. Init => LeftBehind
      BY DEF Init, LeftBehind
    <2>2. TypeInv /\ LeftBehind /\ [Next]_vars => LeftBehind'
      BY <1>2, SoloNext
    <2>3. LeftBehind => OnlyHoldOrInit
      BY DEF LeftBehind, OnlyHoldOrInit
    <2>4. QED
      BY <2>1, <2>2, <2>3, TypeInit, TypeNext, PTL DEF Spec
  <1>3. QED
    BY <1>1, <1>2

-----------------------------------------------------------------------------
(***************************************************************************)
(* Draining the queue.                                                      *)
(***************************************************************************)

\* The inductive invariant behind DrainedOnStop.  Nobody is gone before stop()
\* is called; the owner runs tasks only with use_caller; and every entry of the
\* queue still has a thread that will come for it.
DrainInv ==
    /\ pc[Root] \in {"new", "client"} => ~m_autoStop
    /\ idleTerm # {} => m_autoStop
    /\ \A t \in Workers : pc[t] = "exited" => m_autoStop
    /\ pc[Root] \in RunPoints => UseCaller
    /\ pc[Root] = "stopEarly" => Workers = {}
    /\ pc[Root] = "stopped" => \A t \in Workers : pc[t] = "exited"
    /\ NoOrphan

\* Before start() nothing is queued and no thread has gone.
LEMMA DrainInit == Init => DrainInv
  BY SchedulerAssumption DEF Init, DrainInv, NoOrphan, RunPoints, Procs

\* An entry that was in the queue stays served as long as no thread that was
\* live stops being so.
LEMMA OrphanKeep ==
  ASSUME NoOrphan,
         \A j \in 1..Len(m_fibers') : \E i \in 1..Len(m_fibers) : m_fibers'[j] = m_fibers[i],
         \A t \in Procs : Live(t) => Live(t)'
  PROVE  NoOrphan'
  BY DEF NoOrphan

\* A new entry is served when some live thread may take it.
LEMMA OrphanAppend ==
  ASSUME TypeOK, NoOrphan, NEW f \in Tasks, NEW thread \in Procs \cup {AnyThread},
         schedule(f, thread),
         \A t \in Procs : Live(t) => Live(t)',
         \E t \in Procs : Live(t) /\ thread \in {AnyThread, t}
  PROVE  NoOrphan'
  <1> DEFINE e == [task |-> f, thread |-> thread]
  <1>1. /\ Len(m_fibers') = Len(m_fibers) + 1 /\ Len(m_fibers) \in Nat
        /\ \A i \in 1..Len(m_fibers) : m_fibers'[i] = m_fibers[i]
        /\ m_fibers'[Len(m_fibers) + 1].thread = thread
    <2>1. e \in Entry /\ e.thread = thread
      BY DEF Entry
    <2>2. m_fibers' = Append(m_fibers, e) /\ m_fibers \in Seq(Entry)
      BY DEF schedule, TypeOK
    <2> HIDE DEF e
    <2>3. QED
      BY <2>1, <2>2
  <1>2. ASSUME NEW j \in 1..Len(m_fibers')
        PROVE  \E t \in Procs : Live(t)' /\ m_fibers'[j].thread \in {AnyThread, t}
    <2>1. CASE j \in 1..Len(m_fibers)
      BY <1>1, <2>1 DEF NoOrphan
    <2>2. CASE j = Len(m_fibers) + 1
      BY <1>1, <2>2
    <2>3. QED
      BY <1>1, <2>1, <2>2
  <1>3. QED
    BY <1>2 DEF NoOrphan

\* Until stop() is called every thread the owner may name is live, and there is
\* at least one.
LEMMA OwnerServed ==
  ASSUME TypeInv, DrainInv, OwnerSubmits, NEW thread \in KnownThreads
  PROVE  /\ thread \in Procs \cup {AnyThread}
         /\ \E t \in Procs : Live(t) /\ thread \in {AnyThread, t}
  <1>1. \A t \in Workers : t \in Procs /\ Live(t)
    BY SchedulerAssumption
    DEF TypeInv, TypeOK, DrainInv, OwnerSubmits, Live, WorkerPoints, RunPoints, Procs
  <1>2. UseCaller => Root \in Procs /\ Live(Root)
    BY DEF OwnerSubmits, Live, Procs
  <1>3. \E t \in Procs : Live(t)
    BY <1>1, <1>2, SchedulerAssumption
  <1>4. QED
    BY <1>1, <1>2, <1>3 DEF KnownThreads, Procs

\* Every step preserves DrainInv: no thread leaves run() while it is needed.
LEMMA DrainNext ==
  ASSUME ~LatePins, TypeInv, OwnerInv, DrainInv, [Next]_vars
  PROVE  DrainInv'
  <1> USE DEF TypeInv
  <1>0. pc \in [Procs -> WorkerPoints \cup RootPoints] /\ Root \in Procs /\ Workers \subseteq Procs
        /\ Root \notin Workers
    BY SchedulerAssumption DEF TypeOK, Procs
  <1>a. ASSUME UNCHANGED <<pc, m_autoStop, idleTerm>>, NoOrphan' PROVE DrainInv'
    BY <1>a DEF DrainInv
  <1>b. ASSUME UNCHANGED pc, NEW t \in Procs PROVE Live(t) <=> Live(t)'
    BY <1>b DEF Live
  <1>1. CASE UNCHANGED vars
    BY <1>1, <1>a, <1>b, OrphanKeep DEF vars, threadVars, flagVars, DrainInv
  <1>2. CASE ClientSchedule
    <2>1. PICK f \in Tasks, thread \in KnownThreads : schedule(f, thread)
      BY <1>2 DEF ClientSchedule
    <2>2. UNCHANGED <<pc, m_autoStop, idleTerm>>
      BY <1>2 DEF ClientSchedule, threadVars, flagVars
    <2>3. NoOrphan'
      BY <1>2, <1>b, <2>1, <2>2, OwnerServed, OrphanAppend DEF ClientSchedule, DrainInv
    <2>4. QED
      BY <1>a, <2>2, <2>3
  <1>3. CASE ClientScheduleBatch
    <2>1. PICK f \in Tasks, g \in Tasks : scheduleBatch(f, g)
      BY <1>3 DEF ClientScheduleBatch
    <2>2. UNCHANGED <<pc, m_autoStop, idleTerm>>
      BY <1>3 DEF ClientScheduleBatch, threadVars, flagVars
    <2>3. PICK u \in Procs : Live(u)
      BY <1>3, OwnerServed DEF ClientScheduleBatch, KnownThreads
    <2>4. \A j \in 1..Len(m_fibers') :
             \/ \E i \in 1..Len(m_fibers) : m_fibers'[j] = m_fibers[i]
             \/ m_fibers'[j].thread = AnyThread
      <3> DEFINE e == << [task |-> f, thread |-> AnyThread], [task |-> g, thread |-> AnyThread] >>
                 n == Len(m_fibers)
      <3>1. e \in Seq(Entry) /\ Len(e) = 2 /\ e[1].thread = AnyThread /\ e[2].thread = AnyThread
        BY DEF Entry
      <3>2. m_fibers \in Seq(Entry) /\ n \in Nat /\ m_fibers' = m_fibers \o e
        BY <2>1 DEF TypeOK, scheduleBatch
      <3> HIDE DEF e
      <3>3. /\ Len(m_fibers \o e) = Len(m_fibers) + Len(e)
            /\ \A i \in 1..(Len(m_fibers) + Len(e)) :
                  (m_fibers \o e)[i] = IF i <= Len(m_fibers) THEN m_fibers[i] ELSE e[i - Len(m_fibers)]
        BY <3>1, <3>2, ConcatProperties
      <3>4. ASSUME NEW j \in 1..Len(m_fibers'), ~(j <= n) PROVE m_fibers'[j].thread = AnyThread
        <4>1. j - n \in {1, 2}
          BY <3>1, <3>2, <3>3, <3>4
        <4>2. m_fibers'[j] = e[j - n]
          BY <3>1, <3>2, <3>3, <3>4
        <4>3. QED
          BY <3>1, <4>1, <4>2
      <3>5. ASSUME NEW j \in 1..Len(m_fibers'), j <= n PROVE j \in 1..n /\ m_fibers'[j] = m_fibers[j]
        BY <3>1, <3>2, <3>3, <3>5
      <3>6. QED
        BY <3>4, <3>5
    <2>5. NoOrphan'
      BY <1>b, <2>2, <2>3, <2>4 DEF NoOrphan, DrainInv
    <2>6. QED
      BY <1>a, <2>2, <2>5
  <1>4. CASE ClientWake
    <2>1. PICK f \in Tasks : schedule(f, AnyThread)
      BY <1>4 DEF ClientWake, wake
    <2>2. UNCHANGED <<pc, m_autoStop, idleTerm>>
      BY <1>4 DEF ClientWake, threadVars, flagVars
    <2>3. AnyThread \in KnownThreads
      BY DEF KnownThreads
    <2>4. NoOrphan'
      BY <1>4, <1>b, <2>1, <2>2, <2>3, OwnerServed, OrphanAppend DEF ClientWake, DrainInv
    <2>5. QED
      BY <1>a, <2>2, <2>4
  <1>5. CASE start
    <2>1. UNCHANGED <<m_fibers, m_autoStop, idleTerm>>
          /\ \A t \in Procs : pc'[t] = IF t = Root THEN "client" ELSE "loop"
      BY <1>5 DEF start
    <2>2. \A t \in Procs : Live(t) => Live(t)'
      BY <2>1 DEF Live
    <2>3. NoOrphan'
      BY <2>1, <2>2, OrphanKeep DEF DrainInv
    <2>4. ~m_autoStop
      BY <1>5 DEF start, DrainInv
    <2>5. QED
      BY <1>0, <2>1, <2>3, <2>4 DEF DrainInv, RunPoints
  <1>6. CASE StopBegin \/ stop
    <2>1. UNCHANGED <<m_fibers, idleTerm>> /\ \A t \in Workers : pc'[t] = pc[t]
      BY <1>0, <1>6 DEF StopBegin, stop, StopEarly, StopSet, StopCheck, Join
    <2>2. NoOrphan'
      <3>1. CASE m_fibers = <<>>
        BY <2>1, <3>1 DEF NoOrphan
      <3>2. CASE m_fibers # <<>>
        <4>1. Live(Root) => Live(Root)'
          BY <1>0, <1>6, <3>2
          DEF StopBegin, stop, StopEarly, StopSet, StopCheck, Join, stopping, Live
        <4>2. \A t \in Procs : Live(t) => Live(t)'
          BY <2>1, <4>1 DEF Live, Procs
        <4>3. QED
          BY <2>1, <4>2, OrphanKeep DEF DrainInv
      <3>3. QED
        BY <3>1, <3>2
    <2>3. m_autoStop' = TRUE \/ m_autoStop' = m_autoStop
      BY <1>6 DEF StopBegin, stop, StopEarly, StopSet, StopCheck, Join, flagVars
    <2>4. pc'[Root] \notin {"new", "client"}
      BY <1>0, <1>6 DEF StopBegin, stop, StopEarly, StopSet, StopCheck, Join
    <2>5. /\ pc'[Root] \in RunPoints => UseCaller
          /\ pc'[Root] = "stopEarly" => Workers = {}
          /\ pc'[Root] = "stopped" => \A t \in Workers : pc'[t] = "exited"
      BY <1>0, <1>6, <2>1
      DEF StopBegin, stop, StopEarly, StopSet, StopCheck, Join, DrainInv, RunPoints
    <2>6. QED
      BY <1>6, <2>1, <2>2, <2>3, <2>4, <2>5 DEF DrainInv
  <1>7. CASE Terminated
    BY <1>1, <1>7 DEF Terminated
  <1>8. ASSUME NEW t \in Procs, run(t) PROVE DrainInv'
    <2>1. Live(t)
      BY <1>8 DEF run, Pick, DropFinished, SwapIn, SwapBack, Settle, EnterIdle, LeaveIdle, Exit,
            TaskSchedule, TaskWake, Arm, YieldToHold, YieldToReady, MainFunc, DrainInv, RunPoints, Live
    <2>2. CASE Exit(t)
      <3>1. m_autoStop /\ UNCHANGED <<m_fibers, m_autoStop, idleTerm>>
        BY <2>2 DEF Exit, DrainInv, flagVars
      <3>2. /\ pc'[t] = IF t = Root THEN "join" ELSE "exited"
            /\ \A u \in Procs \ {t} : pc'[u] = pc[u]
        BY <1>0, <2>2 DEF Exit
      <3>3. ASSUME NEW i \in 1..Len(m_fibers)
            PROVE  \E u \in Procs : Live(u)' /\ m_fibers[i].thread \in {AnyThread, u}
        <4>1. m_state[m_fibers[i].task] # "EXEC"
          <5>1. m_fibers[i].task \in QueuedTasks
            BY EntryTasks DEF QueuedTasks, Queued
          <5>2. QED
            BY <5>1, EntryTasks DEF OwnerInv
        <4>2. m_fibers[i].thread \notin {AnyThread, t}
          BY <2>2, <4>1 DEF Exit, NothingFor, Eligible
        <4>3. PICK u \in Procs : Live(u) /\ m_fibers[i].thread \in {AnyThread, u}
          BY DEF DrainInv, NoOrphan
        <4>4. u # t /\ Live(u)'
          BY <3>2, <4>2, <4>3 DEF Live
        <4>5. QED
          BY <4>3, <4>4
      <3>4. NoOrphan'
        BY <3>1, <3>3 DEF NoOrphan
      <3>5. QED
        BY <1>0, <2>2, <3>1, <3>2, <3>4 DEF DrainInv, RunPoints, Exit
    <2>3. CASE ~Exit(t)
      <3>1. /\ pc[t] \in RunPoints /\ pc'[t] \in RunPoints
            /\ \A u \in Procs \ {t} : pc'[u] = pc[u]
            /\ m_autoStop' = m_autoStop
        BY <1>0, <1>8, <2>3
        DEF run, Pick, DropFinished, SwapIn, SwapBack, Settle, EnterIdle, LeaveIdle,
            TaskSchedule, TaskWake, Arm, YieldToHold, YieldToReady, MainFunc,
            RunPoints, threadVars, flagVars
      <3>2. \A u \in Procs : Live(u) => Live(u)'
        BY <2>1, <3>1 DEF Live, RunPoints
      <3>3. idleTerm' # {} => m_autoStop
        BY <1>8, <2>3
        DEF run, Pick, DropFinished, SwapIn, SwapBack, Settle, EnterIdle, LeaveIdle,
            TaskSchedule, TaskWake, Arm, YieldToHold, YieldToReady, MainFunc,
            threadVars, DrainInv, stopping
      <3>4. NoOrphan'
        <4>1. CASE m_fibers' = m_fibers
          BY <3>2, <4>1, OrphanKeep DEF DrainInv
        <4>2. CASE Pick(t)
          <5>1. PICK i \in 1..Len(m_fibers) : m_fibers' = RemoveAt(m_fibers, i)
            BY <4>2 DEF Pick
          <5>2. /\ Len(m_fibers') = Len(m_fibers) - 1 /\ Len(m_fibers) \in Nat
                /\ \A j \in 1..(Len(m_fibers) - 1) :
                      m_fibers'[j] = IF j < i THEN m_fibers[j] ELSE m_fibers[j + 1]
            <6>1. m_fibers \in Seq(Entry) /\ Len(m_fibers) \in Nat
              BY DEF TypeOK
            <6>2. QED
              BY ONLY <5>1, <6>1, i \in 1..Len(m_fibers), RemoveAtEntries
          <5>3. \A j \in 1..Len(m_fibers') : \E k \in 1..Len(m_fibers) : m_fibers'[j] = m_fibers[k]
            BY <5>2
          <5>4. QED
            BY <3>2, <5>3, OrphanKeep DEF DrainInv
        <4>3. ASSUME NEW f \in Tasks, NEW thread \in PinTargets, schedule(f, thread) PROVE NoOrphan'
          <5>1. thread = AnyThread \/ (thread \in Procs /\ Live(thread))
            BY PinTargetsKnown
          <5>2. \E u \in Procs : Live(u) /\ thread \in {AnyThread, u}
            BY <2>1, <5>1
          <5>3. QED
            BY <3>2, <4>3, <5>2, PinTargetsKnown, OrphanAppend DEF DrainInv
        <4>a. AnyThread \in PinTargets
          BY DEF PinTargets, KnownThreads
        <4>4. CASE Settle(t)
          <5>1. cur[t] \in Tasks
            BY <4>4 DEF Settle, CurHeld, Holding, TypeOK
          <5>2. QED
            BY <4>1, <4>3, <4>a, <4>4, <5>1 DEF Settle
        <4>5. CASE TaskSchedule(t) \/ TaskWake(t)
          BY <4>3, <4>a, <4>5 DEF TaskSchedule, TaskWake, wake
        <4>6. QED
          BY <1>8, <2>3, <4>1, <4>2, <4>4, <4>5
          DEF run, DropFinished, SwapIn, SwapBack, EnterIdle, LeaveIdle,
              Arm, YieldToHold, YieldToReady, MainFunc
      <3>5. QED
        BY <1>0, <3>1, <3>3, <3>4 DEF DrainInv, RunPoints
    <2>4. QED
      BY <2>2, <2>3
  <1>9. QED
    BY <1>1, <1>2, <1>3, <1>4, <1>5, <1>6, <1>7, <1>8 DEF Next, Client

\* An empty queue at the end of stop(): no live thread is left to serve an entry.
LEMMA DrainImplies ==
  ASSUME TypeInv, DrainInv
  PROVE  NoOrphan /\ DrainedOnStop
  <1>1. ASSUME pc[Root] = "stopped"
        PROVE  m_fibers = <<>> /\ \A t \in Procs : cur[t] = NoTask
    <2>1. \A t \in Procs : ~Live(t) /\ pc[t] \notin Holding
      BY <1>1 DEF DrainInv, Live, Procs, Holding
    <2>2. Len(m_fibers) = 0
      <3>1. Len(m_fibers) \in Nat
        BY DEF TypeInv, TypeOK
      <3>2. 1 \notin 1..Len(m_fibers)
        BY <2>1 DEF DrainInv, NoOrphan
      <3>3. QED
        BY <3>1, <3>2
    <2>3. m_fibers = <<>>
      BY <2>2 DEF TypeInv, TypeOK
    <2>4. QED
      BY <2>1, <2>3 DEF TypeInv, CurHeld
  <1>2. QED
    BY <1>1 DEF DrainInv, DrainedOnStop

\* The three invariants together.
LEMMA DrainAlways ==
  ASSUME ~EarlyWake, ~LatePins
  PROVE  Spec => [](TypeInv /\ OwnerInv /\ DrainInv)
  <1>1. Init => TypeInv /\ OwnerInv /\ DrainInv
    BY TypeInit, OwnerInit, DrainInit
  <1>2. TypeInv /\ OwnerInv /\ DrainInv /\ [Next]_vars => (TypeInv /\ OwnerInv /\ DrainInv)'
    BY TypeNext, OwnerNext, DrainNext
  <1>3. QED
    BY <1>1, <1>2, PTL DEF Spec

\* Every entry of the queue has a thread that will come for it, although a thread
\* requeues a READY fiber only after it has stopped counting as active
\* (Scheduler::run), which lets the others leave - also an entry that a task pins
\* to another thread, as long as that thread has not left run() yet.
THEOREM EntriesServed ==
  ASSUME ~EarlyWake, ~LatePins
  PROVE  Spec => []NoOrphan
  <1>1. TypeInv /\ DrainInv => NoOrphan
    BY DrainImplies
  <1>2. QED
    BY <1>1, DrainAlways, PTL

\* stop() returns only after every task submitted before it, and every task
\* those submit to threads still in run(), was taken from the queue and settled.
THEOREM StopDrains ==
  ASSUME ~EarlyWake, ~LatePins
  PROVE  Spec => []DrainedOnStop
  <1>1. TypeInv /\ DrainInv => DrainedOnStop
    BY DrainImplies
  <1>2. QED
    BY <1>1, DrainAlways, PTL
=============================================================================
