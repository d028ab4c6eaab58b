------------------------------- MODULE IoManager -------------------------------
(***************************************************************************)
(* The epoll scheduler (lyslg/iomanager.{h,cc}): file descriptor contexts,   *)
(* the registrations in the kernel, the events pending, and when a thread    *)
(* may leave idle().                                                         *)
(*                                                                           *)
(* A task is a fiber, which waits for an event or a timer by parking, or a   *)
(* callback, which another task registers for an event (one that waits runs  *)
(* on a fiber of its own, and is a fiber here).  The queue of the            *)
(* scheduler and the set of timers are the ones of Scheduler and             *)
(* TimerManager, without order and without time.  One action is one critical *)
(* section of a mutex, or one access to an atomic.                           *)
(***************************************************************************)
EXTENDS Integers, FiniteSets

CONSTANTS
    Threads,     \* threads in Scheduler::run
    Fds,         \* file descriptors
    Fibers,      \* tasks that are fibers
    Callbacks,   \* tasks that are std::function<void()>
    None,        \* nullptr
    MaxGens,     \* bound on how often the FdContext of a descriptor is replaced
    Reported     \* what epoll_wait reports: "ready", "error" (EPOLLERR, EPOLLHUP)

Tasks == Fibers \cup Callbacks
InitSize == 32                  \* the constructor's contextResize(32)
Events == {"READ", "WRITE"}
Gens == 0..MaxGens              \* the FdContexts made for one descriptor
Contexts == Fds \X Gens

ASSUME IoAssumption ==
    /\ Fds \subseteq Nat /\ IsFiniteSet(Fds) /\ MaxGens \in Nat
    /\ IsFiniteSet(Threads) /\ Threads # {}
    /\ Fibers \cap Callbacks = {} /\ None \notin Tasks \cup Contexts
    /\ Reported \subseteq {"ready", "error"}

VARIABLES
    m_size,              \* m_fdContexts.size()
    slot,                \* which FdContext m_fdContexts[fd] points to
    events,              \* FdContext::events
    held,                \* EventContext: the task to schedule, or None
    epoll,               \* the kernel's registration: [ptr, mask], or None
    m_pendingEventCount,
    m_fibers,            \* tasks queued in the scheduler
    timers,              \* fibers waiting for a timer
    fresh,               \* tasks nobody has submitted
    over,                \* tasks that have finished or were deleted
    stopRequested,       \* m_autoStop /\ m_stopping
    pc, cur,             \* per thread: program point, the task it executes
    call,                \* per thread: the call in progress
    batch,               \* per thread: what epoll_wait reported
    expired,             \* per thread: callbacks listExpiredCb collected
    idleTerm,            \* threads whose idle fiber has terminated
    aborted              \* the assertion that failed, or "none"

ctxVars   == <<m_size, slot, events, held, epoll, m_pendingEventCount>>
schedVars == <<m_fibers, timers, fresh, over, stopRequested>>
thrVars   == <<pc, cur, call, batch, expired, idleTerm>>
vars == <<ctxVars, schedVars, thrVars, aborted>>

NoCall == [fd |-> 0, event |-> "READ", task |-> None, ctx |-> None, todo |-> {}, back |-> "task"]

TaskPoints == {"task", "resize", "add", "del", "cancel", "cancelAll", "park"}
IdlePoints == {"timer?", "pending?", "queue?", "wait", "expire", "reschedule", "events"}
TriggerPoints == {"trigger", "triggered"}

TypeOK ==
    /\ m_size \in Nat /\ slot \in [Fds -> Gens]
    /\ events \in [Contexts -> SUBSET Events]
    /\ held \in [Contexts -> [Events -> Tasks \cup {None}]]
    /\ epoll \in [Fds -> {None} \cup [ptr : Contexts, mask : SUBSET Events]]
    /\ m_pendingEventCount \in Nat
    /\ m_fibers \subseteq Tasks /\ timers \subseteq Fibers
    /\ fresh \subseteq Tasks /\ over \subseteq Tasks
    /\ stopRequested \in BOOLEAN
    /\ pc \in [Threads -> TaskPoints \cup IdlePoints \cup TriggerPoints \cup {"loop", "exited"}]
    /\ cur \in [Threads -> Tasks \cup {None}]
    /\ call \in [Threads -> [fd : Fds \cup {0}, event : Events, task : Tasks \cup {None},
                             ctx : Contexts \cup {None}, todo : SUBSET Events,
                             back : {"task", "events"}]]
    /\ batch \in [Threads -> SUBSET [ptr : Contexts, real : SUBSET Events]]
    /\ expired \in [Threads -> SUBSET Fibers]
    /\ idleTerm \subseteq Threads
    /\ aborted \in {"none", "triggerEvent", "addEvent", "~Fiber"}

Init ==
    /\ m_size = InitSize /\ slot = [fd \in Fds |-> 0]
    /\ events = [c \in Contexts |-> {}]
    /\ held = [c \in Contexts |-> [e \in Events |-> None]]
    /\ epoll = [fd \in Fds |-> None]
    /\ m_pendingEventCount = 0
    /\ m_fibers = {} /\ timers = {} /\ fresh = Tasks /\ over = {}
    /\ stopRequested = FALSE
    /\ pc = [t \in Threads |-> "loop"] /\ cur = [t \in Threads |-> None]
    /\ call = [t \in Threads |-> NoCall]
    /\ batch = [t \in Threads |-> {}] /\ expired = [t \in Threads |-> {}]
    /\ idleTerm = {} /\ aborted = "none"

Goto(t, point) == pc' = [pc EXCEPT ![t] = point]
OnThread(f) == \E t \in Threads : cur[t] = f

\* FdContext::mutex: a thread that triggers events holds it until it is done.
Unlocked(c) == \A t \in Threads : ~(pc[t] \in TriggerPoints /\ call[t].ctx = c)

\* Threads from taking a task to switching back (m_activeThreadCount of them).
Active == {t \in Threads : cur[t] # None}

\* The references to a task, the one of the thread that executes it aside.
Waiting(f) == {p \in Contexts \X Events : held[p[1]][p[2]] = f}
Places(f) ==
    Cardinality(Waiting(f))
    + (IF f \in m_fibers THEN 1 ELSE 0)
    + (IF f \in timers THEN 1 ELSE 0)
    + Cardinality({t \in Threads : f \in expired[t]})

(***************************************************************************)
(* The kernel's side of epoll_ctl.  op is ADD when the context had no event, *)
(* DEL when it will have none, MOD otherwise; ADD must fail on a descriptor  *)
(* that is registered, MOD and DEL on one that is not.  Every call may also  *)
(* fail for another reason (ENOMEM, ENOSPC), and then changes nothing.       *)
(***************************************************************************)
epoll_ctl_must_fail(c, old) == (old = {}) <=> (epoll[c[1]] # None)

epoll_ctl(c, mask) ==
    epoll' = [epoll EXCEPT ![c[1]] = IF mask = {} THEN None ELSE [ptr |-> c, mask |-> mask]]

(***************************************************************************)
(* Calls a task makes.  Each looks its FdContext up in m_fdContexts under    *)
(* m_mutex, and then works on it under the context's own mutex.              *)
(***************************************************************************)
Enter(t, point, c) ==
    /\ Goto(t, point)
    /\ call' = [call EXCEPT ![t] = c]
    /\ UNCHANGED <<ctxVars, schedVars, cur, batch, expired, idleTerm, aborted>>

\* Callers do not register a direction of a descriptor twice.
Registering(fd, e) ==
    \/ \E c \in Contexts : c[1] = fd /\ e \in events[c]
    \/ \E t \in Threads : pc[t] \in {"resize", "add"} /\ call[t].fd = fd /\ call[t].event = e

\* addEvent(fd, event) for the calling fiber, addEvent(fd, event, cb) for a callback.
addEventLookup(t) ==
    /\ pc[t] = "task"
    /\ \E fd \in Fds, e \in Events, f \in Tasks :
          /\ ~Registering(fd, e)
          /\ f \in ({cur[t]} \cap Fibers) \cup (fresh \cap Callbacks)
          /\ \A u \in Threads : call[u].task # f
          /\ IF m_size > fd
               THEN Enter(t, "add", [NoCall EXCEPT !.fd = fd, !.event = e, !.task = f,
                                                   !.ctx = <<fd, slot[fd]>>])
               ELSE Enter(t, "resize", [NoCall EXCEPT !.fd = fd, !.event = e, !.task = f])

\* contextResize(fd * 1.5) under the write lock, whatever the size is by now: a
\* descriptor beyond it loses its FdContext, and gets a new one later.
contextResize(t) ==
    LET size == (call[t].fd * 3) \div 2 IN
    /\ pc[t] = "resize"
    /\ m_size' = size
    /\ slot' = [fd \in Fds |-> IF fd < m_size /\ fd >= size THEN slot[fd] + 1 ELSE slot[fd]]
    /\ slot' \in [Fds -> Gens]
    /\ call' = [call EXCEPT ![t].ctx = <<call[t].fd, slot[call[t].fd]>>]
    /\ Goto(t, "add")
    /\ UNCHANGED <<events, held, epoll, m_pendingEventCount, schedVars,
                   cur, batch, expired, idleTerm, aborted>>

\* The assertion that the event is free, then epoll_ctl, and the entry if it succeeds.
addEvent(t) ==
    LET c == call[t].ctx
        e == call[t].event
        f == call[t].task
    IN
    /\ pc[t] = "add"
    /\ Unlocked(c)
    /\ call' = [call EXCEPT ![t] = NoCall]
    /\ \/ /\ e \notin events[c]
          /\ Goto(t, "task") /\ UNCHANGED <<ctxVars, fresh, aborted>>
       \/ /\ e \in events[c] \/ ~epoll_ctl_must_fail(c, events[c])
          /\ epoll_ctl(c, events[c] \cup {e})
          /\ m_pendingEventCount' = m_pendingEventCount + 1
          /\ events' = [events EXCEPT ![c] = @ \cup {e}]
          /\ aborted' = IF e \in events[c] \/ held[c][e] # None THEN "addEvent" ELSE aborted
          /\ held' = [held EXCEPT ![c][e] = f]
          /\ fresh' = fresh \ {f}
          /\ Goto(t, IF f = cur[t] THEN "park" ELSE "task")
          /\ UNCHANGED <<m_size, slot>>
    /\ UNCHANGED <<m_fibers, timers, over, stopRequested, cur, batch, expired, idleTerm>>

\* delEvent, cancelEvent and cancelAll return at once for an unknown descriptor.
lookup(t) ==
    /\ pc[t] = "task"
    /\ \E fd \in Fds, e \in Events, point \in {"del", "cancel", "cancelAll"} :
          /\ m_size > fd
          /\ Enter(t, point, [NoCall EXCEPT !.fd = fd, !.event = e, !.ctx = <<fd, slot[fd]>>])

\* The event is not there, or epoll_ctl fails: the call returns false.
ReturnFalse(t) ==
    LET c == call[t].ctx IN
    /\ pc[t] \in {"del", "cancel", "cancelAll"}
    /\ Unlocked(c)
    /\ Enter(t, "task", NoCall)

\* Variant: the event is not looked up in the context.
delEventUnchecked(t) ==
    LET c == call[t].ctx
        e == call[t].event
    IN
    /\ pc[t] = "del"
    /\ Unlocked(c) /\ epoll[c[1]] # None
    /\ epoll_ctl(c, events[c] \ {e})
    /\ m_pendingEventCount' = m_pendingEventCount - 1
    /\ events' = [events EXCEPT ![c] = @ \ {e}]
    /\ held' = [held EXCEPT ![c][e] = None]
    /\ aborted' = IF held[c][e] \in Fibers /\ ~OnThread(held[c][e]) THEN "~Fiber" ELSE aborted
    /\ over' = over \cup ({held[c][e]} \cap Callbacks)
    /\ call' = [call EXCEPT ![t] = NoCall]
    /\ Goto(t, "task")
    /\ UNCHANGED <<m_size, slot, m_fibers, timers, fresh, stopRequested,
                   cur, batch, expired, idleTerm>>

\* delEvent drops the task.  The last reference to a parked fiber goes with it,
\* which ~Fiber does not accept.
delEvent(t) ==
    LET c == call[t].ctx
        e == call[t].event
    IN
    /\ pc[t] = "del"
    /\ Unlocked(c) /\ e \in events[c] /\ epoll[c[1]] # None
    /\ epoll_ctl(c, events[c] \ {e})
    /\ m_pendingEventCount' = m_pendingEventCount - 1
    /\ events' = [events EXCEPT ![c] = @ \ {e}]
    /\ held' = [held EXCEPT ![c][e] = None]
    /\ aborted' = IF held[c][e] \in Fibers /\ ~OnThread(held[c][e]) THEN "~Fiber" ELSE aborted
    /\ over' = over \cup ({held[c][e]} \cap Callbacks)
    /\ call' = [call EXCEPT ![t] = NoCall]
    /\ Goto(t, "task")
    /\ UNCHANGED <<m_size, slot, m_fibers, timers, fresh, stopRequested,
                   cur, batch, expired, idleTerm>>

\* cancelEvent and cancelAll take the events out of the kernel, then trigger them.
cancelEvent(t) ==
    LET c == call[t].ctx
        S == IF pc[t] = "cancelAll" THEN events[c] ELSE {call[t].event}
    IN
    /\ pc[t] \in {"cancel", "cancelAll"}
    /\ Unlocked(c) /\ S # {} /\ S \subseteq events[c] /\ epoll[c[1]] # None
    /\ epoll_ctl(c, events[c] \ S)
    /\ call' = [call EXCEPT ![t].todo = S, ![t].back = "task"]
    /\ Goto(t, "trigger")
    /\ UNCHANGED <<m_size, slot, events, held, m_pendingEventCount, schedVars,
                   cur, batch, expired, idleTerm, aborted>>

(***************************************************************************)
(* FdContext::triggerEvent, READ before WRITE, and the decrement of the      *)
(* pending count that follows it, under the context's mutex.                 *)
(***************************************************************************)
NextEvent(t) == IF "READ" \in call[t].todo THEN "READ" ELSE "WRITE"

\* Variant: the event stays armed when its task is scheduled.
triggerEventArmed(t) ==
    LET c == call[t].ctx
        e == NextEvent(t)
    IN
    /\ pc[t] = "trigger"
    /\ IF e \notin events[c]
         THEN aborted' = "triggerEvent" /\ UNCHANGED <<events, held, m_fibers>>
         ELSE /\ m_fibers' = m_fibers \cup {held[c][e]}
              /\ UNCHANGED <<events, held, aborted>>
    /\ Goto(t, "triggered")
    /\ UNCHANGED <<m_size, slot, epoll, m_pendingEventCount, timers, fresh, over, stopRequested,
                   cur, call, batch, expired, idleTerm>>

triggerEvent(t) ==
    LET c == call[t].ctx
        e == NextEvent(t)
    IN
    /\ pc[t] = "trigger"
    /\ IF e \notin events[c]
         THEN aborted' = "triggerEvent" /\ UNCHANGED <<events, held, m_fibers>>
         ELSE /\ events' = [events EXCEPT ![c] = @ \ {e}]
              /\ m_fibers' = m_fibers \cup {held[c][e]}
              /\ held' = [held EXCEPT ![c][e] = None]
              /\ UNCHANGED aborted
    /\ Goto(t, "triggered")
    /\ UNCHANGED <<m_size, slot, epoll, m_pendingEventCount, timers, fresh, over, stopRequested,
                   cur, call, batch, expired, idleTerm>>

\* Variant: one decrement for all the events of the call.
TriggeredOnce(t) ==
    LET left == call[t].todo \ {NextEvent(t)} IN
    /\ pc[t] = "triggered"
    /\ m_pendingEventCount' = m_pendingEventCount - (IF left = {} THEN 1 ELSE 0)
    /\ call' = [call EXCEPT ![t] = IF left = {} THEN NoCall ELSE [@ EXCEPT !.todo = left]]
    /\ Goto(t, IF left = {} THEN call[t].back ELSE "trigger")
    /\ UNCHANGED <<m_size, slot, events, held, epoll, schedVars,
                   cur, batch, expired, idleTerm, aborted>>

Triggered(t) ==
    LET left == call[t].todo \ {NextEvent(t)} IN
    /\ pc[t] = "triggered"
    /\ m_pendingEventCount' = m_pendingEventCount - 1
    /\ call' = [call EXCEPT ![t] = IF left = {} THEN NoCall ELSE [@ EXCEPT !.todo = left]]
    /\ Goto(t, IF left = {} THEN call[t].back ELSE "trigger")
    /\ UNCHANGED <<m_size, slot, events, held, epoll, schedVars,
                   cur, batch, expired, idleTerm, aborted>>

(***************************************************************************)
(* Tasks and the run loop, as far as idle() and the events depend on them.   *)
(***************************************************************************)
\* A hooked sleep: a timer will schedule the fiber.
Sleep(t) ==
    /\ pc[t] = "task" /\ cur[t] \in Fibers
    /\ timers' = timers \cup {cur[t]}
    /\ Goto(t, "park")
    /\ UNCHANGED <<ctxVars, m_fibers, fresh, over, stopRequested, cur, call, batch, expired,
                   idleTerm, aborted>>

\* The fiber has yielded to HOLD and run() drops its reference: the last one, if
\* delEvent has come in between.
YieldToHold(t) ==
    /\ pc[t] = "park"
    /\ aborted' = IF Places(cur[t]) = 0 THEN "~Fiber" ELSE aborted
    /\ cur' = [cur EXCEPT ![t] = None]
    /\ Goto(t, "loop")
    /\ UNCHANGED <<ctxVars, schedVars, call, batch, expired, idleTerm>>

Finish(t) ==
    /\ pc[t] = "task"
    /\ over' = over \cup {cur[t]}
    /\ cur' = [cur EXCEPT ![t] = None]
    /\ Goto(t, "loop")
    /\ UNCHANGED <<ctxVars, m_fibers, timers, fresh, stopRequested, call, batch, expired,
                   idleTerm, aborted>>

\* A fiber that is still executing is skipped.
Pick(t) ==
    /\ pc[t] = "loop"
    /\ \E f \in m_fibers :
          /\ ~OnThread(f)
          /\ m_fibers' = m_fibers \ {f}
          /\ cur' = [cur EXCEPT ![t] = f]
    /\ Goto(t, "task")
    /\ UNCHANGED <<ctxVars, timers, fresh, over, stopRequested, call, batch, expired, idleTerm, aborted>>

NothingToPick == \A f \in m_fibers : OnThread(f)

EnterIdle(t) ==
    /\ pc[t] = "loop" /\ NothingToPick /\ t \notin idleTerm
    /\ Goto(t, "timer?")
    /\ UNCHANGED <<ctxVars, schedVars, cur, call, batch, expired, idleTerm, aborted>>

Exit(t) ==
    /\ pc[t] = "loop" /\ NothingToPick /\ t \in idleTerm
    /\ Goto(t, "exited")
    /\ UNCHANGED <<ctxVars, schedVars, cur, call, batch, expired, idleTerm, aborted>>

schedule ==
    /\ ~stopRequested
    /\ \E f \in fresh :
          /\ \A t \in Threads : call[t].task # f
          /\ fresh' = fresh \ {f} /\ m_fibers' = m_fibers \cup {f}
    /\ UNCHANGED <<ctxVars, timers, over, stopRequested, thrVars, aborted>>

stop ==
    /\ ~stopRequested
    /\ stopRequested' = TRUE
    /\ UNCHANGED <<ctxVars, m_fibers, timers, fresh, over, thrVars, aborted>>

(***************************************************************************)
(* IoManager::idle.  stopping() reads the timers, the pending count and the  *)
(* queue one after the other.                                                *)
(***************************************************************************)
stoppingTimer(t) ==
    /\ pc[t] = "timer?"
    /\ Goto(t, IF timers = {} THEN "pending?" ELSE "wait")
    /\ UNCHANGED <<ctxVars, schedVars, cur, call, batch, expired, idleTerm, aborted>>

stoppingPending(t) ==
    /\ pc[t] = "pending?"
    /\ Goto(t, IF m_pendingEventCount = 0 THEN "queue?" ELSE "wait")
    /\ UNCHANGED <<ctxVars, schedVars, cur, call, batch, expired, idleTerm, aborted>>

\* Variant: a stop request ends the thread, whatever is queued by now.
stoppingAtOnce(t) ==
    /\ pc[t] = "queue?"
    /\ Goto(t, IF stopRequested THEN "exited" ELSE "wait")
    /\ UNCHANGED <<ctxVars, schedVars, cur, call, batch, expired, idleTerm, aborted>>

stoppingQueue(t) ==
    LET stopping == stopRequested /\ m_fibers = {} /\ Active = {} IN
    /\ pc[t] = "queue?"
    /\ idleTerm' = IF stopping THEN idleTerm \cup {t} ELSE idleTerm
    /\ Goto(t, IF stopping THEN "loop" ELSE "wait")
    /\ UNCHANGED <<ctxVars, schedVars, cur, call, batch, expired, aborted>>

\* What may be reported for a registered descriptor: some of what it waits for,
\* or an error, which idle() turns into both events.
Reports(fd) ==
    {[ptr |-> epoll[fd].ptr, real |-> S] :
        S \in (IF "ready" \in Reported THEN SUBSET epoll[fd].mask \ {{}} ELSE {})
              \cup (IF "error" \in Reported THEN {Events} ELSE {})}

\* epoll_wait returns with reports, or without any on timeout or tickle.
epoll_wait(t) ==
    /\ pc[t] = "wait"
    /\ \E S \in SUBSET {fd \in Fds : epoll[fd] # None} :
          \E b \in [S -> UNION {Reports(fd) : fd \in S}] :
             /\ \A fd \in S : b[fd] \in Reports(fd)
             /\ batch' = [batch EXCEPT ![t] = {b[fd] : fd \in S}]
    /\ Goto(t, "expire")
    /\ UNCHANGED <<ctxVars, schedVars, cur, call, expired, idleTerm, aborted>>

listExpiredCb(t) ==
    /\ pc[t] = "expire"
    /\ \E S \in SUBSET timers :
          /\ timers' = timers \ S
          /\ expired' = [expired EXCEPT ![t] = S]
    /\ Goto(t, "reschedule")
    /\ UNCHANGED <<ctxVars, m_fibers, fresh, over, stopRequested, cur, call, batch, idleTerm, aborted>>

scheduleExpired(t) ==
    /\ pc[t] = "reschedule"
    /\ m_fibers' = m_fibers \cup expired[t]
    /\ expired' = [expired EXCEPT ![t] = {}]
    /\ Goto(t, "events")
    /\ UNCHANGED <<ctxVars, timers, fresh, over, stopRequested, cur, call, batch, idleTerm, aborted>>

\* Variant: the kernel keeps watching what was reported.
processReportWatched(t) ==
    /\ pc[t] = "events"
    /\ \E r \in batch[t] :
          LET c == r.ptr IN
          /\ Unlocked(c)
          /\ batch' = [batch EXCEPT ![t] = @ \ {r}]
          /\ IF events[c] \cap r.real = {}
               THEN UNCHANGED <<call, pc>>
               ELSE /\ call' = [call EXCEPT ![t] =
                          [NoCall EXCEPT !.ctx = c, !.todo = r.real, !.back = "events"]]
                    /\ Goto(t, "trigger")
    /\ UNCHANGED <<m_size, slot, events, held, epoll, m_pendingEventCount, schedVars,
                   cur, expired, idleTerm, aborted>>

\* One report: skipped when none of its events is registered any more, or when
\* epoll_ctl fails; otherwise all its events are triggered.
processReport(t) ==
    /\ pc[t] = "events"
    /\ \E r \in batch[t] :
          LET c == r.ptr IN
          /\ Unlocked(c)
          /\ batch' = [batch EXCEPT ![t] = @ \ {r}]
          /\ \/ UNCHANGED <<epoll, call, pc>>
             \/ /\ events[c] \cap r.real # {} /\ epoll[c[1]] # None
                /\ epoll_ctl(c, events[c] \ r.real)
                /\ call' = [call EXCEPT ![t] =
                      [NoCall EXCEPT !.ctx = c, !.todo = r.real, !.back = "events"]]
                /\ Goto(t, "trigger")
    /\ UNCHANGED <<m_size, slot, events, held, m_pendingEventCount, schedVars,
                   cur, expired, idleTerm, aborted>>

idleSwapOut(t) ==
    /\ pc[t] = "events" /\ batch[t] = {}
    /\ Goto(t, "loop")
    /\ UNCHANGED <<ctxVars, schedVars, cur, call, batch, expired, idleTerm, aborted>>

-----------------------------------------------------------------------------

task(t) ==
    \/ addEventLookup(t) \/ contextResize(t) \/ addEvent(t)
    \/ lookup(t) \/ ReturnFalse(t) \/ delEvent(t) \/ cancelEvent(t)
    \/ Sleep(t) \/ YieldToHold(t) \/ Finish(t)

idle(t) ==
    \/ stoppingTimer(t) \/ stoppingPending(t) \/ stoppingQueue(t)
    \/ epoll_wait(t) \/ listExpiredCb(t) \/ scheduleExpired(t)
    \/ processReport(t) \/ idleSwapOut(t)

thread(t) ==
    \/ task(t) \/ idle(t) \/ triggerEvent(t) \/ Triggered(t)
    \/ Pick(t) \/ EnterIdle(t) \/ Exit(t)

AllExited == stopRequested /\ \A t \in Threads : pc[t] = "exited"

\* After a failed assertion, and after the last thread's exit, nothing happens.
Over ==
    /\ aborted # "none" \/ AllExited
    /\ UNCHANGED vars

Next ==
    \/ Over
    \/ aborted = "none" /\ (schedule \/ stop \/ \E t \in Threads : thread(t))

Spec == Init /\ [][Next]_vars

-----------------------------------------------------------------------------
(***************************************************************************)
(* Properties.                                                               *)
(***************************************************************************)

\* m_pendingEventCount is the number of registered events, plus the ones
\* triggered whose decrement is still to come: it never wraps below zero and it
\* never keeps stopping() false for an event that is gone.
PendingExact ==
    aborted = "none" =>
      m_pendingEventCount =
        Cardinality({p \in Contexts \X Events : p[2] \in events[p[1]]})
        + Cardinality({t \in Threads : pc[t] = "triggered"})

\* A task that is neither new nor over waits in exactly one place (at most one
\* while it still executes): registering, triggering, cancelling and expiring hand
\* it over, so it is neither scheduled twice, nor lost, nor left in a context
\* where a later addEvent would find it.
OnePlace ==
    aborted = "none" => \A f \in Tasks :
        IF f \in fresh \cup over THEN Places(f) = 0
        ELSE IF OnThread(f) THEN Places(f) <= 1
        ELSE Places(f) = 1

\* The kernel watches a descriptor for the events of its FdContext, and reports
\* them to that FdContext, whenever nobody is inside its mutex.
KernelAgrees ==
    aborted = "none" => \A fd \in Fds :
        LET c == <<fd, slot[fd]>> IN
        Unlocked(c) =>
            epoll[fd] = IF events[c] = {} THEN None ELSE [ptr |-> c, mask |-> events[c]]

\* When every thread has left run(), no task is queued and none is held by a
\* thread that collected its timer or was reported its event, although each
\* thread decides on a view of timers, events and queue that is out of date.
QueueDrained ==
    (AllExited /\ aborted = "none") =>
        /\ m_fibers = {}
        /\ \A t \in Threads : cur[t] = None /\ expired[t] = {} /\ batch[t] = {}

\* hook.cc says of sleep: "suspend the current coroutine, and wake it up to
\* execute again after it has slept".  So a sleeper is not left behind by
\* threads that have all exited.
SleeperWakes == AllExited => timers = {}

\* LYSLG_ASSERT(event & events), the first line of triggerEvent: only an event
\* that is registered is triggered.
TriggerAssert == aborted # "triggerEvent"

\* iomanager.h says of cancelEvent: "if the event exists, it is triggered".  So
\* the FdContext that the kernel knows is the one m_fdContexts leads to.
CancelFinds ==
    aborted = "none" => \A fd \in Fds : epoll[fd] # None =>
        fd < m_size /\ epoll[fd].ptr = <<fd, slot[fd]>>
================================================================================
