------------------------------- MODULE IoProofs -------------------------------
(***************************************************************************)
(* Proofs about IoManager, for any number of threads, descriptors, fibers    *)
(* and callbacks.                                                            *)
(***************************************************************************)
EXTENDS IoManager, FiniteSetTheorems, TLAPS

-----------------------------------------------------------------------------
(***************************************************************************)
(* Types, and what a thread has in its hands at each point.                  *)
(***************************************************************************)

CtxTypes ==
    /\ m_size \in Nat /\ slot \in [Fds -> Gens]
    /\ events \in [Contexts -> SUBSET Events]
    /\ held \in [Contexts -> [Events -> Tasks \cup {None}]]
    /\ epoll \in [Fds -> {None} \cup [ptr : Contexts, mask : SUBSET Events]]

SchedTypes ==
    /\ m_fibers \subseteq Tasks /\ timers \subseteq Fibers
    /\ fresh \subseteq Tasks /\ over \subseteq Tasks
    /\ stopRequested \in BOOLEAN

Calls == [fd : Fds \cup {0}, event : Events, task : Tasks \cup {None},
          ctx : Contexts \cup {None}, todo : SUBSET Events, back : {"task", "events"}]

Points == TaskPoints \cup IdlePoints \cup TriggerPoints \cup {"loop", "exited"}

ThreadTypes ==
    /\ pc \in [Threads -> Points] /\ cur \in [Threads -> Tasks \cup {None}]
    /\ call \in [Threads -> Calls]
    /\ batch \in [Threads -> SUBSET [ptr : Contexts, real : SUBSET Events]]
    /\ expired \in [Threads -> SUBSET Fibers]
    /\ idleTerm \subseteq Threads
    /\ aborted \in {"none", "triggerEvent", "addEvent", "~Fiber"}

Types == CtxTypes /\ SchedTypes /\ ThreadTypes

\* An event is registered in a context exactly when a task waits there for it.
HeldIffArmed == \A c \in Contexts, e \in Events : held[c][e] # None <=> e \in events[c]

\* What thread t has in its hands, by where it is.
Hands(t) ==
    /\ cur[t] # None <=>
          pc[t] \in TaskPoints \/ (pc[t] \in TriggerPoints /\ call[t].back = "task")
    /\ pc[t] # "reschedule" => expired[t] = {}
    /\ batch[t] # {} =>
          \/ pc[t] \in {"expire", "reschedule", "events"}
          \/ pc[t] \in TriggerPoints /\ call[t].back = "events"
    /\ pc[t] \in {"add", "del", "cancel", "cancelAll"} \cup TriggerPoints => call[t].ctx \in Contexts
    /\ pc[t] = "resize" => call[t].fd \in Fds
    /\ pc[t] \in {"resize", "add"} => call[t].task # None
    /\ pc[t] \in TriggerPoints => call[t].todo # {}
    /\ pc[t] = "exited" => t \in idleTerm
    /\ t \in idleTerm => stopRequested

HandInv == \A t \in Threads : Hands(t)

\* The two halves of TypeOK that the steps of threads are about, and the counter.
LEMMA TypeParts == TypeOK <=> Types /\ m_pendingEventCount \in Nat
  BY DEF TypeOK, Types, CtxTypes, SchedTypes, ThreadTypes, Calls, Points

\* The initial values have their types.
LEMMA TypesInit == Init => Types /\ HandInv /\ HeldIffArmed
  <1> SUFFICES ASSUME Init PROVE Types /\ HandInv /\ HeldIffArmed
    OBVIOUS
  <1>1. 0 \in Gens /\ InitSize \in Nat /\ "READ" \in Events
    BY IoAssumption DEF Gens, InitSize, Events
  <1>2. CtxTypes
    BY <1>1, Zenon DEF Init, CtxTypes
  <1>3. SchedTypes
    BY DEF Init, SchedTypes
  <1>4. NoCall \in Calls
    BY <1>1, Zenon DEF NoCall, Calls
  <1>5. ThreadTypes
    BY <1>4, Zenon DEF Init, ThreadTypes, Points
  <1>6. HandInv
    BY DEF Init, HandInv, Hands, TaskPoints, TriggerPoints, NoCall
  <1>7. HeldIffArmed
    BY DEF Init, HeldIffArmed
  <1>8. QED
    BY <1>2, <1>3, <1>5, <1>6, <1>7 DEF Types

\* A step of thread t leaves what the other threads have alone.
OthersAlone(t) ==
    /\ \A u \in Threads \ {t} :
          /\ pc'[u] = pc[u] /\ cur'[u] = cur[u] /\ call'[u] = call[u]
          /\ batch'[u] = batch[u] /\ expired'[u] = expired[u]
          /\ u \in idleTerm' <=> u \in idleTerm
    /\ stopRequested' = stopRequested

\* Every step of a thread is of this kind.
LEMMA ThreadFrame ==
  ASSUME Types, NEW t \in Threads, thread(t)
  PROVE  OthersAlone(t)
  <1> USE DEF OthersAlone, Types, ThreadTypes, ctxVars, schedVars, thrVars, Goto
  <1>1. CASE task(t)
    <2>1. CASE addEventLookup(t)
      BY <2>1 DEF addEventLookup, Enter
    <2>2. CASE lookup(t) \/ ReturnFalse(t)
      BY <2>2 DEF lookup, ReturnFalse, Enter
    <2>3. CASE contextResize(t) \/ addEvent(t) \/ delEvent(t) \/ cancelEvent(t)
      BY <2>3 DEF contextResize, addEvent, delEvent, cancelEvent
    <2>4. CASE Sleep(t) \/ YieldToHold(t) \/ Finish(t)
      BY <2>4 DEF Sleep, YieldToHold, Finish
    <2>5. QED
      BY <1>1, <2>1, <2>2, <2>3, <2>4 DEF task
  <1>2. CASE idle(t)
    <2>1. CASE stoppingTimer(t) \/ stoppingPending(t) \/ stoppingQueue(t)
      BY <2>1 DEF stoppingTimer, stoppingPending, stoppingQueue
    <2>2. CASE epoll_wait(t) \/ listExpiredCb(t) \/ scheduleExpired(t) \/ idleSwapOut(t)
      BY <2>2 DEF epoll_wait, listExpiredCb, scheduleExpired, idleSwapOut
    <2>3. CASE processReport(t)
      BY <2>3 DEF processReport
    <2>4. QED
      BY <1>2, <2>1, <2>2, <2>3 DEF idle
  <1>3. CASE triggerEvent(t) \/ Triggered(t) \/ Pick(t) \/ EnterIdle(t) \/ Exit(t)
    BY <1>3 DEF triggerEvent, Triggered, Pick, EnterIdle, Exit
  <1>4. QED
    BY <1>1, <1>2, <1>3 DEF thread

\* So the other threads' hands stay as they are.
LEMMA HandsFrame ==
  ASSUME HandInv, NEW t \in Threads, OthersAlone(t), Hands(t)'
  PROVE  HandInv'
  <1>1. ASSUME NEW u \in Threads, u # t PROVE Hands(u)'
    BY <1>1 DEF HandInv, Hands, OthersAlone
  <1>2. QED
    BY <1>1 DEF HandInv

\* The fields of a call, and a call with some of them set.
LEMMA CallFields ==
  ASSUME NEW c \in Calls
  PROVE  /\ c.fd \in Fds \cup {0} /\ c.event \in Events /\ c.task \in Tasks \cup {None}
         /\ c.ctx \in Contexts \cup {None} /\ c.todo \in SUBSET Events
         /\ c.back \in {"task", "events"}
  BY DEF Calls

\* A call made of well-typed fields.
LEMMA CallMade ==
  ASSUME NEW fd \in Fds \cup {0}, NEW e \in Events, NEW f \in Tasks \cup {None},
         NEW c \in Contexts \cup {None}, NEW S \in SUBSET Events, NEW b \in {"task", "events"}
  PROVE  [fd |-> fd, event |-> e, task |-> f, ctx |-> c, todo |-> S, back |-> b] \in Calls
  BY DEF Calls

\* A call that enters a function: addEvent, delEvent, cancelEvent, cancelAll.
LEMMA CallEntered ==
  ASSUME NEW fd \in Fds, NEW e \in Events, NEW f \in Tasks \cup {None}, NEW c \in Contexts
  PROVE  /\ NoCall \in Calls
         /\ [NoCall EXCEPT !.fd = fd, !.event = e, !.task = f, !.ctx = c] \in Calls
         /\ [NoCall EXCEPT !.fd = fd, !.event = e, !.task = f] \in Calls
         /\ [NoCall EXCEPT !.fd = fd, !.event = e, !.ctx = c] \in Calls
         /\ \A S \in SUBSET Events :
               [NoCall EXCEPT !.ctx = c, !.todo = S, !.back = "events"] \in Calls
  BY DEF NoCall, Calls, Events

\* A context is a descriptor and a generation.
LEMMA ContextParts ==
  ASSUME NEW c \in Contexts
  PROVE  c[1] \in Fds /\ c[2] \in Gens /\ c = <<c[1], c[2]>>
  BY DEF Contexts

\* What every action below keeps, of the thread that takes it.
Kept(t) == Types' /\ Hands(t)' /\ HeldIffArmed'

\* A call looks its context up, or returns with nothing done.
LEMMA EnterKeeps ==
  ASSUME Types, HandInv, HeldIffArmed, NEW t \in Threads,
         NEW point \in Points, NEW c \in Calls, Enter(t, point, c),
         pc[t] \in TaskPoints, point \in TaskPoints, point # "park",
         point \in {"add", "del", "cancel", "cancelAll"} => c.ctx \in Contexts,
         point = "resize" => c.fd \in Fds,
         point \in {"resize", "add"} => c.task # None
  PROVE  Kept(t)
  <1> USE DEF Types
  <1>1. /\ UNCHANGED <<m_size, slot, events, held, epoll, m_pendingEventCount, m_fibers, timers,
                       fresh, over, stopRequested, cur, batch, expired, idleTerm, aborted>>
        /\ pc' = [pc EXCEPT ![t] = point] /\ call' = [call EXCEPT ![t] = c]
    BY DEF Enter, Goto, ctxVars, schedVars
  <1>2. CtxTypes' /\ SchedTypes' /\ HeldIffArmed'
    BY <1>1 DEF CtxTypes, SchedTypes, HeldIffArmed
  <1>3. ThreadTypes'
    BY <1>1 DEF ThreadTypes
  <1>4. pc'[t] = point /\ call'[t] = c
    BY <1>1 DEF ThreadTypes
  <1>5. Hands(t)'
    BY <1>1, <1>4 DEF HandInv, Hands, TaskPoints, TriggerPoints
  <1>6. QED
    BY <1>2, <1>3, <1>5 DEF Kept

\* addEvent, delEvent, cancelEvent and cancelAll up to the context.
LEMMA LookupKeeps ==
  ASSUME Types, HandInv, HeldIffArmed, NEW t \in Threads,
         addEventLookup(t) \/ lookup(t) \/ ReturnFalse(t)
  PROVE  Kept(t)
  <1> USE DEF Types
  <1>1. ASSUME NEW fd \in Fds PROVE <<fd, slot[fd]>> \in Contexts
    BY DEF CtxTypes, Contexts
  <1>2. None \in Tasks \cup {None} /\ TaskPoints \subseteq Points
    BY DEF Points
  <1>3. CASE addEventLookup(t)
    <2>1. PICK fd \in Fds, e \in Events, f \in Tasks :
            IF m_size > fd
              THEN Enter(t, "add", [NoCall EXCEPT !.fd = fd, !.event = e, !.task = f,
                                                  !.ctx = <<fd, slot[fd]>>])
              ELSE Enter(t, "resize", [NoCall EXCEPT !.fd = fd, !.event = e, !.task = f])
      BY <1>3 DEF addEventLookup
    <2>2. pc[t] = "task" /\ f # None
      BY <1>3, IoAssumption DEF addEventLookup
    <2>3. PICK c \in Contexts : c = <<fd, slot[fd]>>
      BY <1>1
    <2>4. CASE m_size > fd
      <3> DEFINE k == [NoCall EXCEPT !.fd = fd, !.event = e, !.task = f, !.ctx = c]
      <3>1. k \in Calls /\ k.ctx = c /\ k.task = f
        BY CallEntered DEF NoCall
      <3>2. Enter(t, "add", k)
        BY <2>1, <2>3, <2>4
      <3> HIDE DEF k
      <3>3. QED
        BY <1>2, <2>2, <3>1, <3>2, EnterKeeps DEF TaskPoints
    <2>5. CASE ~(m_size > fd)
      <3> DEFINE k == [NoCall EXCEPT !.fd = fd, !.event = e, !.task = f]
      <3>1. k \in Calls /\ k.fd = fd /\ k.task = f
        BY <2>3, CallEntered DEF NoCall
      <3>2. Enter(t, "resize", k)
        BY <2>1, <2>5
      <3> HIDE DEF k
      <3>3. QED
        BY <1>2, <2>2, <3>1, <3>2, EnterKeeps DEF TaskPoints
    <2>6. QED
      BY <2>4, <2>5
  <1>4. CASE lookup(t)
    <2>1. PICK fd \in Fds, e \in Events, point \in {"del", "cancel", "cancelAll"} :
            Enter(t, point, [NoCall EXCEPT !.fd = fd, !.event = e, !.ctx = <<fd, slot[fd]>>])
      BY <1>4 DEF lookup
    <2>2. pc[t] = "task"
      BY <1>4 DEF lookup
    <2>3. PICK c \in Contexts : c = <<fd, slot[fd]>>
      BY <1>1
    <2> DEFINE k == [NoCall EXCEPT !.fd = fd, !.event = e, !.ctx = c]
    <2>4. k \in Calls /\ k.ctx = c
      BY <1>2, CallEntered DEF NoCall
    <2>5. Enter(t, point, k)
      BY <2>1, <2>3
    <2> HIDE DEF k
    <2>6. QED
      BY <1>2, <2>2, <2>4, <2>5, EnterKeeps DEF TaskPoints
  <1>5. CASE ReturnFalse(t)
    <2>1. Enter(t, "task", NoCall) /\ pc[t] \in {"del", "cancel", "cancelAll"}
      BY <1>5 DEF ReturnFalse
    <2>2. NoCall \in Calls
      BY CallMade DEF NoCall, Events
    <2>3. QED
      BY <1>2, <2>1, <2>2, EnterKeeps DEF TaskPoints
  <1>6. QED
    BY <1>3, <1>4, <1>5

\* contextResize.
LEMMA ResizeKeeps ==
  ASSUME Types, HandInv, HeldIffArmed, NEW t \in Threads, contextResize(t)
  PROVE  Kept(t)
  <1> USE DEF Types
  <1>1. PICK fd \in Fds : fd = call[t].fd
    BY DEF contextResize, HandInv, Hands
  <1>2. PICK c \in Contexts : c = <<fd, slot[fd]>>
    BY DEF CtxTypes, Contexts
  <1>3. /\ pc[t] = "resize" /\ m_size' = (fd * 3) \div 2 /\ slot' \in [Fds -> Gens]
        /\ call' = [call EXCEPT ![t].ctx = c] /\ pc' = [pc EXCEPT ![t] = "add"]
        /\ UNCHANGED <<events, held, epoll, m_fibers, timers, fresh, over, stopRequested,
                       cur, batch, expired, idleTerm, aborted>>
    BY <1>1, <1>2 DEF contextResize, Goto, schedVars
  <1>4. (fd * 3) \div 2 \in Nat
    BY IoAssumption
  <1>5. CtxTypes' /\ SchedTypes' /\ HeldIffArmed'
    BY <1>3, <1>4 DEF CtxTypes, SchedTypes, HeldIffArmed
  <1>6. call'[t] \in Calls /\ call'[t].ctx = c /\ call'[t].task = call[t].task
    <2>1. call[t] \in Calls /\ call'[t] = [call[t] EXCEPT !.ctx = c]
      BY <1>3 DEF ThreadTypes
    <2>2. QED
      BY <2>1 DEF Calls
  <1>7. ThreadTypes'
    BY <1>3, <1>6 DEF ThreadTypes, Points, TaskPoints
  <1>8. pc'[t] = "add"
    BY <1>3 DEF ThreadTypes
  <1>9. Hands(t)'
    BY <1>3, <1>6, <1>8 DEF HandInv, Hands, TaskPoints, TriggerPoints
  <1>10. QED
    BY <1>5, <1>7, <1>9 DEF Kept

\* A step that puts h, a task or None, into event e of context c.
Puts(c, e, h) == held' = [held EXCEPT ![c][e] = h]

\* The entry of one task into one event of one context, or its removal.
LEMMA HeldSet ==
  ASSUME CtxTypes, NEW c \in Contexts, NEW e \in Events, NEW h \in Tasks \cup {None},
         Puts(c, e, h)
  PROVE  /\ held' \in [Contexts -> [Events -> Tasks \cup {None}]]
         /\ held'[c][e] = h
         /\ \A d \in Contexts, g \in Events : <<d, g>> # <<c, e>> => held'[d][g] = held[d][g]
  BY DEF CtxTypes, Puts

\* A change of one context's events.
LEMMA EventsSet ==
  ASSUME CtxTypes, NEW c \in Contexts, NEW S \in SUBSET Events,
         events' = [events EXCEPT ![c] = S]
  PROVE  /\ events' \in [Contexts -> SUBSET Events]
         /\ events'[c] = S
         /\ \A d \in Contexts \ {c} : events'[d] = events[d]
  BY DEF CtxTypes

\* epoll_ctl registers what it is given for the context's descriptor.
LEMMA EpollSet ==
  ASSUME CtxTypes, NEW c \in Contexts, NEW S \in SUBSET Events, epoll_ctl(c, S)
  PROVE  /\ epoll' \in [Fds -> {None} \cup [ptr : Contexts, mask : SUBSET Events]]
         /\ epoll'[c[1]] = IF S = {} THEN None ELSE [ptr |-> c, mask |-> S]
         /\ \A fd \in Fds \ {c[1]} : epoll'[fd] = epoll[fd]
  <1>1. c[1] \in Fds
    BY ContextParts
  <1>2. [ptr |-> c, mask |-> S] \in [ptr : Contexts, mask : SUBSET Events]
    OBVIOUS
  <1>3. QED
    BY <1>1, <1>2 DEF CtxTypes, epoll_ctl

\* addEvent's critical section, in words: which task waits for which event.
Adds(t, c, e, f) ==
    /\ pc[t] = "add" /\ Unlocked(c)
    /\ c = call[t].ctx /\ e = call[t].event /\ f = call[t].task
    /\ call' = [call EXCEPT ![t] = NoCall]
    /\ epoll_ctl(c, events[c] \cup {e})
    /\ m_pendingEventCount' = m_pendingEventCount + 1
    /\ events' = [events EXCEPT ![c] = events[c] \cup {e}]
    /\ aborted' = IF e \in events[c] \/ held[c][e] # None THEN "addEvent" ELSE aborted
    /\ held' = [held EXCEPT ![c][e] = f]
    /\ fresh' = fresh \ {f}
    /\ pc' = [pc EXCEPT ![t] = IF f = cur[t] THEN "park" ELSE "task"]
    /\ UNCHANGED <<m_size, slot, m_fibers, timers, over, stopRequested, cur, batch, expired, idleTerm>>

\* addEvent where the kernel refuses.
AddFails(t) ==
    /\ pc[t] = "add" /\ Enter(t, "task", NoCall)

\* One of the two is what addEvent does.
LEMMA AddFacts ==
  ASSUME Types, HandInv, NEW t \in Threads, addEvent(t)
  PROVE  \/ \E c \in Contexts, e \in Events, f \in Tasks : Adds(t, c, e, f)
         \/ AddFails(t)
  <1>1. call[t].ctx \in Contexts /\ call[t].event \in Events /\ call[t].task \in Tasks
        /\ call[t].ctx \in DOMAIN events
    BY CallFields DEF addEvent, HandInv, Hands, Types, ThreadTypes, CtxTypes
  <1>2. CASE Goto(t, "task") /\ UNCHANGED <<ctxVars, fresh, aborted>>
    BY <1>2 DEF addEvent, AddFails, Enter, Goto, ctxVars, schedVars
  <1>3. CASE ~(Goto(t, "task") /\ UNCHANGED <<ctxVars, fresh, aborted>>)
    <2>1. Adds(t, call[t].ctx, call[t].event, call[t].task)
      BY <1>1, <1>3 DEF addEvent, Adds, Goto
    <2>2. QED
      BY <1>1, <2>1
  <1>4. QED
    BY <1>2, <1>3

\* addEvent keeps the types, and a task in every event that is registered.
LEMMA AddKeeps ==
  ASSUME Types, HandInv, HeldIffArmed, NEW t \in Threads, addEvent(t)
  PROVE  Kept(t)
  <1> USE DEF Types
  <1>0. NoCall \in Calls
    BY CallMade DEF NoCall, Events
  <1>1. CASE AddFails(t)
    BY <1>0, <1>1, EnterKeeps DEF AddFails, TaskPoints, Points
  <1>2. ASSUME NEW c \in Contexts, NEW e \in Events, NEW f \in Tasks, Adds(t, c, e, f)
        PROVE  Kept(t)
    <2> USE <1>2
    <2>0. f # None /\ events[c] \cup {e} \in SUBSET Events
      BY IoAssumption DEF CtxTypes
    <2>1. CtxTypes' /\ SchedTypes'
      <3>0. Puts(c, e, f) /\ events' = [events EXCEPT ![c] = events[c] \cup {e}]
            /\ epoll_ctl(c, events[c] \cup {e})
        BY DEF Adds, Puts
      <3>1. /\ held' \in [Contexts -> [Events -> Tasks \cup {None}]]
            /\ events' \in [Contexts -> SUBSET Events]
            /\ epoll' \in [Fds -> {None} \cup [ptr : Contexts, mask : SUBSET Events]]
        BY <2>0, <3>0, HeldSet, EventsSet, EpollSet
      <3>2. m_size' = m_size /\ slot' = slot
        BY DEF Adds
      <3>3. SchedTypes'
        BY DEF Adds, SchedTypes
      <3>4. QED
        BY <3>1, <3>2, <3>3 DEF CtxTypes
    <2>2. HeldIffArmed'
      <3>1. /\ held'[c][e] = f
            /\ \A d \in Contexts, g \in Events : <<d, g>> # <<c, e>> => held'[d][g] = held[d][g]
        <4>1. Puts(c, e, f)
          BY DEF Adds, Puts
        <4>2. QED
          BY <4>1, HeldSet
      <3>2. events'[c] = events[c] \cup {e} /\ \A d \in Contexts \ {c} : events'[d] = events[d]
        BY <2>0, EventsSet DEF Adds
      <3>3. QED
        BY <2>0, <3>1, <3>2 DEF HeldIffArmed
    <2>3. pc'[t] = (IF f = cur[t] THEN "park" ELSE "task") /\ call'[t] = NoCall
          /\ UNCHANGED <<cur, batch, expired, idleTerm, stopRequested>>
      BY DEF Adds, ThreadTypes
    <2>4. ThreadTypes'
      <3>1. call' \in [Threads -> Calls] /\ pc' \in [Threads -> Points]
        BY <1>0 DEF Adds, ThreadTypes, Points, TaskPoints
      <3>2. aborted' \in {"none", "triggerEvent", "addEvent", "~Fiber"}
        BY DEF Adds, ThreadTypes
      <3>3. QED
        BY <2>3, <3>1, <3>2 DEF ThreadTypes
    <2>6. Hands(t)'
      BY <2>3 DEF Adds, HandInv, Hands, TaskPoints, TriggerPoints, NoCall
    <2>7. QED
      BY <2>1, <2>2, <2>4, <2>6 DEF Kept
  <1>3. QED
    BY <1>1, <1>2, AddFacts

\* delEvent's critical section.
Deletes(t, c, e) ==
    /\ pc[t] = "del" /\ Unlocked(c) /\ c = call[t].ctx
    /\ e \in events[c] /\ epoll[c[1]] # None
    /\ epoll_ctl(c, events[c] \ {e})
    /\ m_pendingEventCount' = m_pendingEventCount - 1
    /\ events' = [events EXCEPT ![c] = events[c] \ {e}]
    /\ held' = [held EXCEPT ![c][e] = None]
    /\ aborted' = IF held[c][e] \in Fibers /\ ~OnThread(held[c][e]) THEN "~Fiber" ELSE aborted
    /\ over' = over \cup ({held[c][e]} \cap Callbacks)
    /\ call' = [call EXCEPT ![t] = NoCall]
    /\ pc' = [pc EXCEPT ![t] = "task"]
    /\ UNCHANGED <<m_size, slot, m_fibers, timers, fresh, stopRequested,
                   cur, batch, expired, idleTerm>>

\* cancelEvent and cancelAll: the events S leave the kernel.
Cancels(t, c, S) ==
    /\ pc[t] \in {"cancel", "cancelAll"} /\ Unlocked(c) /\ c = call[t].ctx
    /\ S # {} /\ S \subseteq events[c] /\ epoll[c[1]] # None
    /\ epoll_ctl(c, events[c] \ S)
    /\ call' = [call EXCEPT ![t].todo = S, ![t].back = "task"]
    /\ pc' = [pc EXCEPT ![t] = "trigger"]
    /\ UNCHANGED <<m_size, slot, events, held, m_pendingEventCount, m_fibers, timers, fresh, over,
                   stopRequested, cur, batch, expired, idleTerm, aborted>>

\* triggerEvent with its assertion true: the task goes to the scheduler.
Triggers(t, c, e) ==
    /\ pc[t] = "trigger" /\ c = call[t].ctx /\ e = NextEvent(t) /\ e \in events[c]
    /\ events' = [events EXCEPT ![c] = events[c] \ {e}]
    /\ m_fibers' = m_fibers \cup {held[c][e]}
    /\ held' = [held EXCEPT ![c][e] = None]
    /\ pc' = [pc EXCEPT ![t] = "triggered"]
    /\ UNCHANGED <<m_size, slot, epoll, m_pendingEventCount, timers, fresh, over, stopRequested,
                   cur, call, batch, expired, idleTerm, aborted>>

\* triggerEvent with its assertion false.
TriggerAborts(t) ==
    /\ pc[t] = "trigger" /\ aborted' = "triggerEvent"
    /\ pc' = [pc EXCEPT ![t] = "triggered"]
    /\ UNCHANGED <<m_size, slot, events, held, epoll, m_pendingEventCount, m_fibers, timers, fresh,
                   over, stopRequested, cur, call, batch, expired, idleTerm>>

\* A thread at the context's mutex knows the context; one inside has events to
\* trigger.
LEMMA CallFacts ==
  ASSUME Types, HandInv, NEW t \in Threads,
         pc[t] \in {"add", "del", "cancel", "cancelAll"} \cup TriggerPoints
  PROVE  /\ call[t] \in Calls /\ call[t].ctx \in Contexts /\ call[t].event \in Events
         /\ call[t].todo \in SUBSET Events /\ NextEvent(t) \in Events
         /\ events[call[t].ctx] \in SUBSET Events
         /\ \A e \in Events : held[call[t].ctx][e] \in Tasks \cup {None}
         /\ pc[t] \in TriggerPoints => NextEvent(t) \in call[t].todo
  <1>1. call[t] \in Calls /\ call[t].ctx \in Contexts
    BY DEF Types, ThreadTypes, HandInv, Hands
  <1>2. call[t].event \in Events /\ call[t].todo \in SUBSET Events
    BY <1>1, CallFields
  <1>3. pc[t] \in TriggerPoints => NextEvent(t) \in call[t].todo
    BY <1>2 DEF NextEvent, Events, HandInv, Hands
  <1>4. QED
    BY <1>1, <1>2, <1>3 DEF NextEvent, Events, Types, CtxTypes

\* What the critical sections do, with the context and the events named.
LEMMA SectionFacts ==
  ASSUME Types, HandInv, NEW t \in Threads
  PROVE  /\ delEvent(t) => \E c \in Contexts, e \in Events : Deletes(t, c, e)
         /\ cancelEvent(t) => \E c \in Contexts, S \in SUBSET Events : Cancels(t, c, S)
         /\ triggerEvent(t) => (\E c \in Contexts, e \in Events : Triggers(t, c, e)) \/ TriggerAborts(t)
  <1>1. ASSUME delEvent(t) PROVE \E c \in Contexts, e \in Events : Deletes(t, c, e)
    <2>1. call[t].ctx \in Contexts /\ call[t].event \in Events /\ DOMAIN events = Contexts
      BY <1>1, CallFacts DEF delEvent, Types, CtxTypes
    <2>2. Deletes(t, call[t].ctx, call[t].event)
      BY <1>1, <2>1 DEF delEvent, Deletes, Goto
    <2>3. QED
      BY <2>1, <2>2
  <1>2. ASSUME cancelEvent(t) PROVE \E c \in Contexts, S \in SUBSET Events : Cancels(t, c, S)
    <2> DEFINE S == IF pc[t] = "cancelAll" THEN events[call[t].ctx] ELSE {call[t].event}
    <2>1. call[t].ctx \in Contexts /\ S \in SUBSET Events
      BY <1>2, CallFacts DEF cancelEvent
    <2>2. Cancels(t, call[t].ctx, S)
      BY <1>2 DEF cancelEvent, Cancels, Goto, schedVars
    <2> HIDE DEF S
    <2>3. QED
      BY <2>1, <2>2
  <1>3. ASSUME triggerEvent(t)
        PROVE  (\E c \in Contexts, e \in Events : Triggers(t, c, e)) \/ TriggerAborts(t)
    <2>1. call[t].ctx \in Contexts /\ NextEvent(t) \in Events /\ DOMAIN events = Contexts
      BY <1>3, CallFacts DEF triggerEvent, TriggerPoints, Types, CtxTypes
    <2>2. CASE NextEvent(t) \in events[call[t].ctx]
      <3>1. Triggers(t, call[t].ctx, NextEvent(t))
        BY <1>3, <2>1, <2>2 DEF triggerEvent, Triggers, Goto
      <3>2. QED
        BY <2>1, <3>1
    <2>3. CASE NextEvent(t) \notin events[call[t].ctx]
      BY <1>3, <2>3 DEF triggerEvent, TriggerAborts, Goto
    <2>4. QED
      BY <2>2, <2>3
  <1>4. QED
    BY <1>1, <1>2, <1>3

\* A task taken out of one event of one context, as delEvent and triggerEvent do.
LEMMA TakenOut ==
  ASSUME Types, HeldIffArmed, NEW c \in Contexts, NEW e \in Events,
         events' = [events EXCEPT ![c] = events[c] \ {e}], Puts(c, e, None)
  PROVE  /\ HeldIffArmed'
         /\ events' \in [Contexts -> SUBSET Events]
         /\ held' \in [Contexts -> [Events -> Tasks \cup {None}]]
         /\ events'[c] = events[c] \ {e} /\ \A d \in Contexts \ {c} : events'[d] = events[d]
         /\ held'[c][e] = None
         /\ \A d \in Contexts, g \in Events : <<d, g>> # <<c, e>> => held'[d][g] = held[d][g]
  <1>1. CtxTypes /\ None \in Tasks \cup {None} /\ events[c] \ {e} \in SUBSET Events
    BY DEF Types, CtxTypes
  <1>2. /\ held' \in [Contexts -> [Events -> Tasks \cup {None}]]
        /\ held'[c][e] = None
        /\ \A d \in Contexts, g \in Events : <<d, g>> # <<c, e>> => held'[d][g] = held[d][g]
    BY <1>1, HeldSet
  <1>3. /\ events' \in [Contexts -> SUBSET Events]
        /\ events'[c] = events[c] \ {e} /\ \A d \in Contexts \ {c} : events'[d] = events[d]
    BY <1>1, EventsSet
  <1>4. HeldIffArmed'
    BY <1>2, <1>3 DEF HeldIffArmed
  <1>5. QED
    BY <1>2, <1>3, <1>4

\* delEvent.
LEMMA DeleteKeeps ==
  ASSUME Types, HandInv, HeldIffArmed, NEW t \in Threads,
         NEW c \in Contexts, NEW e \in Events, Deletes(t, c, e)
  PROVE  Kept(t)
  <1> USE DEF Types
  <1>0. NoCall \in Calls /\ held[c][e] \in Tasks \cup {None}
        /\ events[c] \ {e} \in SUBSET Events
    <2>1. NoCall \in Calls
      BY CallMade DEF NoCall, Events
    <2>2. QED
      BY <2>1 DEF CtxTypes
  <1>1. /\ HeldIffArmed' /\ events' \in [Contexts -> SUBSET Events]
        /\ held' \in [Contexts -> [Events -> Tasks \cup {None}]]
    <2>1. events' = [events EXCEPT ![c] = events[c] \ {e}] /\ Puts(c, e, None)
      BY DEF Deletes, Puts
    <2>2. QED
      BY <2>1, TakenOut
  <1>2. epoll' \in [Fds -> {None} \cup [ptr : Contexts, mask : SUBSET Events]]
    <2>1. epoll_ctl(c, events[c] \ {e})
      BY DEF Deletes
    <2>2. QED
      BY <1>0, <2>1, EpollSet
  <1>3. CtxTypes'
    BY <1>1, <1>2 DEF CtxTypes, Deletes
  <1>4. SchedTypes'
    BY <1>0 DEF SchedTypes, Deletes, Tasks
  <1>5. ThreadTypes'
    <2>1. call' \in [Threads -> Calls] /\ pc' \in [Threads -> Points]
      BY <1>0 DEF Deletes, ThreadTypes, Points, TaskPoints
    <2>2. aborted' \in {"none", "triggerEvent", "addEvent", "~Fiber"}
      BY DEF Deletes, ThreadTypes
    <2>3. QED
      BY <2>1, <2>2 DEF Deletes, ThreadTypes
  <1>6. pc[t] = "del" /\ pc'[t] = "task" /\ call'[t] = NoCall
        /\ UNCHANGED <<cur, batch, expired, idleTerm, stopRequested>>
    BY DEF Deletes, ThreadTypes
  <1>7. Hands(t)'
    BY <1>6 DEF HandInv, Hands, TaskPoints, TriggerPoints, NoCall
  <1>8. QED
    BY <1>1, <1>3, <1>4, <1>5, <1>7 DEF Kept

\* cancelEvent and cancelAll.
LEMMA CancelKeeps ==
  ASSUME Types, HandInv, HeldIffArmed, NEW t \in Threads,
         NEW c \in Contexts, NEW S \in SUBSET Events, Cancels(t, c, S)
  PROVE  Kept(t)
  <1> USE DEF Types
  <1>1. HeldIffArmed' /\ SchedTypes'
    BY DEF HeldIffArmed, SchedTypes, Cancels
  <1>2. epoll' \in [Fds -> {None} \cup [ptr : Contexts, mask : SUBSET Events]]
    <2>1. epoll_ctl(c, events[c] \ S) /\ events[c] \ S \in SUBSET Events
      BY DEF Cancels, CtxTypes
    <2>2. QED
      BY <2>1, EpollSet
  <1>3. CtxTypes'
    BY <1>2 DEF CtxTypes, Cancels
  <1>4. call[t] \in Calls /\ call' = [call EXCEPT ![t].todo = S, ![t].back = "task"]
    BY DEF Cancels, ThreadTypes
  <1>5. call'[t] \in Calls /\ call'[t].todo = S /\ call'[t].back = "task" /\ call'[t].ctx = call[t].ctx
    BY <1>4 DEF ThreadTypes, Calls
  <1>6. ThreadTypes'
    BY <1>4, <1>5 DEF Cancels, ThreadTypes, Points, TriggerPoints
  <1>7. pc[t] \in {"cancel", "cancelAll"} /\ pc'[t] = "trigger" /\ c = call[t].ctx /\ S # {}
        /\ UNCHANGED <<cur, batch, expired, idleTerm, stopRequested>>
    BY DEF Cancels, ThreadTypes
  <1>8. Hands(t)'
    BY <1>5, <1>7 DEF HandInv, Hands, TaskPoints, TriggerPoints
  <1>9. QED
    BY <1>1, <1>3, <1>6, <1>8 DEF Kept

\* triggerEvent.
LEMMA TriggerKeeps ==
  ASSUME Types, HandInv, HeldIffArmed, NEW t \in Threads, triggerEvent(t)
  PROVE  Kept(t)
  <1> USE DEF Types
  <1>1. pc[t] = "trigger" /\ pc' = [pc EXCEPT ![t] = "triggered"]
        /\ UNCHANGED <<m_size, slot, epoll, timers, fresh, over, stopRequested, cur, call, batch,
                       expired, idleTerm>>
    BY DEF triggerEvent, Goto
  <1>2. pc'[t] = "triggered"
    BY <1>1 DEF ThreadTypes
  <1>3. Hands(t)'
    BY <1>1, <1>2 DEF HandInv, Hands, TaskPoints, TriggerPoints
  <1>4. ASSUME aborted' \in {"none", "triggerEvent", "addEvent", "~Fiber"} PROVE ThreadTypes'
    BY <1>1, <1>4 DEF ThreadTypes, Points, TriggerPoints
  <1>5. CASE TriggerAborts(t)
    <2>1. CtxTypes' /\ SchedTypes' /\ HeldIffArmed'
      BY <1>5 DEF TriggerAborts, CtxTypes, SchedTypes, HeldIffArmed
    <2>2. aborted' = "triggerEvent"
      BY <1>5 DEF TriggerAborts
    <2>3. QED
      BY <1>3, <1>4, <2>1, <2>2 DEF Kept
  <1>6. ASSUME NEW c \in Contexts, NEW e \in Events, Triggers(t, c, e) PROVE Kept(t)
    <2>1. /\ HeldIffArmed' /\ events' \in [Contexts -> SUBSET Events]
          /\ held' \in [Contexts -> [Events -> Tasks \cup {None}]]
      <3>1. events' = [events EXCEPT ![c] = events[c] \ {e}] /\ Puts(c, e, None)
        BY <1>6 DEF Triggers, Puts
      <3>2. QED
        BY <3>1, TakenOut
    <2>2. CtxTypes'
      BY <1>1, <2>1 DEF CtxTypes
    <2>3. held[c][e] \in Tasks
      BY <1>6 DEF Triggers, HeldIffArmed, CtxTypes
    <2>4. SchedTypes'
      BY <1>6, <2>3 DEF SchedTypes, Triggers
    <2>5. aborted' = aborted
      BY <1>6 DEF Triggers
    <2>6. ThreadTypes'
      BY <1>4, <2>5 DEF ThreadTypes
    <2>7. QED
      BY <1>3, <2>1, <2>2, <2>4, <2>6 DEF Kept
  <1>7. QED
    BY <1>5, <1>6, SectionFacts

\* The decrement after triggerEvent, and on to the next event.
LEMMA TriggeredKeeps ==
  ASSUME Types, HandInv, HeldIffArmed, NEW t \in Threads, Triggered(t)
  PROVE  Kept(t)
  <1> USE DEF Types
  <1> DEFINE left == call[t].todo \ {NextEvent(t)}
             next == IF left = {} THEN NoCall ELSE [call[t] EXCEPT !.todo = left]
  <1>0. call[t] \in Calls /\ call[t].todo \in SUBSET Events /\ call[t].ctx \in Contexts
        /\ call[t].back \in {"task", "events"}
    BY CallFacts, CallFields DEF Triggered, TriggerPoints
  <1>1. /\ pc[t] = "triggered" /\ call' = [call EXCEPT ![t] = next]
        /\ pc' = [pc EXCEPT ![t] = IF left = {} THEN call[t].back ELSE "trigger"]
        /\ UNCHANGED <<m_size, slot, events, held, epoll, m_fibers, timers, fresh, over,
                       stopRequested, cur, batch, expired, idleTerm, aborted>>
    BY DEF Triggered, Goto, schedVars, ThreadTypes
  <1>2. CtxTypes' /\ SchedTypes' /\ HeldIffArmed'
    BY <1>1 DEF CtxTypes, SchedTypes, HeldIffArmed
  <1>3. next \in Calls /\ (left # {} => next.todo = left /\ next.ctx = call[t].ctx /\ next.back = call[t].back)
    <2>1. NoCall \in Calls
      BY CallMade DEF NoCall, Events
    <2>2. QED
      BY <1>0, <2>1 DEF Calls
  <1>4. pc'[t] = (IF left = {} THEN call[t].back ELSE "trigger") /\ call'[t] = next
    BY <1>1 DEF ThreadTypes
  <1> HIDE DEF left, next
  <1>5. ThreadTypes'
    <2>1. call' \in [Threads -> Calls] /\ pc' \in [Threads -> Points]
      BY <1>0, <1>1, <1>3 DEF ThreadTypes, Points, TaskPoints, IdlePoints, TriggerPoints
    <2>2. QED
      BY <1>1, <2>1 DEF ThreadTypes
  <1>6. Hands(t)'
    <2>1. CASE left = {}
      BY <1>0, <1>1, <1>4, <2>1 DEF HandInv, Hands, TaskPoints, TriggerPoints
    <2>2. CASE left # {}
      BY <1>0, <1>1, <1>3, <1>4, <2>2 DEF HandInv, Hands, TaskPoints, TriggerPoints
    <2>3. QED
      BY <2>1, <2>2
  <1>7. QED
    BY <1>2, <1>5, <1>6 DEF Kept

\* idle() takes one report r of its batch and skips it.
Skips(t, r) ==
    /\ pc[t] = "events" /\ r \in batch[t]
    /\ batch' = [batch EXCEPT ![t] = batch[t] \ {r}]
    /\ UNCHANGED <<m_size, slot, events, held, epoll, m_pendingEventCount, m_fibers, timers, fresh,
                   over, stopRequested, pc, cur, call, expired, idleTerm, aborted>>

\* Or it takes the events S of context c out of the kernel, to trigger them.
Takes(t, r, c, S) ==
    /\ pc[t] = "events" /\ r \in batch[t] /\ c = r.ptr /\ S = r.real
    /\ batch' = [batch EXCEPT ![t] = batch[t] \ {r}]
    /\ Unlocked(c) /\ events[c] \cap S # {} /\ epoll[c[1]] # None
    /\ epoll_ctl(c, events[c] \ S)
    /\ call' = [call EXCEPT ![t] = [NoCall EXCEPT !.ctx = c, !.todo = S, !.back = "events"]]
    /\ pc' = [pc EXCEPT ![t] = "trigger"]
    /\ UNCHANGED <<m_size, slot, events, held, m_pendingEventCount, m_fibers, timers, fresh, over,
                   stopRequested, cur, expired, idleTerm, aborted>>

\* One of the two is what idle() does with a report.
LEMMA ReportFacts ==
  ASSUME Types, NEW t \in Threads, processReport(t)
  PROVE  \E r \in batch[t] :
            Skips(t, r) \/ \E c \in Contexts, S \in SUBSET Events : Takes(t, r, c, S)
  <1>1. PICK r \in batch[t] :
          LET c == r.ptr IN
          /\ Unlocked(c)
          /\ batch' = [batch EXCEPT ![t] = @ \ {r}]
          /\ \/ UNCHANGED <<epoll, call, pc>>
             \/ /\ events[c] \cap r.real # {} /\ epoll[c[1]] # None
                /\ epoll_ctl(c, events[c] \ r.real)
                /\ call' = [call EXCEPT ![t] =
                      [NoCall EXCEPT !.ctx = c, !.todo = r.real, !.back = "events"]]
                /\ Goto(t, "trigger")
    BY DEF processReport
  <1>2. /\ pc[t] = "events"
        /\ UNCHANGED <<m_size, slot, events, held, m_pendingEventCount, m_fibers, timers, fresh,
                       over, stopRequested, cur, expired, idleTerm, aborted>>
    BY DEF processReport, schedVars
  <1>3. r.ptr \in Contexts /\ r.real \in SUBSET Events /\ DOMAIN batch = Threads
    BY DEF Types, ThreadTypes
  <1>4. CASE UNCHANGED <<epoll, call, pc>>
    <2>1. Skips(t, r)
      BY <1>1, <1>2, <1>3, <1>4 DEF Skips
    <2>2. QED
      BY <2>1
  <1>5. CASE ~ UNCHANGED <<epoll, call, pc>>
    <2>1. Takes(t, r, r.ptr, r.real)
      BY <1>1, <1>2, <1>3, <1>5 DEF Takes, Goto
    <2>2. QED
      BY <1>3, <2>1
  <1>6. QED
    BY <1>4, <1>5

\* idle() and a report.
LEMMA ReportKeeps ==
  ASSUME Types, HandInv, HeldIffArmed, NEW t \in Threads, processReport(t)
  PROVE  Kept(t)
  <1> USE DEF Types
  <1>1. PICK r \in batch[t] :
            Skips(t, r) \/ \E c \in Contexts, S \in SUBSET Events : Takes(t, r, c, S)
    BY ReportFacts
  <1>2. CASE Skips(t, r)
    <2>1. CtxTypes' /\ SchedTypes' /\ HeldIffArmed'
      BY <1>2 DEF Skips, CtxTypes, SchedTypes, HeldIffArmed
    <2>2. ThreadTypes'
      BY <1>2 DEF Skips, ThreadTypes
    <2>3. Hands(t)'
      BY <1>2 DEF Skips, HandInv, Hands
    <2>4. QED
      BY <2>1, <2>2, <2>3 DEF Kept
  <1>3. ASSUME NEW c \in Contexts, NEW S \in SUBSET Events, Takes(t, r, c, S) PROVE Kept(t)
    <2> DEFINE k == [NoCall EXCEPT !.ctx = c, !.todo = S, !.back = "events"]
    <2>1. k \in Calls /\ k.ctx = c /\ k.todo = S /\ k.back = "events"
      BY DEF NoCall, Calls, Events
    <2>2. call' = [call EXCEPT ![t] = k] /\ S # {}
      BY <1>3 DEF Takes
    <2> HIDE DEF k
    <2>3. HeldIffArmed' /\ SchedTypes'
      BY <1>3 DEF HeldIffArmed, SchedTypes, Takes
    <2>4. epoll' \in [Fds -> {None} \cup [ptr : Contexts, mask : SUBSET Events]]
      <3>1. epoll_ctl(c, events[c] \ S) /\ events[c] \ S \in SUBSET Events
        BY <1>3 DEF Takes, CtxTypes
      <3>2. QED
        BY <3>1, EpollSet
    <2>5. CtxTypes'
      BY <1>3, <2>4 DEF CtxTypes, Takes
    <2>6. ThreadTypes'
      BY <1>3, <2>1, <2>2 DEF Takes, ThreadTypes, Points, TriggerPoints
    <2>7. pc[t] = "events" /\ pc'[t] = "trigger" /\ call'[t] = k
          /\ UNCHANGED <<cur, expired, idleTerm, stopRequested>>
      BY <1>3, <2>2 DEF Takes, ThreadTypes
    <2>8. Hands(t)'
      BY <2>1, <2>2, <2>7 DEF HandInv, Hands, TaskPoints, TriggerPoints
    <2>9. QED
      BY <2>3, <2>5, <2>6, <2>8 DEF Kept
  <1>4. QED
    BY <1>1, <1>2, <1>3

\* What epoll_wait may report of a registered descriptor is well typed.
LEMMA ReportTypes ==
  ASSUME CtxTypes, NEW fd \in Fds, epoll[fd] # None, NEW r \in Reports(fd)
  PROVE  /\ r \in [ptr : Contexts, real : SUBSET Events]
         /\ r.ptr = epoll[fd].ptr
  <1>1. epoll[fd].ptr \in Contexts /\ epoll[fd].mask \in SUBSET Events
    BY DEF CtxTypes
  <1>2. QED
    BY <1>1 DEF Reports

\* A thread comes back from epoll_wait with reports of registered descriptors.
LEMMA WaitFacts ==
  ASSUME Types, NEW t \in Threads, epoll_wait(t)
  PROVE  \E B \in SUBSET [ptr : Contexts, real : SUBSET Events] :
           /\ batch' = [batch EXCEPT ![t] = B]
           /\ \A r \in B : \E fd \in Fds : epoll[fd] # None /\ r.ptr = epoll[fd].ptr
  <1>1. PICK S \in SUBSET {fd \in Fds : epoll[fd] # None} :
          \E b \in [S -> UNION {Reports(fd) : fd \in S}] :
             /\ \A fd \in S : b[fd] \in Reports(fd)
             /\ batch' = [batch EXCEPT ![t] = {b[fd] : fd \in S}]
    BY DEF epoll_wait
  <1>2. PICK b \in [S -> UNION {Reports(fd) : fd \in S}] :
             /\ \A fd \in S : b[fd] \in Reports(fd)
             /\ batch' = [batch EXCEPT ![t] = {b[fd] : fd \in S}]
    BY <1>1
  <1>3. \A fd \in S : fd \in Fds /\ epoll[fd] # None
    OBVIOUS
  <1>4. \A fd \in S : b[fd] \in [ptr : Contexts, real : SUBSET Events] /\ b[fd].ptr = epoll[fd].ptr
    BY <1>2, <1>3, ReportTypes DEF Types
  <1>5. {b[fd] : fd \in S} \in SUBSET [ptr : Contexts, real : SUBSET Events]
    BY <1>4
  <1>6. \A r \in {b[fd] : fd \in S} : \E fd \in Fds : epoll[fd] # None /\ r.ptr = epoll[fd].ptr
    BY <1>3, <1>4
  <1>7. QED
    BY <1>2, <1>5, <1>6

\* Everything else a thread does.
LEMMA OtherKeeps ==
  ASSUME Types, HandInv, HeldIffArmed, NEW t \in Threads,
         \/ Sleep(t) \/ YieldToHold(t) \/ Finish(t)
         \/ stoppingTimer(t) \/ stoppingPending(t) \/ stoppingQueue(t)
         \/ epoll_wait(t) \/ listExpiredCb(t) \/ scheduleExpired(t) \/ idleSwapOut(t)
         \/ Pick(t) \/ EnterIdle(t) \/ Exit(t)
  PROVE  Kept(t)
  <1> USE DEF Types, Goto, ctxVars, schedVars
  <1>1. CtxTypes' /\ HeldIffArmed'
    <2>1. UNCHANGED <<m_size, slot, events, held, epoll>>
      BY DEF Sleep, YieldToHold, Finish, stoppingTimer, stoppingPending, stoppingQueue, epoll_wait,
         listExpiredCb, scheduleExpired, idleSwapOut, Pick, EnterIdle, Exit
    <2>2. QED
      BY <2>1 DEF CtxTypes, HeldIffArmed
  <1>a. Tasks = Fibers \cup Callbacks /\ None \notin Tasks
    BY IoAssumption DEF Tasks
  <1>2. CASE Sleep(t)
    <2>1. SchedTypes' /\ ThreadTypes'
      BY <1>2 DEF Sleep, SchedTypes, ThreadTypes, Points, TaskPoints
    <2>2. Hands(t)'
      BY <1>2 DEF Sleep, ThreadTypes, HandInv, Hands, TaskPoints, TriggerPoints
    <2>3. QED
      BY <1>1, <2>1, <2>2 DEF Kept
  <1>3. CASE YieldToHold(t)
    <2>1. SchedTypes' /\ ThreadTypes'
      BY <1>3 DEF YieldToHold, SchedTypes, ThreadTypes, Points, TaskPoints
    <2>2. Hands(t)'
      BY <1>3 DEF YieldToHold, ThreadTypes, HandInv, Hands, TaskPoints, TriggerPoints
    <2>3. QED
      BY <1>1, <2>1, <2>2 DEF Kept
  <1>4. CASE Finish(t)
    <2>0. cur[t] \in Tasks
      BY <1>4 DEF Finish, HandInv, Hands, TaskPoints, ThreadTypes
    <2>1. SchedTypes' /\ ThreadTypes'
      BY <1>4, <2>0 DEF Finish, SchedTypes, ThreadTypes, Points, TaskPoints
    <2>2. Hands(t)'
      BY <1>4 DEF Finish, ThreadTypes, HandInv, Hands, TaskPoints, TriggerPoints
    <2>3. QED
      BY <1>1, <2>1, <2>2 DEF Kept
  <1>5. CASE stoppingTimer(t) \/ stoppingPending(t) \/ EnterIdle(t) \/ Exit(t) \/ idleSwapOut(t)
    <2>1. SchedTypes' /\ ThreadTypes'
      BY <1>5 DEF stoppingTimer, stoppingPending, EnterIdle, Exit, idleSwapOut, SchedTypes,
         ThreadTypes, Points, IdlePoints
    <2>2. Hands(t)'
      BY <1>5 DEF stoppingTimer, stoppingPending, EnterIdle, Exit, idleSwapOut, ThreadTypes, HandInv,
         Hands, TaskPoints, TriggerPoints
    <2>3. QED
      BY <1>1, <2>1, <2>2 DEF Kept
  <1>6. CASE stoppingQueue(t)
    <2>1. SchedTypes' /\ ThreadTypes'
      BY <1>6 DEF stoppingQueue, SchedTypes, ThreadTypes, Points, IdlePoints
    <2>2. Hands(t)'
      BY <1>6 DEF stoppingQueue, ThreadTypes, HandInv, Hands, TaskPoints, TriggerPoints
    <2>3. QED
      BY <1>1, <2>1, <2>2 DEF Kept
  <1>7. CASE epoll_wait(t)
    <2>1. PICK B \in SUBSET [ptr : Contexts, real : SUBSET Events] : batch' = [batch EXCEPT ![t] = B]
      BY <1>7, WaitFacts
    <2>2. pc[t] = "wait" /\ pc' = [pc EXCEPT ![t] = "expire"]
          /\ UNCHANGED <<m_fibers, timers, fresh, over, stopRequested, cur, call, expired, idleTerm, aborted>>
      BY <1>7 DEF epoll_wait
    <2>3. SchedTypes' /\ ThreadTypes'
      BY <2>1, <2>2 DEF SchedTypes, ThreadTypes, Points, IdlePoints
    <2>4. Hands(t)'
      BY <2>1, <2>2 DEF ThreadTypes, HandInv, Hands, TaskPoints, TriggerPoints
    <2>5. QED
      BY <1>1, <2>3, <2>4 DEF Kept
  <1>8. CASE listExpiredCb(t)
    <2>1. SchedTypes' /\ ThreadTypes'
      BY <1>8 DEF listExpiredCb, SchedTypes, ThreadTypes, Points, IdlePoints
    <2>2. Hands(t)'
      BY <1>8 DEF listExpiredCb, ThreadTypes, HandInv, Hands, TaskPoints, TriggerPoints
    <2>3. QED
      BY <1>1, <2>1, <2>2 DEF Kept
  <1>9. CASE scheduleExpired(t)
    <2>1. SchedTypes' /\ ThreadTypes'
      BY <1>9, <1>a DEF scheduleExpired, SchedTypes, ThreadTypes, Points, IdlePoints
    <2>2. Hands(t)'
      BY <1>9 DEF scheduleExpired, ThreadTypes, HandInv, Hands, TaskPoints, TriggerPoints
    <2>3. QED
      BY <1>1, <2>1, <2>2 DEF Kept
  <1>10. CASE Pick(t)
    <2>1. SchedTypes' /\ ThreadTypes'
      BY <1>10 DEF Pick, SchedTypes, ThreadTypes, Points, TaskPoints
    <2>2. Hands(t)'
      BY <1>10, <1>a DEF Pick, ThreadTypes, SchedTypes, HandInv, Hands, TaskPoints, TriggerPoints
    <2>3. QED
      BY <1>1, <2>1, <2>2 DEF Kept
  <1>11. QED
    BY <1>2, <1>3, <1>4, <1>5, <1>6, <1>7, <1>8, <1>9, <1>10

\* No step breaks the types, the threads' hands, or the contexts.
LEMMA TypesNext == Types /\ HandInv /\ HeldIffArmed /\ [Next]_vars => (Types /\ HandInv /\ HeldIffArmed)'
  <1> SUFFICES ASSUME Types, HandInv, HeldIffArmed, [Next]_vars
               PROVE  (Types /\ HandInv /\ HeldIffArmed)'
    OBVIOUS
  <1>1. CASE UNCHANGED vars \/ Over
    BY <1>1 DEF Over, vars, ctxVars, schedVars, thrVars, Types, CtxTypes, SchedTypes, ThreadTypes,
       HandInv, Hands, HeldIffArmed
  <1>2. CASE schedule
    <2>1. Types' /\ HeldIffArmed'
      BY <1>2 DEF schedule, ctxVars, thrVars, Types, CtxTypes, SchedTypes, ThreadTypes, HeldIffArmed
    <2>2. HandInv'
      BY <1>2 DEF schedule, thrVars, HandInv, Hands
    <2>3. QED
      BY <2>1, <2>2
  <1>3. CASE stop
    <2>1. Types' /\ HeldIffArmed'
      BY <1>3 DEF stop, ctxVars, thrVars, Types, CtxTypes, SchedTypes, ThreadTypes, HeldIffArmed
    <2>2. HandInv'
      BY <1>3 DEF stop, thrVars, HandInv, Hands
    <2>3. QED
      BY <2>1, <2>2
  <1>4. ASSUME NEW t \in Threads, thread(t) PROVE (Types /\ HandInv /\ HeldIffArmed)'
    <2>1. Kept(t)
      BY <1>4, LookupKeeps, ResizeKeeps, AddKeeps, SectionFacts, DeleteKeeps, CancelKeeps,
         TriggerKeeps, TriggeredKeeps, ReportKeeps, OtherKeeps DEF thread, task, idle
    <2>2. QED
      BY <1>4, <2>1, ThreadFrame, HandsFrame DEF Kept
  <1>5. QED
    BY <1>1, <1>2, <1>3, <1>4 DEF Next

-----------------------------------------------------------------------------
(***************************************************************************)
(* The pending count.                                                        *)
(***************************************************************************)

Armed == {p \in Contexts \X Events : p[2] \in events[p[1]]}
InTriggered == {t \in Threads : pc[t] = "triggered"}

PendingInv ==
    /\ m_pendingEventCount \in Nat
    /\ aborted = "none" => m_pendingEventCount = Cardinality(Armed) + Cardinality(InTriggered)

\* There are finitely many events to wait for.
LEMMA EventsFinite == IsFiniteSet(Contexts \X Events)
  <1>1. IsFiniteSet(Gens)
    BY IoAssumption, FS_Interval DEF Gens
  <1>2. IsFiniteSet(Contexts)
    BY <1>1, IoAssumption, FS_Product DEF Contexts
  <1>3. IsFiniteSet(Events)
    <2>1. Events = {"READ"} \cup {"WRITE"}
      BY DEF Events
    <2>2. QED
      BY <2>1, FS_Singleton, FS_Union
  <1>4. QED
    BY <1>2, <1>3, FS_Product

\* A set of pairs of a context and an event, when one pair comes in or goes out.
LEMMA CountPairs ==
  ASSUME NEW S \in SUBSET (Contexts \X Events), NEW T \in SUBSET (Contexts \X Events),
         NEW p \in Contexts \X Events, \A q \in (Contexts \X Events) \ {p} : q \in S <=> q \in T
  PROVE  /\ Cardinality(S) \in Nat /\ Cardinality(T) \in Nat
         /\ p \notin S /\ p \in T => Cardinality(T) = Cardinality(S) + 1
         /\ p \in S /\ p \notin T => Cardinality(T) = Cardinality(S) - 1
         /\ (p \in S <=> p \in T) => T = S
  <1>1. IsFiniteSet(S) /\ IsFiniteSet(T)
    BY EventsFinite, FS_Subset
  <1>2. Cardinality(S) \in Nat /\ Cardinality(T) \in Nat
    BY <1>1, FS_CardinalityType
  <1>3. ASSUME p \notin S, p \in T PROVE Cardinality(T) = Cardinality(S) + 1
    <2>1. T = S \cup {p}
      BY <1>3
    <2>2. QED
      BY <1>1, <1>3, <2>1, FS_AddElement
  <1>4. ASSUME p \in S, p \notin T PROVE Cardinality(T) = Cardinality(S) - 1
    <2>1. T = S \ {p}
      BY <1>4
    <2>2. QED
      BY <1>1, <1>4, <2>1, FS_RemoveElement
  <1>5. QED
    BY <1>2, <1>3, <1>4

\* A set of threads, when one thread comes in or goes out.
LEMMA CountThreads ==
  ASSUME NEW S \in SUBSET Threads, NEW T \in SUBSET Threads, NEW t \in Threads,
         \A u \in Threads \ {t} : u \in S <=> u \in T
  PROVE  /\ Cardinality(S) \in Nat /\ Cardinality(T) \in Nat
         /\ t \notin S /\ t \in T => Cardinality(T) = Cardinality(S) + 1
         /\ t \in S /\ t \notin T => Cardinality(T) = Cardinality(S) - 1
         /\ (t \in S <=> t \in T) => T = S
  <1>1. IsFiniteSet(S) /\ IsFiniteSet(T)
    BY IoAssumption, FS_Subset
  <1>2. Cardinality(S) \in Nat /\ Cardinality(T) \in Nat
    BY <1>1, FS_CardinalityType
  <1>3. ASSUME t \notin S, t \in T PROVE Cardinality(T) = Cardinality(S) + 1
    <2>1. T = S \cup {t}
      BY <1>3
    <2>2. QED
      BY <1>1, <1>3, <2>1, FS_AddElement
  <1>4. ASSUME t \in S, t \notin T PROVE Cardinality(T) = Cardinality(S) - 1
    <2>1. T = S \ {t}
      BY <1>4
    <2>2. QED
      BY <1>1, <1>4, <2>1, FS_RemoveElement
  <1>5. QED
    BY <1>2, <1>3, <1>4

\* An event of a context registered, or taken out, or neither.
LEMMA ArmedMoves ==
  ASSUME CtxTypes, NEW c \in Contexts, NEW e \in Events, NEW S \in SUBSET Events,
         events' = [events EXCEPT ![c] = S]
  PROVE  /\ Cardinality(Armed) \in Nat /\ Cardinality(Armed') \in Nat
         /\ e \notin events[c] /\ S = events[c] \cup {e} => Cardinality(Armed') = Cardinality(Armed) + 1
         /\ e \in events[c] /\ S = events[c] \ {e} => Cardinality(Armed') = Cardinality(Armed) - 1
  <1>1. events'[c] = S /\ \A d \in Contexts \ {c} : events'[d] = events[d]
    BY EventsSet
  <1>2. <<c, e>> \in Contexts \X Events /\ Armed \in SUBSET (Contexts \X Events)
        /\ Armed' \in SUBSET (Contexts \X Events)
        /\ (<<c, e>> \in Armed <=> e \in events[c]) /\ (<<c, e>> \in Armed' <=> e \in S)
    BY <1>1 DEF Armed
  <1>3. ASSUME S \in {events[c] \cup {e}, events[c] \ {e}}, NEW q \in (Contexts \X Events) \ {<<c, e>>}
        PROVE  q \in Armed <=> q \in Armed'
    <2>1. PICK d \in Contexts, g \in Events : q = <<d, g>>
      OBVIOUS
    <2>2. (q \in Armed <=> g \in events[d]) /\ (q \in Armed' <=> g \in events'[d])
      BY <2>1 DEF Armed
    <2>3. QED
      BY <1>1, <1>3, <2>1, <2>2
  <1>4. Cardinality(Armed) \in Nat /\ Cardinality(Armed') \in Nat
    BY <1>2, EventsFinite, FS_Subset, FS_CardinalityType
  <1>5. QED
    BY <1>2, <1>3, <1>4, CountPairs

\* A thread enters or leaves the point between a trigger and its decrement.
LEMMA TriggeredMoves ==
  ASSUME ThreadTypes, NEW t \in Threads, \A u \in Threads \ {t} : pc'[u] = pc[u]
  PROVE  /\ Cardinality(InTriggered) \in Nat /\ Cardinality(InTriggered') \in Nat
         /\ pc[t] # "triggered" /\ pc'[t] = "triggered" =>
               Cardinality(InTriggered') = Cardinality(InTriggered) + 1
         /\ pc[t] = "triggered" /\ pc'[t] # "triggered" =>
               Cardinality(InTriggered') = Cardinality(InTriggered) - 1
         /\ (pc[t] = "triggered" <=> pc'[t] = "triggered") => InTriggered' = InTriggered
  <1>1. /\ InTriggered \in SUBSET Threads /\ InTriggered' \in SUBSET Threads
        /\ \A u \in Threads \ {t} : u \in InTriggered <=> u \in InTriggered'
        /\ t \in InTriggered <=> pc[t] = "triggered"
        /\ t \in InTriggered' <=> pc'[t] = "triggered"
    BY DEF InTriggered
  <1>2. QED
    BY <1>1, CountThreads

\* The steps that register, trigger or count change both sides alike.
LEMMA PendingThread ==
  ASSUME Types, HandInv, HeldIffArmed, PendingInv, aborted = "none", NEW t \in Threads, thread(t)
  PROVE  PendingInv'
  <1> USE DEF Types
  <1>0. \A u \in Threads \ {t} : pc'[u] = pc[u]
    BY ThreadFrame DEF OthersAlone
  <1>1. ASSUME m_pendingEventCount' = m_pendingEventCount, events' = events,
               pc[t] = "triggered" <=> pc'[t] = "triggered"
        PROVE  PendingInv'
    <2>1. InTriggered' = InTriggered
      BY <1>0, <1>1, TriggeredMoves
    <2>2. Armed' = Armed
      BY <1>1 DEF Armed
    <2>3. QED
      BY <1>1, <2>1, <2>2 DEF PendingInv
  <1>2. CASE addEvent(t)
    <2>1. CASE AddFails(t)
      <3>1. m_pendingEventCount' = m_pendingEventCount /\ events' = events
            /\ pc[t] # "triggered" /\ pc'[t] # "triggered"
        BY <2>1 DEF AddFails, Enter, Goto, ctxVars, ThreadTypes
      <3>2. QED
        BY <1>1, <3>1
    <2>2. ASSUME NEW c \in Contexts, NEW e \in Events, NEW f \in Tasks, Adds(t, c, e, f)
          PROVE  PendingInv'
      <3>1. m_pendingEventCount' = m_pendingEventCount + 1
            /\ events' = [events EXCEPT ![c] = events[c] \cup {e}]
            /\ (aborted' = "none" => e \notin events[c])
            /\ pc[t] = "add" /\ pc'[t] # "triggered"
        BY <2>2 DEF Adds, ThreadTypes
      <3>2. events[c] \cup {e} \in SUBSET Events
        BY DEF CtxTypes
      <3>3. Cardinality(Armed) \in Nat
            /\ (aborted' = "none" => Cardinality(Armed') = Cardinality(Armed) + 1)
        BY <3>1, <3>2, ArmedMoves
      <3>4. InTriggered' = InTriggered /\ Cardinality(InTriggered) \in Nat
        BY <1>0, <3>1, TriggeredMoves
      <3>5. QED
        BY <3>1, <3>3, <3>4 DEF PendingInv
    <2>3. QED
      BY <1>2, <2>1, <2>2, AddFacts
  <1>3. CASE delEvent(t)
    <2>1. PICK c \in Contexts, e \in Events : Deletes(t, c, e)
      BY <1>3, SectionFacts
    <2>2. m_pendingEventCount' = m_pendingEventCount - 1
          /\ events' = [events EXCEPT ![c] = events[c] \ {e}] /\ e \in events[c]
          /\ pc[t] = "del" /\ pc'[t] # "triggered"
      BY <2>1 DEF Deletes, ThreadTypes
    <2>3. events[c] \ {e} \in SUBSET Events
      BY DEF CtxTypes
    <2>4. Cardinality(Armed) \in Nat /\ Cardinality(Armed') \in Nat
          /\ Cardinality(Armed') = Cardinality(Armed) - 1
      BY <2>2, <2>3, ArmedMoves
    <2>5. InTriggered' = InTriggered /\ Cardinality(InTriggered) \in Nat
      BY <1>0, <2>2, TriggeredMoves
    <2>6. QED
      BY <2>2, <2>4, <2>5 DEF PendingInv
  <1>4. CASE triggerEvent(t)
    <2>1. CASE TriggerAborts(t)
      BY <2>1 DEF TriggerAborts, PendingInv
    <2>2. ASSUME NEW c \in Contexts, NEW e \in Events, Triggers(t, c, e) PROVE PendingInv'
      <3>1. m_pendingEventCount' = m_pendingEventCount
            /\ events' = [events EXCEPT ![c] = events[c] \ {e}] /\ e \in events[c]
            /\ pc[t] = "trigger" /\ pc'[t] = "triggered"
        BY <2>2 DEF Triggers, ThreadTypes
      <3>2. events[c] \ {e} \in SUBSET Events
        BY DEF CtxTypes
      <3>3. Cardinality(Armed) \in Nat /\ Cardinality(Armed') \in Nat
            /\ Cardinality(Armed') = Cardinality(Armed) - 1
        BY <3>1, <3>2, ArmedMoves
      <3>4. Cardinality(InTriggered') = Cardinality(InTriggered) + 1 /\ Cardinality(InTriggered) \in Nat
        BY <1>0, <3>1, TriggeredMoves
      <3>5. QED
        BY <3>1, <3>3, <3>4 DEF PendingInv
    <2>3. QED
      BY <1>4, <2>1, <2>2, SectionFacts
  <1>5. CASE Triggered(t)
    <2>1. m_pendingEventCount' = m_pendingEventCount - 1 /\ events' = events
          /\ pc[t] = "triggered"
      BY <1>5 DEF Triggered
    <2>2. pc'[t] # "triggered"
      <3>1. call[t].back \in {"task", "events"}
        BY CallFields DEF ThreadTypes
      <3>2. QED
        BY <1>5, <3>1 DEF Triggered, Goto, ThreadTypes
    <2>3. Cardinality(InTriggered') = Cardinality(InTriggered) - 1
          /\ Cardinality(InTriggered) \in Nat /\ Cardinality(InTriggered') \in Nat
      BY <1>0, <2>1, <2>2, TriggeredMoves
    <2>4. Armed' = Armed
      BY <2>1 DEF Armed
    <2>5. Cardinality(Armed) \in Nat
      BY EventsFinite, FS_Subset, FS_CardinalityType DEF Armed
    <2>6. QED
      BY <2>1, <2>3, <2>4, <2>5 DEF PendingInv
  <1>6. CASE ~(addEvent(t) \/ delEvent(t) \/ triggerEvent(t) \/ Triggered(t))
    <2> USE DEF Goto, ctxVars, ThreadTypes
    <2>1. CASE addEventLookup(t) \/ lookup(t) \/ ReturnFalse(t)
      <3>1. m_pendingEventCount' = m_pendingEventCount /\ events' = events
            /\ pc[t] # "triggered" /\ pc'[t] # "triggered"
        BY <2>1 DEF addEventLookup, lookup, ReturnFalse, Enter
      <3>2. QED
        BY <1>1, <3>1
    <2>2. CASE processReport(t)
      <3>1. PICK r \in batch[t] :
              Skips(t, r) \/ \E c \in Contexts, S \in SUBSET Events : Takes(t, r, c, S)
        BY <2>2, ReportFacts
      <3>2. m_pendingEventCount' = m_pendingEventCount /\ events' = events
            /\ pc[t] # "triggered" /\ pc'[t] # "triggered"
        BY <3>1 DEF Skips, Takes
      <3>3. QED
        BY <1>1, <3>2
    <2>3. CASE contextResize(t) \/ cancelEvent(t) \/ Sleep(t) \/ YieldToHold(t) \/ Finish(t)
               \/ Pick(t) \/ EnterIdle(t) \/ Exit(t)
      <3>1. m_pendingEventCount' = m_pendingEventCount /\ events' = events
            /\ pc[t] # "triggered" /\ pc'[t] # "triggered"
        BY <2>3 DEF contextResize, cancelEvent, Sleep, YieldToHold, Finish, Pick, EnterIdle, Exit
      <3>2. QED
        BY <1>1, <3>1
    <2>4. CASE stoppingTimer(t) \/ stoppingPending(t) \/ stoppingQueue(t)
               \/ epoll_wait(t) \/ listExpiredCb(t) \/ scheduleExpired(t) \/ idleSwapOut(t)
      <3>1. m_pendingEventCount' = m_pendingEventCount /\ events' = events
            /\ pc[t] # "triggered" /\ pc'[t] # "triggered"
        BY <2>4 DEF stoppingTimer, stoppingPending, stoppingQueue, epoll_wait, listExpiredCb,
           scheduleExpired, idleSwapOut
      <3>2. QED
        BY <1>1, <3>1
    <2>5. QED
      BY <1>6, <2>1, <2>2, <2>3, <2>4 DEF thread, task, idle
  <1>7. QED
    BY <1>2, <1>3, <1>4, <1>5, <1>6

IoInv == Types /\ HandInv /\ HeldIffArmed /\ PendingInv

\* The count starts at zero.
LEMMA IoInitial == Init => IoInv
  <1> SUFFICES ASSUME Init PROVE IoInv
    OBVIOUS
  <1>1. Armed = {} /\ InTriggered = {}
    BY DEF Init, Armed, InTriggered
  <1>2. PendingInv
    BY <1>1, FS_EmptySet DEF Init, PendingInv
  <1>3. QED
    BY <1>2, TypesInit DEF IoInv

\* No step makes the count wrong.
LEMMA IoStep == IoInv /\ [Next]_vars => IoInv'
  <1> SUFFICES ASSUME IoInv, [Next]_vars PROVE IoInv'
    OBVIOUS
  <1> USE DEF IoInv
  <1>1. ASSUME UNCHANGED <<m_pendingEventCount, events, pc, aborted>> PROVE PendingInv'
    BY <1>1 DEF PendingInv, Armed, InTriggered
  <1>2. PendingInv'
    <2>1. CASE UNCHANGED vars \/ Over \/ schedule \/ stop
      BY <1>1, <2>1 DEF Over, schedule, stop, vars, ctxVars, thrVars
    <2>2. CASE aborted = "none" /\ \E t \in Threads : thread(t)
      BY <2>2, PendingThread
    <2>3. QED
      BY <2>1, <2>2 DEF Next
  <1>3. QED
    BY <1>2, TypesNext

\* The invariant holds in every behaviour.
LEMMA IoAlways == Spec => []IoInv
  BY IoInitial, IoStep, PTL DEF Spec

\* Type correctness of the epoll scheduler, for any number of threads,
\* descriptors and tasks; in particular m_pendingEventCount never wraps below
\* zero.
THEOREM IoTypeCorrect == Spec => []TypeOK
  <1>1. IoInv => TypeOK
    BY TypeParts DEF IoInv, PendingInv
  <1>2. QED
    BY <1>1, IoAlways, PTL

\* m_pendingEventCount counts the registered events and the triggered ones whose
\* decrement is still to come, whatever addEvent, delEvent, cancelEvent,
\* cancelAll and idle() do on different threads, and whatever is replaced by
\* contextResize meanwhile.
THEOREM PendingCounted == Spec => []PendingExact
  <1>1. IoInv => PendingExact
    BY DEF IoInv, PendingInv, PendingExact, Armed, InTriggered
  <1>2. QED
    BY <1>1, IoAlways, PTL

-----------------------------------------------------------------------------
(***************************************************************************)
(* The end.  A thread exits from a view of the timers, the count and the     *)
(* queue that may be out of date; the queue is empty all the same once the   *)
(* last one has exited, since nobody is left who could have filled it.       *)
(***************************************************************************)

DrainInv == AllExited /\ aborted = "none" => m_fibers = {}

\* Only the last exit makes AllExited true, and it finds the queue empty.
LEMMA DrainStep == IoInv /\ DrainInv /\ [Next]_vars => DrainInv'
  <1> SUFFICES ASSUME IoInv, DrainInv, [Next]_vars, AllExited' PROVE DrainInv'
    BY DEF DrainInv
  <1> USE DEF IoInv, Types
  <1>1. CASE UNCHANGED vars \/ Over
    BY <1>1 DEF Over, vars, schedVars, thrVars, DrainInv, AllExited
  <1>2. CASE schedule
    BY <1>2 DEF schedule, AllExited
  <1>3. CASE stop
    <2>1. pc' = pc /\ ~stopRequested
      BY <1>3 DEF stop, thrVars
    <2>2. PICK t \in Threads : TRUE
      BY IoAssumption
    <2>3. pc[t] = "exited"
      BY <2>1 DEF AllExited
    <2>4. QED
      BY <2>1, <2>3 DEF HandInv, Hands
  <1>4. ASSUME NEW t \in Threads, thread(t) PROVE DrainInv'
    <2>1. pc'[t] = "exited"
      BY DEF AllExited
    <2>2. call[t].back \in {"task", "events"}
      BY CallFields DEF ThreadTypes
    <2>3. ~task(t) /\ ~idle(t) /\ ~triggerEvent(t) /\ ~Triggered(t) /\ ~Pick(t) /\ ~EnterIdle(t)
      <3> USE <2>1, <2>2 DEF Goto, ThreadTypes
      <3>1. ~task(t)
        BY DEF task, addEventLookup, contextResize, addEvent, lookup, ReturnFalse, delEvent,
           cancelEvent, Sleep, YieldToHold, Finish, Enter
      <3>2. ~idle(t)
        BY DEF idle, stoppingTimer, stoppingPending, stoppingQueue, epoll_wait, listExpiredCb,
           scheduleExpired, processReport, idleSwapOut
      <3>3. ~triggerEvent(t) /\ ~Triggered(t) /\ ~Pick(t) /\ ~EnterIdle(t)
        BY DEF triggerEvent, Triggered, Pick, EnterIdle
      <3>4. QED
        BY <3>1, <3>2, <3>3
    <2>4. Exit(t)
      BY <1>4, <2>3 DEF thread
    <2>5. HandInv'
      BY TypesNext
    <2>6. \A u \in Threads : cur[u] = None
      <3>1. cur' = cur
        BY <2>4 DEF Exit
      <3>2. \A u \in Threads : cur'[u] = None
        BY <2>5 DEF AllExited, HandInv, Hands, TaskPoints, TriggerPoints
      <3>3. QED
        BY <3>1, <3>2
    <2>7. m_fibers = {}
      BY <2>4, <2>6, IoAssumption DEF Exit, NothingToPick, OnThread, SchedTypes
    <2>8. QED
      BY <2>4, <2>7 DEF Exit, schedVars, DrainInv
  <1>5. QED
    BY <1>1, <1>2, <1>3, <1>4 DEF Next

\* When every thread has left run(), no task is queued and no thread still holds
\* one that it took, that a timer gave it or that epoll_wait reported to it:
\* stopping() reads the timers, the pending count and the queue one after the
\* other, and yet no task that was queued is left behind.
THEOREM QueueEmptyAtExit == Spec => []QueueDrained
  <1>1. Init => DrainInv
    BY DEF Init, DrainInv
  <1>2. Spec => []DrainInv
    BY <1>1, DrainStep, IoAlways, PTL DEF Spec
  <1>3. IoInv /\ DrainInv => QueueDrained
    BY DEF IoInv, DrainInv, QueueDrained, AllExited, HandInv, Hands, TaskPoints, TriggerPoints
  <1>4. QED
    BY <1>2, <1>3, IoAlways, PTL

-----------------------------------------------------------------------------
(***************************************************************************)
(* Where a task is.  The counts of OnePlace are stated without numbers: what *)
(* holds a task is a context, the queue, the set of timers or the list a     *)
(* thread collected, and no two of them hold the same task.                  *)
(***************************************************************************)

Held(f) == \E c \in Contexts, e \in Events : held[c][e] = f
Expiring(f) == \E t \in Threads : f \in expired[t]
Nowhere(f) == ~Held(f) /\ f \notin m_fibers /\ f \notin timers /\ ~Expiring(f)

AtMostOnePlace(f) ==
    /\ \A c, d \in Contexts, e, g \in Events : held[c][e] = f /\ held[d][g] = f => c = d /\ e = g
    /\ \A t, u \in Threads : f \in expired[t] /\ f \in expired[u] => t = u
    /\ Held(f) => f \notin m_fibers /\ f \notin timers /\ ~Expiring(f)
    /\ f \in m_fibers => f \notin timers /\ ~Expiring(f)
    /\ f \in timers => ~Expiring(f)

\* A task is nowhere before it is submitted, while it executes, and after it is
\* over; a fiber that parks is executing still, and may be somewhere already.
PlaceRule(f) ==
    /\ AtMostOnePlace(f)
    /\ f \in fresh \cup over => Nowhere(f)
    /\ f \notin fresh \cup over /\ ~OnThread(f) => ~Nowhere(f)
    /\ \A t \in Threads : cur[t] = f /\ pc[t] # "park" => Nowhere(f)

\* Executing, being new and being over exclude each other.
CurInv ==
    /\ \A t, u \in Threads : cur[t] # None /\ cur[t] = cur[u] => t = u
    /\ \A t \in Threads : cur[t] \notin fresh \cup over
    /\ \A t \in Threads : pc[t] = "park" => cur[t] \in Fibers
    /\ fresh \cap over = {}

\* addEvent works for the calling fiber, or for a callback nobody else has.
CallTask(t) ==
    IF pc[t] \in {"resize", "add"}
      THEN (call[t].task = cur[t] /\ cur[t] \in Fibers) \/ call[t].task \in fresh \cap Callbacks
      ELSE call[t].task = None

CallInv ==
    /\ \A t \in Threads : CallTask(t)
    /\ \A t, u \in Threads : call[t].task # None /\ call[t].task = call[u].task => t = u

Placed == CurInv /\ CallInv /\ \A f \in Tasks : PlaceRule(f)

\* A step that does not move task f.
Unmoved(f) ==
    /\ \A c \in Contexts, e \in Events : held'[c][e] = f <=> held[c][e] = f
    /\ \A u \in Threads : f \in expired'[u] <=> f \in expired[u]
    /\ f \in m_fibers' <=> f \in m_fibers
    /\ f \in timers' <=> f \in timers
    /\ f \in fresh' <=> f \in fresh
    /\ f \in over' <=> f \in over
    /\ \A u \in Threads : cur'[u] = f <=> cur[u] = f
    /\ \A u \in Threads : cur[u] = f /\ pc[u] = "park" => pc'[u] = "park"

\* Then the task is where the rule allows it to be.
LEMMA UnmovedRule ==
  ASSUME NEW f, PlaceRule(f), Unmoved(f)
  PROVE  PlaceRule(f)'
  <1>1. /\ Held(f)' <=> Held(f)
        /\ Expiring(f)' <=> Expiring(f)
        /\ OnThread(f)' <=> OnThread(f)
    BY DEF Unmoved, Held, Expiring, OnThread
  <1>2. Nowhere(f)' <=> Nowhere(f)
    BY <1>1 DEF Nowhere, Unmoved
  <1>3. AtMostOnePlace(f)'
    BY <1>1 DEF AtMostOnePlace, Unmoved, PlaceRule
  <1>4. QED
    BY <1>1, <1>2, <1>3 DEF PlaceRule, Unmoved

\* The calls in progress, when thread t takes a step.
LEMMA CallsFrame ==
  ASSUME CallInv, NEW t \in Threads, OthersAlone(t), CallTask(t)',
         \A u \in Threads \ {t} : call[u].task \in fresh => call[u].task \in fresh',
         \A u \in Threads \ {t} : call'[t].task # None => call[u].task # call'[t].task
  PROVE  CallInv'
  <1>1. \A u \in Threads \ {t} : CallTask(u)'
    BY DEF CallInv, CallTask, OthersAlone
  <1>2. \A u, v \in Threads : call'[u].task # None /\ call'[u].task = call'[v].task => u = v
    BY DEF CallInv, OthersAlone
  <1>3. QED
    BY <1>1, <1>2 DEF CallInv

\* A step that moves no task at all.
LEMMA NothingMoves ==
  ASSUME Placed, NEW t \in Threads, OthersAlone(t), CallTask(t)',
         UNCHANGED <<held, m_fibers, timers, expired, fresh, over, cur>>,
         pc[t] # "park", pc'[t] # "park",
         \A u \in Threads \ {t} : call'[t].task # None => call[u].task # call'[t].task
  PROVE  Placed'
  <1>1. CurInv'
    BY DEF Placed, CurInv, OthersAlone
  <1>2. CallInv'
    BY CallsFrame DEF Placed
  <1>3. ASSUME NEW f \in Tasks PROVE PlaceRule(f)'
    <2>1. Unmoved(f)
      BY DEF Unmoved, OthersAlone
    <2>2. QED
      BY <2>1, UnmovedRule DEF Placed
  <1>4. QED
    BY <1>1, <1>2, <1>3 DEF Placed

\* Calls that only look their context up, replace contexts, or leave the kernel.
LEMMA CallsPlaced ==
  ASSUME Types, HandInv, HeldIffArmed, Placed, NEW t \in Threads,
         addEventLookup(t) \/ lookup(t) \/ ReturnFalse(t) \/ contextResize(t) \/ cancelEvent(t)
           \/ AddFails(t)
  PROVE  Placed'
  <1> USE DEF Types
  <1>0. call[t] \in Calls
    BY DEF ThreadTypes
  <1>1. OthersAlone(t)
    BY ThreadFrame DEF thread, task, AddFails, Enter, ThreadTypes, OthersAlone, Goto, schedVars
  <1>2. /\ UNCHANGED <<held, m_fibers, timers, expired, fresh, over, cur>>
        /\ pc[t] # "park" /\ pc'[t] # "park"
    BY DEF addEventLookup, lookup, ReturnFalse, contextResize, cancelEvent, AddFails, Enter, Goto,
       ctxVars, schedVars, ThreadTypes
  <1>3. CASE addEventLookup(t)
    <2>1. PICK fd \in Fds, e \in Events, f \in Tasks :
            /\ f \in ({cur[t]} \cap Fibers) \cup (fresh \cap Callbacks)
            /\ \A u \in Threads : call[u].task # f
            /\ IF m_size > fd
                 THEN Enter(t, "add", [NoCall EXCEPT !.fd = fd, !.event = e, !.task = f,
                                                     !.ctx = <<fd, slot[fd]>>])
                 ELSE Enter(t, "resize", [NoCall EXCEPT !.fd = fd, !.event = e, !.task = f])
      BY <1>3 DEF addEventLookup
    <2>2. pc'[t] \in {"resize", "add"} /\ call'[t].task = f
      <3>1. pc'[t] \in {"resize", "add"}
        BY <2>1 DEF Enter, Goto, ThreadTypes
      <3>2. \/ call'[t] = [NoCall EXCEPT !.fd = fd, !.event = e, !.task = f, !.ctx = <<fd, slot[fd]>>]
            \/ call'[t] = [NoCall EXCEPT !.fd = fd, !.event = e, !.task = f]
        BY <2>1 DEF Enter, ThreadTypes
      <3>3. QED
        BY <3>1, <3>2 DEF NoCall
    <2>3. CallTask(t)'
      BY <1>2, <2>1, <2>2 DEF CallTask
    <2>4. \A u \in Threads \ {t} : call'[t].task # None => call[u].task # call'[t].task
      BY <2>1, <2>2
    <2>5. QED
      BY <1>1, <1>2, <2>3, <2>4, NothingMoves
  <1>4. CASE contextResize(t)
    <2>1. PICK c : call' = [call EXCEPT ![t].ctx = c]
      BY <1>4 DEF contextResize
    <2>2. call'[t].task = call[t].task
      BY <1>0, <2>1 DEF Calls, ThreadTypes
    <2>3. pc[t] = "resize" /\ pc'[t] = "add"
      BY <1>4 DEF contextResize, Goto, ThreadTypes
    <2>4. CallTask(t)'
      BY <1>2, <2>2, <2>3 DEF CallTask, Placed, CallInv
    <2>5. \A u \in Threads \ {t} : call'[t].task # None => call[u].task # call'[t].task
      BY <2>2 DEF Placed, CallInv
    <2>6. QED
      BY <1>1, <1>2, <2>4, <2>5, NothingMoves
  <1>5. CASE lookup(t) \/ ReturnFalse(t) \/ cancelEvent(t) \/ AddFails(t)
    <2>1. call'[t].task = None
      <3>1. CASE lookup(t)
        <4>1. PICK fd \in Fds, e \in Events, point \in {"del", "cancel", "cancelAll"} :
                Enter(t, point, [NoCall EXCEPT !.fd = fd, !.event = e, !.ctx = <<fd, slot[fd]>>])
          BY <3>1 DEF lookup
        <4>2. call'[t] = [NoCall EXCEPT !.fd = fd, !.event = e, !.ctx = <<fd, slot[fd]>>]
          BY <4>1 DEF Enter, ThreadTypes
        <4>3. QED
          BY <4>2 DEF NoCall
      <3>a. CASE ReturnFalse(t) \/ AddFails(t)
        <4>1. call'[t] = NoCall
          BY <3>a DEF ReturnFalse, AddFails, Enter, ThreadTypes
        <4>2. QED
          BY <4>1 DEF NoCall
      <3>2. CASE cancelEvent(t)
        <4>1. PICK c \in Contexts, S \in SUBSET Events : Cancels(t, c, S)
          BY <3>2, SectionFacts
        <4>2. call[t].task = None
          BY <4>1 DEF Cancels, Placed, CallInv, CallTask
        <4>3. call'[t].task = call[t].task
          BY <1>0, <4>1 DEF Cancels, Calls, ThreadTypes
        <4>4. QED
          BY <4>2, <4>3
      <3>3. QED
        BY <1>5, <3>1, <3>a, <3>2
    <2>2. pc'[t] \notin {"resize", "add"}
      BY <1>5 DEF lookup, ReturnFalse, cancelEvent, AddFails, Enter, Goto, ThreadTypes
    <2>3. CallTask(t)'
      BY <2>1, <2>2 DEF CallTask
    <2>4. QED
      BY <1>1, <1>2, <2>1, <2>3, NothingMoves
  <1>6. QED
    BY <1>3, <1>4, <1>5

\* What idle() does without moving a task, and the decrement after a trigger.
LEMMA IdlePlaced ==
  ASSUME Types, HandInv, Placed, NEW t \in Threads,
         stoppingTimer(t) \/ stoppingPending(t) \/ stoppingQueue(t) \/ epoll_wait(t)
           \/ processReport(t) \/ idleSwapOut(t) \/ EnterIdle(t) \/ Exit(t) \/ Triggered(t)
  PROVE  Placed'
  <1> USE DEF Types
  <1>0. call[t] \in Calls /\ call[t].back \in {"task", "events"}
    BY CallFields DEF ThreadTypes
  <1>1. OthersAlone(t)
    BY ThreadFrame DEF thread, idle
  <1>2. ASSUME UNCHANGED <<held, m_fibers, timers, expired, fresh, over, cur>>,
               pc[t] \notin {"park", "resize", "add"}, pc'[t] \notin {"park", "resize", "add"},
               call'[t].task \in {None, call[t].task}
        PROVE  Placed'
    <2>1. call[t].task = None
      BY <1>2 DEF Placed, CallInv, CallTask
    <2>2. CallTask(t)'
      BY <1>2, <2>1 DEF CallTask
    <2>3. QED
      BY <1>1, <1>2, <2>1, <2>2, NothingMoves
  <1>3. CASE stoppingTimer(t) \/ stoppingPending(t) \/ stoppingQueue(t) \/ epoll_wait(t)
             \/ idleSwapOut(t) \/ EnterIdle(t) \/ Exit(t)
    <2>1. /\ UNCHANGED <<held, m_fibers, timers, expired, fresh, over, cur, call>>
          /\ pc[t] \notin {"park", "resize", "add"} /\ pc'[t] \notin {"park", "resize", "add"}
      BY <1>3 DEF stoppingTimer, stoppingPending, stoppingQueue, epoll_wait, idleSwapOut, EnterIdle,
         Exit, Goto, ctxVars, schedVars, ThreadTypes
    <2>2. QED
      BY <1>2, <2>1
  <1>4. CASE processReport(t)
    <2>1. PICK r \in batch[t] :
            Skips(t, r) \/ \E c \in Contexts, S \in SUBSET Events : Takes(t, r, c, S)
      BY <1>4, ReportFacts
    <2>2. CASE Skips(t, r)
      BY <1>2, <2>2 DEF Skips
    <2>3. ASSUME NEW c \in Contexts, NEW S \in SUBSET Events, Takes(t, r, c, S) PROVE Placed'
      <3>1. call'[t] = [NoCall EXCEPT !.ctx = c, !.todo = S, !.back = "events"]
        BY <2>3 DEF Takes, ThreadTypes
      <3>2. call'[t].task = None
        BY <3>1 DEF NoCall
      <3>3. /\ UNCHANGED <<held, m_fibers, timers, expired, fresh, over, cur>>
            /\ pc[t] = "events" /\ pc'[t] = "trigger"
        BY <2>3 DEF Takes, ThreadTypes
      <3>4. QED
        BY <1>2, <3>2, <3>3
    <2>4. QED
      BY <2>1, <2>2, <2>3
  <1>5. CASE Triggered(t)
    <2> DEFINE left == call[t].todo \ {NextEvent(t)}
               next == IF left = {} THEN NoCall ELSE [call[t] EXCEPT !.todo = left]
    <2>1. /\ UNCHANGED <<held, m_fibers, timers, expired, fresh, over, cur>>
          /\ pc[t] = "triggered" /\ pc'[t] = (IF left = {} THEN call[t].back ELSE "trigger")
          /\ call'[t] = next
      BY <1>5 DEF Triggered, Goto, schedVars, ThreadTypes
    <2>2. next.task \in {None, call[t].task}
      BY <1>0 DEF NoCall, Calls
    <2> HIDE DEF next, left
    <2>3. QED
      BY <1>0, <1>2, <2>1, <2>2
  <1>6. QED
    BY <1>3, <1>4, <1>5

\* A step of thread t moves task f and no other.
LEMMA OneMoves ==
  ASSUME Placed, NEW f \in Tasks, CurInv', CallInv', PlaceRule(f)',
         \A g \in Tasks \ {f} : Unmoved(g)
  PROVE  Placed'
  BY UnmovedRule DEF Placed

\* addEvent: the task, which was nowhere, waits in the context.
LEMMA AddPlaced ==
  ASSUME Types, HandInv, HeldIffArmed, Placed, aborted' = "none", NEW t \in Threads,
         NEW c \in Contexts, NEW e \in Events, NEW f \in Tasks, Adds(t, c, e, f), OthersAlone(t)
  PROVE  Placed'
  <1> USE DEF Types
  <1>0. pc[t] = "add" /\ f = call[t].task /\ f # None /\ held[c][e] = None
    BY IoAssumption DEF Adds
  <1>1. /\ held'[c][e] = f
        /\ \A d \in Contexts, g \in Events : <<d, g>> # <<c, e>> => held'[d][g] = held[d][g]
    <2>1. Puts(c, e, f)
      BY DEF Adds, Puts
    <2>2. QED
      BY <2>1, HeldSet
  <1>2. /\ fresh' = fresh \ {f} /\ pc'[t] = (IF f = cur[t] THEN "park" ELSE "task")
        /\ call'[t] = NoCall /\ UNCHANGED <<m_fibers, timers, over, cur, expired>>
    BY DEF Adds, ThreadTypes
  <1>3. (f = cur[t] /\ f \in Fibers) \/ f \in fresh \cap Callbacks
    BY <1>0 DEF Placed, CallInv, CallTask
  <1>4. Nowhere(f) /\ f \notin over
    BY <1>0, <1>3 DEF Placed, PlaceRule, CurInv
  <1>5. CurInv'
    BY <1>2, <1>3 DEF Placed, CurInv, OthersAlone
  <1>6. CallInv'
    <2>1. call'[t].task = None /\ pc'[t] \notin {"resize", "add"}
      BY <1>2 DEF NoCall
    <2>2. CallTask(t)'
      BY <2>1 DEF CallTask
    <2>3. \A u \in Threads \ {t} : call[u].task \in fresh => call[u].task \in fresh'
      BY <1>0, <1>2 DEF Placed, CallInv
    <2>4. QED
      BY <2>1, <2>2, <2>3, CallsFrame DEF Placed
  <1>7. PlaceRule(f)'
    <2>1. Held(f)' /\ ~Expiring(f)' /\ f \notin m_fibers' /\ f \notin timers'
      BY <1>1, <1>2, <1>4 DEF Nowhere, Held, Expiring
    <2>2. \A d \in Contexts, g \in Events : held'[d][g] = f => d = c /\ g = e
      BY <1>1, <1>4 DEF Nowhere, Held
    <2>3. AtMostOnePlace(f)'
      BY <2>1, <2>2 DEF AtMostOnePlace, Expiring
    <2>4. f \notin (fresh \cup over)'
      BY <1>2, <1>4
    <2>5. \A u \in Threads : cur'[u] = f => pc'[u] = "park"
      BY <1>2, <1>3, IoAssumption DEF Placed, CurInv, OthersAlone, Tasks
    <2>6. QED
      BY <2>1, <2>3, <2>4, <2>5 DEF PlaceRule, Nowhere
  <1>8. ASSUME NEW g \in Tasks \ {f} PROVE Unmoved(g)
    <2>1. \A d \in Contexts, k \in Events : held'[d][k] = g <=> held[d][k] = g
      <3>1. g # None
        BY IoAssumption
      <3>2. QED
        BY <1>0, <1>1, <3>1
    <2>2. QED
      BY <1>0, <1>2, <2>1 DEF Unmoved, OthersAlone
  <1>9. QED
    BY <1>5, <1>6, <1>7, <1>8, OneMoves

\* delEvent: a fiber that executes stays with its thread, a callback is deleted,
\* and what else could be there makes ~Fiber fail.
LEMMA DeletePlaced ==
  ASSUME Types, HandInv, HeldIffArmed, Placed, aborted' = "none", NEW t \in Threads,
         NEW c \in Contexts, NEW e \in Events, Deletes(t, c, e), OthersAlone(t)
  PROVE  Placed'
  <1> USE DEF Types
  <1>0. PICK f \in Tasks : f = held[c][e]
    BY DEF Deletes, HeldIffArmed, CtxTypes
  <1>1. /\ held'[c][e] = None
        /\ \A d \in Contexts, g \in Events : <<d, g>> # <<c, e>> => held'[d][g] = held[d][g]
    <2>1. Puts(c, e, None) /\ CtxTypes /\ None \in Tasks \cup {None}
      BY DEF Deletes, Puts
    <2>2. QED
      BY <2>1, HeldSet
  <1>2. /\ over' = over \cup ({f} \cap Callbacks) /\ pc[t] = "del" /\ pc'[t] = "task"
        /\ call'[t] = NoCall /\ UNCHANGED <<m_fibers, timers, fresh, cur, expired>>
        /\ f \in Fibers => OnThread(f)
    BY <1>0 DEF Deletes, ThreadTypes
  <1>3. f # None /\ \A g \in Tasks : g # None
    BY IoAssumption
  <1>4. Held(f) /\ f \notin fresh \cup over
    BY <1>0 DEF Held, Placed, PlaceRule, Nowhere
  <1>5. f \in Callbacks => ~OnThread(f)
    BY <1>4, IoAssumption DEF Placed, PlaceRule, CurInv, OnThread, Nowhere
  <1>6. CurInv'
    BY <1>2, <1>4, <1>5 DEF Placed, CurInv, OthersAlone, OnThread
  <1>7. CallInv'
    <2>1. call'[t].task = None /\ pc'[t] \notin {"resize", "add"}
      BY <1>2 DEF NoCall
    <2>2. CallTask(t)'
      BY <2>1 DEF CallTask
    <2>3. QED
      BY <1>2, <2>1, <2>2, CallsFrame DEF Placed
  <1>8. PlaceRule(f)'
    <2>1. \A d \in Contexts, g \in Events : held'[d][g] # f
      BY <1>0, <1>1, <1>3 DEF Placed, PlaceRule, AtMostOnePlace
    <2>2. Nowhere(f)'
      BY <1>2, <1>4, <2>1 DEF Nowhere, Held, Expiring, Placed, PlaceRule, AtMostOnePlace
    <2>3. AtMostOnePlace(f)'
      BY <2>2 DEF Nowhere, AtMostOnePlace, Held, Expiring
    <2>4. f \notin over' => OnThread(f)'
      BY <1>2 DEF OnThread, Tasks
    <2>5. QED
      BY <2>2, <2>3, <2>4 DEF PlaceRule
  <1>9. ASSUME NEW g \in Tasks \ {f} PROVE Unmoved(g)
    <2>1. \A d \in Contexts, k \in Events : held'[d][k] = g <=> held[d][k] = g
      BY <1>0, <1>1, <1>3
    <2>2. QED
      BY <1>2, <2>1 DEF Unmoved, OthersAlone
  <1>10. QED
    BY <1>6, <1>7, <1>8, <1>9, OneMoves

\* triggerEvent: the task moves from the context to the queue.
LEMMA TriggerPlaced ==
  ASSUME Types, HandInv, HeldIffArmed, Placed, NEW t \in Threads,
         NEW c \in Contexts, NEW e \in Events, Triggers(t, c, e), OthersAlone(t)
  PROVE  Placed'
  <1> USE DEF Types
  <1>0. PICK f \in Tasks : f = held[c][e]
    BY DEF Triggers, HeldIffArmed, CtxTypes
  <1>1. /\ held'[c][e] = None
        /\ \A d \in Contexts, g \in Events : <<d, g>> # <<c, e>> => held'[d][g] = held[d][g]
    <2>1. Puts(c, e, None) /\ CtxTypes /\ None \in Tasks \cup {None}
      BY DEF Triggers, Puts
    <2>2. QED
      BY <2>1, HeldSet
  <1>2. /\ m_fibers' = m_fibers \cup {f} /\ pc[t] = "trigger" /\ pc'[t] = "triggered"
        /\ UNCHANGED <<call, timers, fresh, over, cur, expired>>
    BY <1>0 DEF Triggers, ThreadTypes
  <1>3. \A g \in Tasks : g # None
    BY IoAssumption
  <1>4. Held(f)
    BY <1>0 DEF Held
  <1>5. CurInv'
    BY <1>2 DEF Placed, CurInv, OthersAlone
  <1>6. CallInv'
    <2>1. CallTask(t)' /\ call'[t].task = None
      BY <1>2 DEF CallTask, Placed, CallInv
    <2>2. QED
      BY <1>2, <2>1, CallsFrame DEF Placed
  <1>7. PlaceRule(f)'
    <2>1. \A d \in Contexts, g \in Events : held'[d][g] # f
      BY <1>0, <1>1, <1>3 DEF Placed, PlaceRule, AtMostOnePlace
    <2>2. ~Held(f)' /\ f \in m_fibers' /\ f \notin timers' /\ ~Expiring(f)'
      BY <1>2, <1>4, <2>1 DEF Held, Expiring, Placed, PlaceRule, AtMostOnePlace
    <2>3. AtMostOnePlace(f)'
      BY <2>1, <2>2 DEF AtMostOnePlace, Expiring
    <2>4. f \notin (fresh \cup over)'
      BY <1>2, <1>4 DEF Placed, PlaceRule, Nowhere
    <2>5. \A u \in Threads : cur'[u] = f => pc'[u] = "park"
      <3>1. \A u \in Threads : cur[u] = f => pc[u] = "park"
        BY <1>4 DEF Placed, PlaceRule, Nowhere
      <3>2. QED
        BY <1>2, <3>1 DEF OthersAlone
    <2>6. QED
      BY <2>2, <2>3, <2>4, <2>5 DEF PlaceRule, Nowhere
  <1>8. ASSUME NEW g \in Tasks \ {f} PROVE Unmoved(g)
    <2>1. \A d \in Contexts, k \in Events : held'[d][k] = g <=> held[d][k] = g
      BY <1>0, <1>1, <1>3
    <2>2. QED
      BY <1>2, <2>1 DEF Unmoved, OthersAlone
  <1>9. QED
    BY <1>5, <1>6, <1>7, <1>8, OneMoves

\* The count of places of a task that is in at most one.
LEMMA PlacesCounted ==
  ASSUME NEW f, AtMostOnePlace(f)
  PROVE  Places(f) = IF Nowhere(f) THEN 0 ELSE 1
  <1> DEFINE W == Waiting(f)
             X == {t \in Threads : f \in expired[t]}
  <1>1. Cardinality(W) = IF Held(f) THEN 1 ELSE 0
    <2>1. CASE Held(f)
      <3>1. PICK c \in Contexts, e \in Events : held[c][e] = f
        BY <2>1 DEF Held
      <3>2. W = {<<c, e>>}
        BY <3>1 DEF AtMostOnePlace, Waiting
      <3>3. QED
        BY <2>1, <3>2, FS_Singleton
    <2>2. CASE ~Held(f)
      <3>1. W = {}
        BY <2>2 DEF Held, Waiting
      <3>2. QED
        BY <2>2, <3>1, FS_EmptySet
    <2>3. QED
      BY <2>1, <2>2
  <1>2. Cardinality(X) = IF Expiring(f) THEN 1 ELSE 0
    <2>1. CASE Expiring(f)
      <3>1. PICK t \in Threads : f \in expired[t]
        BY <2>1 DEF Expiring
      <3>2. X = {t}
        BY <3>1 DEF AtMostOnePlace
      <3>3. QED
        BY <2>1, <3>2, FS_Singleton
    <2>2. CASE ~Expiring(f)
      <3>1. X = {}
        BY <2>2 DEF Expiring
      <3>2. QED
        BY <2>2, <3>1, FS_EmptySet
    <2>3. QED
      BY <2>1, <2>2
  <1>3. Places(f) = Cardinality(W) + (IF f \in m_fibers THEN 1 ELSE 0)
                    + (IF f \in timers THEN 1 ELSE 0) + Cardinality(X)
    BY DEF Places
  <1> HIDE DEF W, X
  <1>4. QED
    BY <1>1, <1>2, <1>3 DEF AtMostOnePlace, Nowhere

\* A hooked sleep, the switch back to run() after it, and the end of a task.
LEMMA RunPlaced ==
  ASSUME Types, HandInv, Placed, aborted = "none", aborted' = "none", NEW t \in Threads,
         Sleep(t) \/ YieldToHold(t) \/ Finish(t)
  PROVE  Placed'
  <1> USE DEF Types
  <1>0. OthersAlone(t)
    BY ThreadFrame DEF thread, task
  <1>1. PICK f \in Tasks : f = cur[t]
    BY DEF Sleep, YieldToHold, Finish, HandInv, Hands, TaskPoints, ThreadTypes
  <1>2. \A g \in Tasks : g # None
    BY IoAssumption
  <1>3. pc[t] \in {"task", "park"} /\ pc'[t] \in {"park", "loop"}
        /\ UNCHANGED <<held, m_fibers, expired, fresh, call>>
    BY DEF Sleep, YieldToHold, Finish, Goto, ctxVars, schedVars, ThreadTypes
  <1>4. CallInv'
    <2>1. CallTask(t)' /\ call'[t].task = None
      BY <1>3 DEF CallTask, Placed, CallInv
    <2>2. QED
      BY <1>0, <1>3, <2>1, CallsFrame DEF Placed
  <1>5. \A u \in Threads : cur[u] = f <=> u = t
    BY <1>1, <1>2 DEF Placed, CurInv
  <1>6. CASE Sleep(t)
    <2>1. timers' = timers \cup {f} /\ cur' = cur /\ over' = over /\ f \in Fibers
          /\ pc[t] = "task" /\ pc'[t] = "park"
      BY <1>1, <1>6 DEF Sleep, Goto, ThreadTypes
    <2>2. Nowhere(f) /\ f \notin fresh \cup over
      BY <1>1, <2>1 DEF Placed, PlaceRule, CurInv
    <2>3. CurInv'
      BY <1>0, <1>1, <1>3, <2>1 DEF Placed, CurInv, OthersAlone
    <2>4. PlaceRule(f)'
      <3>1. ~Held(f)' /\ ~Expiring(f)' /\ f \notin m_fibers' /\ f \in timers'
        BY <1>3, <2>1, <2>2 DEF Nowhere, Held, Expiring
      <3>2. AtMostOnePlace(f)'
        BY <3>1 DEF AtMostOnePlace, Held, Expiring
      <3>3. QED
        BY <1>3, <1>5, <2>1, <2>2, <3>1, <3>2 DEF PlaceRule, Nowhere
    <2>5. ASSUME NEW g \in Tasks \ {f} PROVE Unmoved(g)
      BY <1>0, <1>3, <2>1 DEF Unmoved, OthersAlone
    <2>6. QED
      BY <1>4, <2>3, <2>4, <2>5, OneMoves
  <1>7. CASE YieldToHold(t)
    <2>1. cur' = [cur EXCEPT ![t] = None] /\ timers' = timers /\ over' = over
          /\ Places(f) # 0 /\ pc[t] = "park" /\ pc'[t] = "loop"
      BY <1>1, <1>7 DEF YieldToHold, Goto, ThreadTypes, schedVars
    <2>2. cur'[t] = None /\ \A u \in Threads \ {t} : cur'[u] = cur[u]
      BY <2>1 DEF ThreadTypes
    <2>3. ~Nowhere(f) /\ AtMostOnePlace(f) /\ f \notin fresh \cup over
      BY <1>1, <2>1, PlacesCounted DEF Placed, PlaceRule, CurInv
    <2>4. CurInv'
      <3>1. None \notin fresh \cup over
        BY IoAssumption DEF SchedTypes
      <3>2. QED
        BY <1>0, <1>3, <2>1, <2>2, <3>1 DEF Placed, CurInv, OthersAlone
    <2>5. PlaceRule(f)'
      <3>1. ~Nowhere(f)' /\ AtMostOnePlace(f)'
        BY <1>3, <2>1, <2>3 DEF Nowhere, AtMostOnePlace, Held, Expiring
      <3>2. \A u \in Threads : cur'[u] # f
        BY <1>2, <1>5, <2>2
      <3>3. QED
        BY <1>3, <2>1, <2>3, <3>1, <3>2 DEF PlaceRule
    <2>6. ASSUME NEW g \in Tasks \ {f} PROVE Unmoved(g)
      BY <1>0, <1>1, <1>2, <1>3, <2>1, <2>2 DEF Unmoved, OthersAlone
    <2>7. QED
      BY <1>4, <2>4, <2>5, <2>6, OneMoves
  <1>8. CASE Finish(t)
    <2>1. cur' = [cur EXCEPT ![t] = None] /\ timers' = timers /\ over' = over \cup {f}
          /\ pc[t] = "task" /\ pc'[t] = "loop"
      BY <1>1, <1>8 DEF Finish, Goto, ThreadTypes, schedVars
    <2>2. cur'[t] = None /\ \A u \in Threads \ {t} : cur'[u] = cur[u]
      BY <2>1 DEF ThreadTypes
    <2>3. Nowhere(f) /\ AtMostOnePlace(f) /\ f \notin fresh \cup over
      BY <1>1, <2>1 DEF Placed, PlaceRule, CurInv
    <2>4. CurInv'
      <3>1. None \notin fresh \cup over \cup {f}
        BY IoAssumption DEF SchedTypes
      <3>2. QED
        BY <1>0, <1>3, <1>5, <2>1, <2>2, <2>3, <3>1 DEF Placed, CurInv, OthersAlone
    <2>5. PlaceRule(f)'
      <3>1. Nowhere(f)' /\ AtMostOnePlace(f)'
        BY <1>3, <2>1, <2>3 DEF Nowhere, AtMostOnePlace, Held, Expiring
      <3>2. QED
        BY <1>3, <2>1, <3>1 DEF PlaceRule
    <2>6. ASSUME NEW g \in Tasks \ {f} PROVE Unmoved(g)
      BY <1>0, <1>1, <1>2, <1>3, <2>1, <2>2 DEF Unmoved, OthersAlone
    <2>7. QED
      BY <1>4, <2>4, <2>5, <2>6, OneMoves
  <1>9. QED
    BY <1>6, <1>7, <1>8

\* run() takes a task out of the queue.
LEMMA PickPlaced ==
  ASSUME Types, HandInv, Placed, NEW t \in Threads, Pick(t)
  PROVE  Placed'
  <1> USE DEF Types
  <1>0. OthersAlone(t)
    BY ThreadFrame DEF thread
  <1>1. PICK f \in Tasks : /\ f \in m_fibers /\ ~OnThread(f)
                           /\ m_fibers' = m_fibers \ {f} /\ cur' = [cur EXCEPT ![t] = f]
    BY DEF Pick, SchedTypes
  <1>2. /\ pc[t] = "loop" /\ pc'[t] = "task"
        /\ UNCHANGED <<held, timers, expired, fresh, over, call>>
    BY DEF Pick, Goto, ctxVars, ThreadTypes
  <1>3. cur'[t] = f /\ (\A u \in Threads \ {t} : cur'[u] = cur[u]) /\ cur[t] = None
    BY <1>1, <1>2 DEF ThreadTypes, HandInv, Hands, TaskPoints, TriggerPoints
  <1>4. \A g \in Tasks : g # None
    BY IoAssumption
  <1>5. ~Held(f) /\ f \notin timers /\ ~Expiring(f) /\ f \notin fresh \cup over
    BY <1>1 DEF Placed, PlaceRule, AtMostOnePlace, Nowhere
  <1>6. CurInv'
    BY <1>0, <1>1, <1>2, <1>3, <1>5 DEF Placed, CurInv, OthersAlone, OnThread
  <1>7. CallInv'
    <2>1. CallTask(t)' /\ call'[t].task = None
      BY <1>2 DEF CallTask, Placed, CallInv
    <2>2. QED
      BY <1>0, <1>2, <2>1, CallsFrame DEF Placed
  <1>8. PlaceRule(f)'
    <2>1. Nowhere(f)'
      BY <1>1, <1>2, <1>5 DEF Nowhere, Held, Expiring
    <2>2. AtMostOnePlace(f)'
      BY <2>1 DEF Nowhere, AtMostOnePlace, Held, Expiring
    <2>3. OnThread(f)'
      BY <1>3 DEF OnThread
    <2>4. QED
      BY <2>1, <2>2, <2>3 DEF PlaceRule
  <1>9. ASSUME NEW g \in Tasks \ {f} PROVE Unmoved(g)
    BY <1>0, <1>1, <1>2, <1>3, <1>4 DEF Unmoved, OthersAlone
  <1>10. QED
    BY <1>6, <1>7, <1>8, <1>9, OneMoves

\* Timers expire: listExpiredCb collects their fibers, idle() schedules them.
LEMMA ExpirePlaced ==
  ASSUME Types, HandInv, Placed, NEW t \in Threads, listExpiredCb(t) \/ scheduleExpired(t)
  PROVE  Placed'
  <1> USE DEF Types
  <1>0. OthersAlone(t)
    BY ThreadFrame DEF thread, idle
  <1>1. /\ pc[t] \in {"expire", "reschedule"} /\ pc'[t] \in {"reschedule", "events"}
        /\ UNCHANGED <<held, fresh, over, call, cur>>
    BY DEF listExpiredCb, scheduleExpired, Goto, ctxVars, ThreadTypes
  <1>2. CurInv'
    BY <1>0, <1>1 DEF Placed, CurInv, OthersAlone
  <1>3. CallInv'
    <2>1. CallTask(t)' /\ call'[t].task = None
      BY <1>1 DEF CallTask, Placed, CallInv
    <2>2. QED
      BY <1>0, <1>1, <2>1, CallsFrame DEF Placed
  <1>4. PICK S \in SUBSET Fibers :
          \/ /\ S \subseteq timers /\ expired[t] = {} /\ timers' = timers \ S
             /\ m_fibers' = m_fibers /\ expired' = [expired EXCEPT ![t] = S]
          \/ /\ S = expired[t] /\ timers' = timers
             /\ m_fibers' = m_fibers \cup S /\ expired' = [expired EXCEPT ![t] = {}]
    <2>1. CASE listExpiredCb(t)
      <3>1. expired[t] = {}
        BY <2>1 DEF listExpiredCb, HandInv, Hands
      <3>2. QED
        BY <2>1, <3>1 DEF listExpiredCb, SchedTypes
    <2>2. CASE scheduleExpired(t)
      BY <2>2 DEF scheduleExpired, ThreadTypes
    <2>3. QED
      BY <2>1, <2>2
  <1>5. /\ \A u \in Threads \ {t} : expired'[u] = expired[u]
        /\ DOMAIN expired' = Threads
    BY <1>0, <1>4 DEF OthersAlone, ThreadTypes
  <1>6. ASSUME NEW f \in Tasks, f \notin S PROVE PlaceRule(f)'
    <2>1. \A u \in Threads : f \in expired'[u] <=> f \in expired[u]
      BY <1>4, <1>5, <1>6 DEF ThreadTypes
    <2>2. (f \in m_fibers' <=> f \in m_fibers) /\ (f \in timers' <=> f \in timers)
      BY <1>4, <1>6
    <2>3. Unmoved(f)
      BY <1>0, <1>1, <2>1, <2>2 DEF Unmoved, OthersAlone
    <2>4. QED
      BY <2>3, UnmovedRule DEF Placed
  <1>7. ASSUME NEW f \in Tasks, f \in S PROVE PlaceRule(f)'
    <2>1. f \in timers \/ f \in expired[t]
      BY <1>4, <1>7
    <2>2. PlaceRule(f) /\ ~Nowhere(f)
      BY <2>1 DEF Placed, Nowhere, Expiring
    <2>3. ~Nowhere(f)' /\ AtMostOnePlace(f)'
      <3>1. CASE S \subseteq timers /\ expired[t] = {} /\ timers' = timers \ S
                 /\ m_fibers' = m_fibers /\ expired' = [expired EXCEPT ![t] = S]
        <4>1. f \in expired'[t] /\ \A u \in Threads \ {t} : f \notin expired'[u]
          BY <1>7, <2>2, <3>1 DEF ThreadTypes, PlaceRule, AtMostOnePlace, Expiring
        <4>2. ~Held(f)' /\ f \notin m_fibers' /\ f \notin timers' /\ Expiring(f)'
          BY <1>1, <1>7, <2>2, <3>1, <4>1 DEF PlaceRule, AtMostOnePlace, Held, Expiring
        <4>3. QED
          BY <4>1, <4>2 DEF Nowhere, AtMostOnePlace, Held
      <3>2. CASE S = expired[t] /\ timers' = timers
                 /\ m_fibers' = m_fibers \cup S /\ expired' = [expired EXCEPT ![t] = {}]
        <4>1. \A u \in Threads : f \notin expired'[u]
          BY <1>7, <2>2, <3>2 DEF ThreadTypes, PlaceRule, AtMostOnePlace
        <4>2. ~Held(f)' /\ f \in m_fibers' /\ f \notin timers' /\ ~Expiring(f)'
          BY <1>1, <1>7, <2>2, <3>2, <4>1 DEF PlaceRule, AtMostOnePlace, Held, Expiring
        <4>3. QED
          BY <4>1, <4>2 DEF Nowhere, AtMostOnePlace, Held
      <3>3. QED
        BY <1>4, <3>1, <3>2
    <2>4. f \notin fresh \cup over /\ \A u \in Threads : cur[u] = f => pc[u] = "park"
      BY <2>2 DEF PlaceRule
    <2>5. f \notin (fresh \cup over)' /\ \A u \in Threads : cur'[u] = f => pc'[u] = "park"
      BY <1>0, <1>1, <2>4 DEF OthersAlone
    <2>6. QED
      BY <2>3, <2>5 DEF PlaceRule
  <1>8. QED
    BY <1>2, <1>3, <1>6, <1>7 DEF Placed

\* A new task is submitted.
LEMMA SchedulePlaced ==
  ASSUME Types, Placed, schedule
  PROVE  Placed'
  <1> USE DEF Types
  <1>1. PICK f \in Tasks : /\ f \in fresh /\ \A t \in Threads : call[t].task # f
                           /\ fresh' = fresh \ {f} /\ m_fibers' = m_fibers \cup {f}
    BY DEF schedule, SchedTypes
  <1>2. UNCHANGED <<held, timers, expired, over, call, cur, pc>>
    BY DEF schedule, ctxVars, thrVars
  <1>3. Nowhere(f) /\ f \notin over /\ \A t \in Threads : cur[t] # f
    BY <1>1 DEF Placed, PlaceRule, CurInv
  <1>4. CurInv' /\ CallInv'
    BY <1>1, <1>2 DEF Placed, CurInv, CallInv, CallTask
  <1>5. PlaceRule(f)'
    <2>1. ~Held(f)' /\ f \in m_fibers' /\ f \notin timers' /\ ~Expiring(f)'
      BY <1>1, <1>2, <1>3 DEF Nowhere, Held, Expiring
    <2>2. AtMostOnePlace(f)'
      BY <2>1 DEF AtMostOnePlace, Held, Expiring
    <2>3. QED
      BY <1>1, <1>2, <1>3, <2>1, <2>2 DEF PlaceRule, Nowhere
  <1>6. ASSUME NEW g \in Tasks \ {f} PROVE Unmoved(g)
    BY <1>1, <1>2 DEF Unmoved
  <1>7. QED
    BY <1>4, <1>5, <1>6, OneMoves

PlaceInv == aborted = "none" => Placed

\* No step loses a task or puts it in two places.
LEMMA PlaceStep == IoInv /\ PlaceInv /\ [Next]_vars => PlaceInv'
  <1> SUFFICES ASSUME IoInv, PlaceInv, [Next]_vars, aborted' = "none" PROVE Placed'
    BY DEF PlaceInv
  <1> USE DEF IoInv
  <1>1. CASE UNCHANGED vars \/ Over \/ stop
    <2>1. UNCHANGED <<held, m_fibers, timers, expired, fresh, over, cur, call, pc, aborted>>
      BY <1>1 DEF Over, stop, vars, ctxVars, schedVars, thrVars
    <2>2. Placed
      BY <2>1 DEF PlaceInv
    <2>3. CurInv' /\ CallInv'
      BY <2>1, <2>2 DEF Placed, CurInv, CallInv, CallTask
    <2>4. ASSUME NEW f \in Tasks PROVE PlaceRule(f)'
      <3>1. Unmoved(f)
        BY <2>1 DEF Unmoved
      <3>2. QED
        BY <2>2, <3>1, UnmovedRule DEF Placed
    <2>5. QED
      BY <2>3, <2>4 DEF Placed
  <1>2. CASE aborted = "none" /\ schedule
    BY <1>2, SchedulePlaced DEF PlaceInv
  <1>3. ASSUME aborted = "none", NEW t \in Threads, thread(t) PROVE Placed'
    <2>1. OthersAlone(t) /\ Placed
      BY <1>3, ThreadFrame DEF PlaceInv
    <2>2. CASE addEvent(t)
      BY <2>1, <2>2, AddFacts, AddPlaced, CallsPlaced
    <2>3. CASE delEvent(t)
      BY <2>1, <2>3, SectionFacts, DeletePlaced
    <2>4. CASE triggerEvent(t)
      <3>1. ~TriggerAborts(t)
        BY DEF TriggerAborts
      <3>2. QED
        BY <2>1, <2>4, <3>1, SectionFacts, TriggerPlaced
    <2>5. QED
      BY <1>3, <2>1, <2>2, <2>3, <2>4, CallsPlaced, IdlePlaced, RunPlaced, PickPlaced, ExpirePlaced
      DEF thread, task, idle
  <1>4. QED
    BY <1>1, <1>2, <1>3 DEF Next

\* A task that was submitted and is not over waits in exactly one place, one
\* event of one context, the queue, the timers or the callbacks a thread has
\* collected, or it executes; a task that is over is nowhere.  So no event, cancel
\* or timer schedules a task twice or forgets it, whatever the threads do.
THEOREM TaskInOnePlace == Spec => []OnePlace
  <1>1. Init => PlaceInv
    <2> SUFFICES ASSUME Init PROVE Placed
      BY DEF PlaceInv
    <2>1. CurInv /\ CallInv
      BY IoAssumption DEF Init, CurInv, CallInv, CallTask, NoCall
    <2>2. ASSUME NEW f \in Tasks PROVE PlaceRule(f)
      <3>1. f # None
        BY IoAssumption
      <3>2. Nowhere(f) /\ AtMostOnePlace(f) /\ f \in fresh
        BY <3>1 DEF Init, Nowhere, AtMostOnePlace, Held, Expiring
      <3>3. QED
        BY <3>2 DEF PlaceRule
    <2>3. QED
      BY <2>1, <2>2 DEF Placed
  <1>2. Spec => []PlaceInv
    BY <1>1, PlaceStep, IoAlways, PTL DEF Spec
  <1>3. PlaceInv => OnePlace
    <2> SUFFICES ASSUME PlaceInv, aborted = "none", NEW f \in Tasks
                 PROVE  IF f \in fresh \cup over THEN Places(f) = 0
                        ELSE IF OnThread(f) THEN Places(f) <= 1
                        ELSE Places(f) = 1
      BY DEF OnePlace
    <2>1. PlaceRule(f)
      BY DEF PlaceInv, Placed
    <2>2. Places(f) = IF Nowhere(f) THEN 0 ELSE 1
      BY <2>1, PlacesCounted DEF PlaceRule
    <2>3. QED
      BY <2>1, <2>2 DEF PlaceRule
  <1>4. QED
    BY <1>2, <1>3, PTL

-----------------------------------------------------------------------------
(***************************************************************************)
(* The kernel's registrations.  They follow the contexts as long as          *)
(* contextResize replaces none: the run IoShrink shows what happens when it  *)
(* does.                                                                     *)
(***************************************************************************)

NeverReplaced == \A fd \in Fds : slot[fd] = 0

\* The kernel watches the events S for context c.
Watches(c, S) == epoll[c[1]] = IF S = {} THEN None ELSE [ptr |-> c, mask |-> S]

CtxPoints == {"add", "del", "cancel", "cancelAll"} \cup TriggerPoints

\* Every context in use is the first one of its descriptor.
FirstContexts ==
    /\ \A t \in Threads : pc[t] \in CtxPoints => call[t].ctx[2] = 0
    /\ \A t \in Threads : \A r \in batch[t] : r.ptr[2] = 0
    /\ \A fd \in Fds : epoll[fd] # None => epoll[fd].ptr = <<fd, 0>>

\* Inside the mutex, the kernel is ahead by the events still to be triggered.
Inside(t) ==
    pc[t] \in TriggerPoints =>
        /\ Watches(call[t].ctx, events[call[t].ctx] \ call[t].todo)
        /\ pc[t] = "triggered" => NextEvent(t) \notin events[call[t].ctx]

MutexInv ==
    \A t, u \in Threads :
        pc[t] \in TriggerPoints /\ pc[u] \in TriggerPoints /\ call[t].ctx = call[u].ctx => t = u

Agreed == \A c \in Contexts : c[2] = 0 /\ Unlocked(c) => Watches(c, events[c])

Synced == FirstContexts /\ MutexInv /\ (\A t \in Threads : Inside(t)) /\ Agreed

KernelInv == aborted = "none" => Synced

\* Two first contexts of one descriptor are the same.
LEMMA FirstIsOne ==
  ASSUME NEW c \in Contexts, NEW d \in Contexts, c[2] = 0, d[2] = 0, c[1] = d[1]
  PROVE  c = d
  BY ContextParts

\* A step outside the mutexes that leaves contexts and registrations alone.
LEMMA KernelFrame ==
  ASSUME Synced, NEW t \in Threads, OthersAlone(t), events' = events, epoll' = epoll,
         pc[t] \notin TriggerPoints, pc'[t] \notin TriggerPoints,
         pc'[t] \in CtxPoints => call'[t].ctx[2] = 0,
         \A r \in batch'[t] : r.ptr[2] = 0
  PROVE  Synced'
  <1>1. FirstContexts'
    BY DEF Synced, FirstContexts, OthersAlone
  <1>2. MutexInv'
    BY DEF Synced, MutexInv, OthersAlone
  <1>3. \A u \in Threads : Inside(u)'
    <2>1. Inside(t)'
      BY DEF Inside
    <2>2. ASSUME NEW u \in Threads \ {t} PROVE Inside(u)'
      BY DEF Synced, Inside, Watches, NextEvent, OthersAlone
    <2>3. QED
      BY <2>1, <2>2
  <1>4. Agreed'
    <2>1. \A c \in Contexts : Unlocked(c)' => Unlocked(c)
      BY DEF Unlocked, OthersAlone
    <2>2. QED
      BY <2>1 DEF Synced, Agreed, Watches
  <1>5. QED
    BY <1>1, <1>2, <1>3, <1>4 DEF Synced

\* A step of thread t that changes context c, or its registration, or goes in or
\* out of its mutex: nothing changes for the other contexts.
LEMMA KernelOthers ==
  ASSUME Types, HandInv, Synced, NEW t \in Threads, OthersAlone(t), NEW c \in Contexts, c[2] = 0,
         \A d \in Contexts \ {c} : events'[d] = events[d],
         \A fd \in Fds \ {c[1]} : epoll'[fd] = epoll[fd],
         epoll'[c[1]] # None => epoll'[c[1]].ptr = c,
         pc[t] \in TriggerPoints => call[t].ctx = c,
         pc'[t] \in CtxPoints => call'[t].ctx = c,
         \A u \in Threads \ {t} : ~(pc[u] \in TriggerPoints /\ call[u].ctx = c),
         batch'[t] \subseteq batch[t]
  PROVE  /\ FirstContexts' /\ MutexInv'
         /\ \A u \in Threads \ {t} : Inside(u)'
         /\ \A d \in Contexts \ {c} : d[2] = 0 /\ Unlocked(d)' => Watches(d, events[d])'
  <1>0. TriggerPoints \subseteq CtxPoints
    BY DEF CtxPoints
  <1>1. FirstContexts'
    <2>1. \A u \in Threads : pc'[u] \in CtxPoints => call'[u].ctx[2] = 0
      BY DEF Synced, FirstContexts, OthersAlone
    <2>2. \A fd \in Fds : epoll'[fd] # None => epoll'[fd].ptr = <<fd, 0>>
      BY ContextParts DEF Synced, FirstContexts
    <2>3. \A u \in Threads : \A r \in batch'[u] : r.ptr[2] = 0
      BY DEF Synced, FirstContexts, OthersAlone
    <2>4. QED
      BY <2>1, <2>2, <2>3 DEF FirstContexts
  <1>2. MutexInv'
    BY <1>0 DEF Synced, MutexInv, OthersAlone
  <1>3. ASSUME NEW u \in Threads \ {t}, pc[u] \in TriggerPoints PROVE Inside(u)'
    <2>1. PICK d \in Contexts : d = call[u].ctx
      BY <1>3 DEF HandInv, Hands
    <2>2. d # c /\ d[2] = 0
      BY <1>0, <1>3, <2>1 DEF Synced, FirstContexts
    <2>3. d[1] \in Fds \ {c[1]}
      BY <2>2, ContextParts, FirstIsOne
    <2>4. events'[d] = events[d] /\ epoll'[d[1]] = epoll[d[1]]
      BY <2>2, <2>3
    <2>5. pc'[u] = pc[u] /\ call'[u] = call[u]
      BY DEF OthersAlone
    <2>6. QED
      BY <1>3, <2>1, <2>4, <2>5 DEF Synced, Inside, Watches, NextEvent
  <1>4. \A u \in Threads \ {t} : Inside(u)'
    BY <1>3 DEF Inside, OthersAlone
  <1>5. ASSUME NEW d \in Contexts \ {c}, d[2] = 0, Unlocked(d)' PROVE Watches(d, events[d])'
    <2>1. d[1] \in Fds \ {c[1]}
      BY <1>5, ContextParts, FirstIsOne
    <2>2. events'[d] = events[d] /\ epoll'[d[1]] = epoll[d[1]]
      BY <2>1
    <2>3. Unlocked(d)
      BY <1>5 DEF Unlocked, OthersAlone
    <2>4. QED
      BY <1>5, <2>2, <2>3 DEF Synced, Agreed, Watches
  <1>6. QED
    BY <1>1, <1>2, <1>4, <1>5

\* addEvent and delEvent: the kernel is told what the context will say.
LEMMA ChangeSynced ==
  ASSUME Types, HandInv, Synced, NEW t \in Threads, OthersAlone(t), NEW c \in Contexts,
         NEW e \in Events,
         Deletes(t, c, e) \/ \E f \in Tasks : Adds(t, c, e, f)
  PROVE  Synced'
  <1>0. PICK S \in SUBSET Events : epoll_ctl(c, S) /\ events' = [events EXCEPT ![c] = S]
    <2>1. events[c] \cup {e} \in SUBSET Events /\ events[c] \ {e} \in SUBSET Events
      BY DEF Types, CtxTypes
    <2>2. CASE Deletes(t, c, e)
      <3>1. epoll_ctl(c, events[c] \ {e}) /\ events' = [events EXCEPT ![c] = events[c] \ {e}]
        BY <2>2 DEF Deletes
      <3>2. QED
        BY <2>1, <3>1
    <2>3. CASE \E f \in Tasks : Adds(t, c, e, f)
      <3>1. epoll_ctl(c, events[c] \cup {e}) /\ events' = [events EXCEPT ![c] = events[c] \cup {e}]
        BY <2>3 DEF Adds
      <3>2. QED
        BY <2>1, <3>1
    <2>4. QED
      BY <2>2, <2>3
  <1>1. pc[t] \in {"add", "del"} /\ c = call[t].ctx /\ Unlocked(c) /\ batch' = batch
        /\ pc'[t] \in {"task", "park"}
    BY DEF Deletes, Adds, Types, ThreadTypes
  <1>2. c[2] = 0
    BY <1>1 DEF Synced, FirstContexts, CtxPoints
  <1>3. /\ epoll'[c[1]] = IF S = {} THEN None ELSE [ptr |-> c, mask |-> S]
        /\ \A fd \in Fds \ {c[1]} : epoll'[fd] = epoll[fd]
    BY <1>0, EpollSet DEF Types
  <1>4. events'[c] = S /\ \A d \in Contexts \ {c} : events'[d] = events[d]
    BY <1>0, EventsSet DEF Types
  <1>5. epoll'[c[1]] # None => epoll'[c[1]].ptr = c
    BY <1>3
  <1>6. pc[t] \notin TriggerPoints /\ pc'[t] \notin CtxPoints /\ pc'[t] \notin TriggerPoints
    BY <1>1 DEF CtxPoints, TriggerPoints
  <1>7. \A u \in Threads \ {t} : ~(pc[u] \in TriggerPoints /\ call[u].ctx = c)
    BY <1>1 DEF Unlocked
  <1>8. /\ FirstContexts' /\ MutexInv'
        /\ \A u \in Threads \ {t} : Inside(u)'
        /\ \A d \in Contexts \ {c} : d[2] = 0 /\ Unlocked(d)' => Watches(d, events[d])'
    BY <1>1, <1>2, <1>3, <1>4, <1>5, <1>6, <1>7, KernelOthers
  <1>9. Inside(t)'
    BY <1>6 DEF Inside
  <1>10. Watches(c, events[c])'
    BY <1>3, <1>4 DEF Watches
  <1>11. QED
    BY <1>8, <1>9, <1>10 DEF Synced, Agreed

\* cancelEvent, cancelAll and a report go into the mutex, and take the events they
\* will trigger out of the kernel.
LEMMA EnterSynced ==
  ASSUME Types, HandInv, Synced, NEW t \in Threads, OthersAlone(t), NEW c \in Contexts,
         NEW S \in SUBSET Events,
         Cancels(t, c, S) \/ \E r \in batch[t] : Takes(t, r, c, S)
  PROVE  Synced'
  <1>0. call[t] \in Calls
    BY DEF Types, ThreadTypes
  <1>1. /\ epoll_ctl(c, events[c] \ S) /\ events[c] \ S \in SUBSET Events /\ events' = events
        /\ pc[t] \in {"cancel", "cancelAll", "events"} /\ pc'[t] = "trigger" /\ Unlocked(c)
        /\ batch'[t] \subseteq batch[t]
    <2>1. events[c] \ S \in SUBSET Events
      BY DEF Types, CtxTypes
    <2>2. epoll_ctl(c, events[c] \ S) /\ events' = events /\ Unlocked(c)
      BY DEF Cancels, Takes
    <2>3. pc[t] \in {"cancel", "cancelAll", "events"} /\ pc'[t] = "trigger"
      BY DEF Cancels, Takes, Types, ThreadTypes
    <2>4. batch'[t] \subseteq batch[t]
      BY DEF Cancels, Takes, Types, ThreadTypes
    <2>5. QED
      BY <2>1, <2>2, <2>3, <2>4
  <1>2. c[2] = 0
    BY DEF Cancels, Takes, Synced, FirstContexts, CtxPoints
  <1>3. call'[t].ctx = c /\ call'[t].todo = S
    <2>1. CASE Cancels(t, c, S)
      BY <1>0, <2>1 DEF Cancels, Types, ThreadTypes, Calls
    <2>2. CASE \E r \in batch[t] : Takes(t, r, c, S)
      <3>1. call'[t] = [NoCall EXCEPT !.ctx = c, !.todo = S, !.back = "events"]
        BY <2>2 DEF Takes, Types, ThreadTypes
      <3>2. QED
        BY <3>1 DEF NoCall
    <2>3. QED
      BY <2>1, <2>2
  <1>4. /\ epoll'[c[1]] = IF events[c] \ S = {} THEN None ELSE [ptr |-> c, mask |-> events[c] \ S]
        /\ \A fd \in Fds \ {c[1]} : epoll'[fd] = epoll[fd]
    BY <1>1, EpollSet DEF Types
  <1>5. epoll'[c[1]] # None => epoll'[c[1]].ptr = c
    BY <1>4
  <1>6. pc[t] \notin TriggerPoints /\ pc'[t] \in TriggerPoints
    BY <1>1 DEF TriggerPoints
  <1>7. \A u \in Threads \ {t} : ~(pc[u] \in TriggerPoints /\ call[u].ctx = c)
    BY <1>1 DEF Unlocked
  <1>8. /\ FirstContexts' /\ MutexInv'
        /\ \A u \in Threads \ {t} : Inside(u)'
        /\ \A d \in Contexts \ {c} : d[2] = 0 /\ Unlocked(d)' => Watches(d, events[d])'
    BY <1>1, <1>2, <1>3, <1>4, <1>5, <1>6, <1>7, KernelOthers
  <1>9. Inside(t)'
    BY <1>1, <1>3, <1>4 DEF Inside, Watches
  <1>10. ~Unlocked(c)'
    BY <1>3, <1>6 DEF Unlocked
  <1>11. QED
    BY <1>8, <1>9, <1>10 DEF Synced, Agreed

\* triggerEvent: the context catches up with the kernel.
LEMMA TriggerSynced ==
  ASSUME Types, HandInv, Synced, NEW t \in Threads, OthersAlone(t), NEW c \in Contexts,
         NEW e \in Events, Triggers(t, c, e)
  PROVE  Synced'
  <1>1. /\ pc[t] = "trigger" /\ pc'[t] = "triggered" /\ c = call[t].ctx /\ e = NextEvent(t)
        /\ UNCHANGED <<epoll, call, batch>>
    BY DEF Triggers, Types, ThreadTypes
  <1>2. pc[t] \in TriggerPoints /\ pc'[t] \in TriggerPoints /\ c[2] = 0
    BY <1>1 DEF TriggerPoints, Synced, FirstContexts, CtxPoints
  <1>3. events'[c] = events[c] \ {e} /\ \A d \in Contexts \ {c} : events'[d] = events[d]
    BY EventsSet DEF Triggers, Types, CtxTypes
  <1>4. e \in call[t].todo
    BY <1>1, <1>2, CallFacts
  <1>5. \A u \in Threads \ {t} : ~(pc[u] \in TriggerPoints /\ call[u].ctx = c)
    BY <1>1, <1>2 DEF Synced, MutexInv
  <1>6. epoll'[c[1]] # None => epoll'[c[1]].ptr = c
    BY <1>1, <1>2, ContextParts DEF Synced, FirstContexts
  <1>7. /\ FirstContexts' /\ MutexInv'
        /\ \A u \in Threads \ {t} : Inside(u)'
        /\ \A d \in Contexts \ {c} : d[2] = 0 /\ Unlocked(d)' => Watches(d, events[d])'
    BY <1>1, <1>2, <1>3, <1>5, <1>6, KernelOthers
  <1>8. Inside(t)'
    <2>1. (events[c] \ {e}) \ call[t].todo = events[c] \ call[t].todo
      BY <1>4
    <2>2. Watches(c, events[c] \ call[t].todo)
      BY <1>1, <1>2 DEF Synced, Inside
    <2>3. NextEvent(t)' = e
      BY <1>1 DEF NextEvent
    <2>4. QED
      BY <1>1, <1>3, <2>1, <2>2, <2>3 DEF Inside, Watches
  <1>9. ~Unlocked(c)'
    BY <1>1, <1>2 DEF Unlocked
  <1>10. QED
    BY <1>7, <1>8, <1>9 DEF Synced, Agreed

\* The next event, or out of the mutex.
LEMMA LeaveSynced ==
  ASSUME Types, HandInv, Synced, NEW t \in Threads, OthersAlone(t), Triggered(t)
  PROVE  Synced'
  <1>0. call[t] \in Calls /\ call[t].back \in {"task", "events"} /\ pc[t] = "triggered"
        /\ pc[t] \in TriggerPoints
    BY CallFields DEF Types, ThreadTypes, Triggered, TriggerPoints
  <1>1. PICK c \in Contexts : c = call[t].ctx
    BY <1>0, CallFacts
  <1>2. PICK e \in Events : e = NextEvent(t) /\ e \in call[t].todo
    BY <1>0, CallFacts
  <1>3. PICK left \in SUBSET Events : left = call[t].todo \ {e}
    BY <1>0, CallFields
  <1>4. /\ call' = [call EXCEPT ![t] = IF left = {} THEN NoCall ELSE [call[t] EXCEPT !.todo = left]]
        /\ pc'[t] = (IF left = {} THEN call[t].back ELSE "trigger")
        /\ UNCHANGED <<events, epoll, batch>>
    BY <1>2, <1>3 DEF Triggered, Goto, Types, ThreadTypes
  <1>5. c[2] = 0 /\ Watches(c, events[c] \ call[t].todo) /\ e \notin events[c]
    BY <1>0, <1>1, <1>2 DEF Synced, FirstContexts, CtxPoints, Inside
  <1>6. events[c] \ call[t].todo = events[c] \ left
    BY <1>2, <1>3, <1>5
  <1>7. Watches(c, events[c] \ left)'
    BY <1>4, <1>5, <1>6 DEF Watches
  <1>8. left # {} => call'[t].ctx = c /\ call'[t].todo = left
    BY <1>0, <1>1, <1>4 DEF Types, ThreadTypes, Calls
  <1>9. \A u \in Threads \ {t} : ~(pc[u] \in TriggerPoints /\ call[u].ctx = c)
    BY <1>0, <1>1 DEF Synced, MutexInv
  <1>10. pc'[t] \in CtxPoints => left # {} /\ pc'[t] = "trigger"
    BY <1>0, <1>4 DEF CtxPoints, TriggerPoints
  <1>11. epoll'[c[1]] # None => epoll'[c[1]].ptr = c
    BY <1>4, <1>5, ContextParts DEF Synced, FirstContexts
  <1>12. /\ FirstContexts' /\ MutexInv'
         /\ \A u \in Threads \ {t} : Inside(u)'
         /\ \A d \in Contexts \ {c} : d[2] = 0 /\ Unlocked(d)' => Watches(d, events[d])'
    BY <1>1, <1>4, <1>5, <1>8, <1>9, <1>10, <1>11, KernelOthers
  <1>13. Inside(t)'
    BY <1>7, <1>8, <1>10 DEF Inside, CtxPoints, Watches
  <1>14. ASSUME Unlocked(c)' PROVE Watches(c, events[c])'
    <2>1. CASE left = {}
      <3>1. events[c] \ left = events[c]
        BY <2>1
      <3>2. QED
        BY <1>4, <1>7, <3>1 DEF Watches
    <2>2. CASE left # {}
      BY <1>4, <1>8, <1>14, <2>2 DEF Unlocked, TriggerPoints
    <2>3. QED
      BY <2>1, <2>2
  <1>15. QED
    BY <1>12, <1>13, <1>14 DEF Synced, Agreed

\* Calls outside the mutexes: they look up, replace nothing, or return.
LEMMA LookupSynced ==
  ASSUME Types, HandInv, NeverReplaced, Synced, NEW t \in Threads, OthersAlone(t),
         addEventLookup(t) \/ lookup(t) \/ ReturnFalse(t) \/ contextResize(t) \/ AddFails(t)
  PROVE  Synced'
  <1> USE DEF Types
  <1>1. /\ UNCHANGED <<events, epoll, batch>> /\ pc[t] \notin TriggerPoints
        /\ pc'[t] \in TaskPoints
    BY DEF addEventLookup, lookup, ReturnFalse, contextResize, AddFails, Enter, Goto, ctxVars,
       ThreadTypes, TriggerPoints, TaskPoints
  <1>2. pc'[t] \notin TriggerPoints /\ \A r \in batch'[t] : r.ptr[2] = 0
    BY <1>1 DEF TriggerPoints, TaskPoints, Synced, FirstContexts
  <1>3. ASSUME pc'[t] \in CtxPoints PROVE call'[t].ctx[2] = 0
    <2>1. CASE addEventLookup(t)
      <3>1. PICK fd \in Fds, e \in Events, f \in Tasks :
              IF m_size > fd
                THEN Enter(t, "add", [NoCall EXCEPT !.fd = fd, !.event = e, !.task = f,
                                                    !.ctx = <<fd, slot[fd]>>])
                ELSE Enter(t, "resize", [NoCall EXCEPT !.fd = fd, !.event = e, !.task = f])
        BY <2>1 DEF addEventLookup
      <3>2. CASE m_size > fd
        <4>1. call'[t] = [NoCall EXCEPT !.fd = fd, !.event = e, !.task = f, !.ctx = <<fd, slot[fd]>>]
          BY <3>1, <3>2 DEF Enter, ThreadTypes
        <4>2. QED
          BY <4>1 DEF NoCall, NeverReplaced
      <3>3. CASE ~(m_size > fd)
        BY <1>3, <3>1, <3>3 DEF Enter, Goto, ThreadTypes, CtxPoints, TriggerPoints
      <3>4. QED
        BY <3>2, <3>3
    <2>2. CASE lookup(t)
      <3>1. PICK fd \in Fds, e \in Events, point \in {"del", "cancel", "cancelAll"} :
              Enter(t, point, [NoCall EXCEPT !.fd = fd, !.event = e, !.ctx = <<fd, slot[fd]>>])
        BY <2>2 DEF lookup
      <3>2. call'[t] = [NoCall EXCEPT !.fd = fd, !.event = e, !.ctx = <<fd, slot[fd]>>]
        BY <3>1 DEF Enter, ThreadTypes
      <3>3. QED
        BY <3>2 DEF NoCall, NeverReplaced
    <2>3. CASE contextResize(t)
      <3>1. PICK fd \in Fds : fd = call[t].fd
        BY <2>3 DEF contextResize, HandInv, Hands
      <3>2. call' = [call EXCEPT ![t].ctx = <<fd, slot[fd]>>] /\ call[t] \in Calls
        BY <2>3, <3>1 DEF contextResize, ThreadTypes
      <3>3. call'[t].ctx = <<fd, slot[fd]>>
        BY <3>2 DEF ThreadTypes, Calls
      <3>4. QED
        BY <3>3 DEF NeverReplaced
    <2>4. CASE ReturnFalse(t) \/ AddFails(t)
      BY <1>3, <2>4 DEF ReturnFalse, AddFails, Enter, Goto, ThreadTypes, CtxPoints, TriggerPoints
    <2>5. QED
      BY <2>1, <2>2, <2>3, <2>4
  <1>4. QED
    BY <1>1, <1>2, <1>3, KernelFrame

\* Everything else outside the mutexes.
LEMMA OtherSynced ==
  ASSUME Types, HandInv, Synced, NEW t \in Threads, OthersAlone(t),
         \/ Sleep(t) \/ YieldToHold(t) \/ Finish(t)
         \/ stoppingTimer(t) \/ stoppingPending(t) \/ stoppingQueue(t)
         \/ epoll_wait(t) \/ listExpiredCb(t) \/ scheduleExpired(t) \/ idleSwapOut(t)
         \/ Pick(t) \/ EnterIdle(t) \/ Exit(t) \/ \E r \in batch[t] : Skips(t, r)
  PROVE  Synced'
  <1> USE DEF Types
  <1>1. /\ UNCHANGED <<events, epoll>> /\ pc[t] \notin TriggerPoints
        /\ pc'[t] \notin CtxPoints
    <2>1. CASE \E r \in batch[t] : Skips(t, r)
      BY <2>1 DEF Skips, CtxPoints, TriggerPoints
    <2>2. CASE Sleep(t) \/ YieldToHold(t) \/ Finish(t) \/ Pick(t) \/ EnterIdle(t) \/ Exit(t)
      BY <2>2 DEF Sleep, YieldToHold, Finish, Pick, EnterIdle, Exit, Goto, ctxVars, ThreadTypes,
         CtxPoints, TriggerPoints
    <2>3. CASE \/ stoppingTimer(t) \/ stoppingPending(t) \/ stoppingQueue(t)
               \/ epoll_wait(t) \/ listExpiredCb(t) \/ scheduleExpired(t) \/ idleSwapOut(t)
      BY <2>3 DEF stoppingTimer, stoppingPending, stoppingQueue, epoll_wait, listExpiredCb,
         scheduleExpired, idleSwapOut, Goto, ctxVars, ThreadTypes, CtxPoints, TriggerPoints
    <2>4. QED
      BY <2>1, <2>2, <2>3
  <1>2. \A r \in batch'[t] : r.ptr[2] = 0
    <2>1. CASE epoll_wait(t)
      <3>1. PICK B \in SUBSET [ptr : Contexts, real : SUBSET Events] :
              /\ batch' = [batch EXCEPT ![t] = B]
              /\ \A r \in B : \E fd \in Fds : epoll[fd] # None /\ r.ptr = epoll[fd].ptr
        BY <2>1, WaitFacts
      <3>2. QED
        BY <3>1 DEF Synced, FirstContexts, ThreadTypes
    <2>2. CASE ~epoll_wait(t)
      <3>1. batch'[t] \subseteq batch[t]
        BY <2>2 DEF Sleep, YieldToHold, Finish, stoppingTimer, stoppingPending, stoppingQueue,
           listExpiredCb, scheduleExpired, idleSwapOut, Pick, EnterIdle, Exit, Skips, ThreadTypes
      <3>2. QED
        BY <3>1 DEF Synced, FirstContexts
    <2>3. QED
      BY <2>1, <2>2
  <1>3. QED
    BY <1>1, <1>2, KernelFrame DEF CtxPoints

\* No step sets the kernel and the contexts apart.
LEMMA KernelStep == IoInv /\ NeverReplaced /\ KernelInv /\ [Next]_vars => KernelInv'
  <1> SUFFICES ASSUME IoInv, NeverReplaced, KernelInv, [Next]_vars, aborted' = "none" PROVE Synced'
    BY DEF KernelInv
  <1> USE DEF IoInv
  <1>1. CASE UNCHANGED vars \/ Over \/ stop \/ schedule
    <2>1. UNCHANGED <<events, epoll, call, pc, batch, aborted>>
      BY <1>1 DEF Over, stop, schedule, vars, ctxVars, thrVars
    <2>2. Synced
      BY <2>1 DEF KernelInv
    <2>3. QED
      BY <2>1, <2>2 DEF Synced, FirstContexts, MutexInv, Inside, Watches, NextEvent, Agreed, Unlocked
  <1>2. ASSUME aborted = "none", NEW t \in Threads, thread(t) PROVE Synced'
    <2>1. OthersAlone(t) /\ Synced
      BY <1>2, ThreadFrame DEF KernelInv
    <2>2. CASE addEvent(t)
      BY <2>1, <2>2, AddFacts, ChangeSynced, LookupSynced
    <2>3. CASE delEvent(t)
      BY <2>1, <2>3, SectionFacts, ChangeSynced
    <2>4. CASE cancelEvent(t)
      BY <2>1, <2>4, SectionFacts, EnterSynced
    <2>5. CASE processReport(t)
      BY <2>1, <2>5, ReportFacts, EnterSynced, OtherSynced
    <2>6. CASE triggerEvent(t)
      <3>1. ~TriggerAborts(t)
        BY DEF TriggerAborts
      <3>2. QED
        BY <2>1, <2>6, <3>1, SectionFacts, TriggerSynced
    <2>7. QED
      BY <1>2, <2>1, <2>2, <2>3, <2>4, <2>5, <2>6, LeaveSynced, LookupSynced, OtherSynced
      DEF thread, task, idle
  <1>3. QED
    BY <1>1, <1>2 DEF Next

\* The kernel follows the contexts as long as none has been replaced.
LEMMA KernelAlways == Spec /\ []NeverReplaced => []KernelInv
  <1>1. Init => KernelInv
    <2> SUFFICES ASSUME Init PROVE Synced
      BY DEF KernelInv
    <2>1. FirstContexts /\ MutexInv /\ \A t \in Threads : Inside(t)
      BY DEF Init, FirstContexts, MutexInv, Inside, CtxPoints, TriggerPoints
    <2>2. Agreed
      <3>1. \A c \in Contexts : events[c] = {} /\ epoll[c[1]] = None
        BY ContextParts DEF Init
      <3>2. QED
        BY <3>1 DEF Agreed, Watches
    <2>3. QED
      BY <2>1, <2>2 DEF Synced
  <1>2. QED
    BY <1>1, KernelStep, IoAlways, PTL DEF Spec

\* Whenever nobody is inside a context's mutex, epoll watches the descriptor for
\* exactly the events of the context, and reports them to it, whatever addEvent,
\* delEvent, cancelEvent, cancelAll and idle() do on different threads, as long
\* as contextResize has not replaced a context.
THEOREM KernelFollows == Spec /\ []NeverReplaced => []KernelAgrees
  <1>1. IoInv /\ NeverReplaced /\ KernelInv => KernelAgrees
    <2> SUFFICES ASSUME IoInv, NeverReplaced, KernelInv, aborted = "none", NEW fd \in Fds,
                        Unlocked(<<fd, slot[fd]>>)
                 PROVE  Watches(<<fd, slot[fd]>>, events[<<fd, slot[fd]>>])
      BY DEF KernelAgrees, Watches
    <2>1. PICK c \in Contexts : c = <<fd, slot[fd]>>
      BY DEF IoInv, Types, CtxTypes, Contexts
    <2>2. c[2] = 0
      BY <2>1 DEF NeverReplaced
    <2>3. QED
      BY <2>1, <2>2 DEF KernelInv, Synced, Agreed
  <1>2. QED
    BY <1>1, KernelAlways, IoAlways, PTL

\* Descriptors whose resizes never shrink the table, in whatever order the threads
\* that found it too small take the write lock.
NoShrink == \A a, b \in Fds : a >= InitSize /\ b >= InitSize => b < (a * 3) \div 2

\* What such descriptors keep true of the table: no context is replaced, and only
\* descriptors beyond the first size ask for another one.
Grown ==
    /\ NeverReplaced
    /\ m_size >= InitSize
    /\ \A t \in Threads : pc[t] = "resize" => call[t].fd >= InitSize

\* A resize then leads beyond every descriptor.
LEMMA ResizeCovers ==
  ASSUME NoShrink, NEW fd \in Fds, fd >= InitSize
  PROVE  (fd * 3) \div 2 >= InitSize /\ \A b \in Fds : b < (fd * 3) \div 2
  <1>1. fd < (fd * 3) \div 2 /\ (fd * 3) \div 2 >= InitSize
    BY IoAssumption DEF NoShrink, InitSize
  <1>2. QED
    BY <1>1, IoAssumption DEF NoShrink, InitSize

\* For such descriptors the resizes commute.
LEMMA GrownAlways ==
  ASSUME NoShrink
  PROVE  Spec => []Grown
  <1>1. Init => Grown
    BY DEF Init, Grown, NeverReplaced, InitSize
  <1>2. IoInv /\ Grown /\ [Next]_vars => Grown'
    <2> SUFFICES ASSUME IoInv, Grown, [Next]_vars PROVE Grown'
      OBVIOUS
    <2> USE DEF IoInv, Types, Grown
    <2>1. ASSUME m_size' = m_size, slot' = slot, NEW t \in Threads, OthersAlone(t),
                 pc'[t] = "resize" => call'[t].fd >= InitSize
          PROVE  Grown'
      BY <2>1 DEF NeverReplaced, OthersAlone
    <2>2. CASE UNCHANGED vars \/ Over \/ schedule \/ stop
      BY <2>2 DEF Over, schedule, stop, vars, ctxVars, thrVars, NeverReplaced
    <2>3. ASSUME NEW t \in Threads, thread(t) PROVE Grown'
      <3>1. OthersAlone(t)
        BY <2>3, ThreadFrame
      <3>2. CASE contextResize(t)
        <4>1. PICK fd \in Fds : fd = call[t].fd /\ fd >= InitSize
          BY <3>2 DEF contextResize, HandInv, Hands
        <4>2. /\ m_size' = (fd * 3) \div 2 /\ pc'[t] = "add"
              /\ slot' = [b \in Fds |-> IF b < m_size /\ b >= (fd * 3) \div 2 THEN slot[b] + 1
                                        ELSE slot[b]]
          BY <3>2, <4>1 DEF contextResize, Goto, ThreadTypes
        <4>3. (fd * 3) \div 2 >= InitSize /\ \A b \in Fds : b < (fd * 3) \div 2
          BY <4>1, ResizeCovers
        <4>4. \A b \in Fds : ~(b >= (fd * 3) \div 2)
          BY <4>3, IoAssumption
        <4>5. NeverReplaced'
          BY <4>2, <4>4 DEF NeverReplaced
        <4>6. QED
          BY <3>1, <4>2, <4>3, <4>5 DEF OthersAlone
      <3>3. CASE addEventLookup(t)
        <4>1. PICK fd \in Fds, e \in Events, f \in Tasks :
                IF m_size > fd
                  THEN Enter(t, "add", [NoCall EXCEPT !.fd = fd, !.event = e, !.task = f,
                                                      !.ctx = <<fd, slot[fd]>>])
                  ELSE Enter(t, "resize", [NoCall EXCEPT !.fd = fd, !.event = e, !.task = f])
          BY <3>3 DEF addEventLookup
        <4>2. m_size' = m_size /\ slot' = slot
          BY <4>1 DEF Enter, ctxVars
        <4>3. CASE m_size > fd
          BY <2>1, <3>1, <4>1, <4>2, <4>3 DEF Enter, Goto, ThreadTypes
        <4>4. CASE ~(m_size > fd)
          <5>1. call'[t] = [NoCall EXCEPT !.fd = fd, !.event = e, !.task = f]
            BY <4>1, <4>4 DEF Enter, ThreadTypes
          <5>2. call'[t].fd = fd
            BY <5>1 DEF NoCall
          <5>3. fd >= InitSize
            BY <4>4, IoAssumption DEF CtxTypes, InitSize
          <5>4. QED
            BY <2>1, <3>1, <4>2, <5>2, <5>3
        <4>5. QED
          BY <4>3, <4>4
      <3>4. CASE ~contextResize(t) /\ ~addEventLookup(t)
        <4>1. CASE task(t)
          BY <2>1, <3>1, <3>4, <4>1 DEF task, addEvent, lookup, ReturnFalse, delEvent, cancelEvent,
             Sleep, YieldToHold, Finish, Enter, Goto, ctxVars, ThreadTypes
        <4>2. CASE idle(t)
          BY <2>1, <3>1, <4>2 DEF idle, stoppingTimer, stoppingPending, stoppingQueue, epoll_wait,
             listExpiredCb, scheduleExpired, processReport, idleSwapOut, Goto, ctxVars, ThreadTypes
        <4>3. CASE triggerEvent(t) \/ Triggered(t) \/ Pick(t) \/ EnterIdle(t) \/ Exit(t)
          <5>1. call[t].back \in {"task", "events"}
            BY CallFields DEF ThreadTypes
          <5>2. QED
            BY <2>1, <3>1, <4>3, <5>1 DEF triggerEvent, Triggered, Pick, EnterIdle, Exit, Goto, ctxVars,
               ThreadTypes
        <4>4. QED
          BY <2>3, <3>4, <4>1, <4>2, <4>3 DEF thread
      <3>5. QED
        BY <3>2, <3>3, <3>4
    <2>4. QED
      BY <2>2, <2>3 DEF Next
  <1>3. QED
    BY <1>1, <1>2, IoAlways, PTL DEF Spec

\* So with such descriptors the kernel always agrees with the contexts; a set of
\* descriptors below 32 is one.
THEOREM KernelFollowsIfGrowing ==
  ASSUME NoShrink
  PROVE  Spec => []KernelAgrees
  <1>1. Grown => NeverReplaced
    BY DEF Grown
  <1>2. QED
    BY <1>1, GrownAlways, KernelFollows, PTL

\* The table reaches to every descriptor that the kernel knows, and to the one that
\* addEvent is about to register.
Covered ==
    /\ \A t \in Threads : pc[t] = "add" => call[t].ctx[1] < m_size
    /\ \A fd \in Fds : epoll[fd] # None => fd < m_size

\* A step that makes no registration, and no table too small for one.
LEMMA CoveredFrame ==
  ASSUME Types, Covered, NEW t \in Threads, OthersAlone(t), m_size' = m_size,
         pc'[t] # "add", \A fd \in Fds : epoll'[fd] # None => epoll[fd] # None
  PROVE  Covered'
  BY DEF Covered, OthersAlone

\* For descriptors whose resizes never shrink the table, it covers what is registered.
LEMMA CoveredStep ==
  ASSUME NoShrink, IoInv, Grown, Covered, [Next]_vars
  PROVE  Covered'
  <1> USE DEF IoInv, Types
  <1>1. CASE UNCHANGED vars \/ Over \/ schedule \/ stop
    BY <1>1 DEF Over, schedule, stop, vars, ctxVars, thrVars, Covered
  <1>2. ASSUME NEW t \in Threads, thread(t) PROVE Covered'
    <2>1. OthersAlone(t)
      BY <1>2, ThreadFrame
    <2>2. CASE contextResize(t)
      <3>1. PICK fd \in Fds : fd = call[t].fd /\ fd >= InitSize
        BY <2>2 DEF contextResize, HandInv, Hands, Grown
      <3>2. m_size' = (fd * 3) \div 2 /\ epoll' = epoll /\ call'[t].ctx = <<fd, slot[fd]>>
        BY <2>2, <3>1 DEF contextResize, ThreadTypes, Calls
      <3>3. \A b \in Fds : b < m_size'
        BY <3>1, <3>2, ResizeCovers
      <3>4. ASSUME NEW u \in Threads, pc'[u] = "add" PROVE call'[u].ctx[1] \in Fds
        <4>1. CASE u = t
          BY <3>2, <4>1
        <4>2. CASE u # t
          BY <2>1, <3>4, <4>2, ContextParts DEF OthersAlone, HandInv, Hands
        <4>3. QED
          BY <4>1, <4>2
      <3>5. QED
        BY <3>3, <3>4 DEF Covered
    <2>3. CASE addEventLookup(t)
      <3>1. PICK fd \in Fds, e \in Events, f \in Tasks :
              IF m_size > fd
                THEN Enter(t, "add", [NoCall EXCEPT !.fd = fd, !.event = e, !.task = f,
                                                    !.ctx = <<fd, slot[fd]>>])
                ELSE Enter(t, "resize", [NoCall EXCEPT !.fd = fd, !.event = e, !.task = f])
        BY <2>3 DEF addEventLookup
      <3>2. m_size' = m_size /\ epoll' = epoll
        BY <3>1 DEF Enter, ctxVars
      <3>3. CASE m_size > fd
        <4>1. call'[t] = [NoCall EXCEPT !.fd = fd, !.event = e, !.task = f, !.ctx = <<fd, slot[fd]>>]
          BY <3>1, <3>3 DEF Enter, ThreadTypes
        <4>2. call'[t].ctx[1] < m_size
          BY <3>3, <4>1, IoAssumption DEF NoCall, CtxTypes
        <4>3. QED
          BY <2>1, <3>2, <4>2 DEF Covered, OthersAlone
      <3>4. CASE ~(m_size > fd)
        BY <2>1, <3>1, <3>2, <3>4, CoveredFrame DEF Enter, Goto, ThreadTypes
      <3>5. QED
        BY <3>3, <3>4
    <2>4. CASE addEvent(t)
      <3>1. CASE AddFails(t)
        BY <2>1, <3>1, CoveredFrame DEF AddFails, Enter, Goto, ctxVars, ThreadTypes
      <3>2. ASSUME NEW c \in Contexts, NEW e \in Events, NEW f \in Tasks, Adds(t, c, e, f)
            PROVE  Covered'
        <4>1. events[c] \cup {e} \in SUBSET Events /\ c[1] \in Fds /\ c[1] < m_size
          BY <3>2, ContextParts DEF Adds, CtxTypes, Covered
        <4>2. \A fd \in Fds \ {c[1]} : epoll'[fd] = epoll[fd]
          BY <3>2, <4>1, EpollSet DEF Adds
        <4>3. m_size' = m_size /\ pc'[t] # "add"
          BY <3>2 DEF Adds, ThreadTypes
        <4>4. QED
          BY <2>1, <4>1, <4>2, <4>3 DEF Covered, OthersAlone
      <3>3. QED
        BY <2>4, <3>1, <3>2, AddFacts
    <2>5. ASSUME NEW c \in Contexts, NEW S \in SUBSET Events, epoll_ctl(c, S), epoll[c[1]] # None,
                 m_size' = m_size, pc'[t] # "add"
          PROVE  Covered'
      <3>1. \A fd \in Fds \ {c[1]} : epoll'[fd] = epoll[fd]
        BY <2>5, EpollSet
      <3>2. QED
        BY <2>1, <2>5, <3>1, CoveredFrame
    <2>6. CASE delEvent(t)
      <3>1. PICK c \in Contexts, e \in Events : Deletes(t, c, e)
        BY <2>6, SectionFacts
      <3>2. events[c] \ {e} \in SUBSET Events /\ pc'[t] # "add"
        BY <3>1 DEF Deletes, CtxTypes, ThreadTypes
      <3>3. QED
        BY <2>5, <3>1, <3>2 DEF Deletes
    <2>7. CASE cancelEvent(t)
      <3>1. PICK c \in Contexts, S \in SUBSET Events : Cancels(t, c, S)
        BY <2>7, SectionFacts
      <3>2. events[c] \ S \in SUBSET Events /\ pc'[t] # "add"
        BY <3>1 DEF Cancels, CtxTypes, ThreadTypes
      <3>3. QED
        BY <2>5, <3>1, <3>2 DEF Cancels
    <2>8. CASE processReport(t)
      <3>1. PICK r \in batch[t] :
              Skips(t, r) \/ \E c \in Contexts, S \in SUBSET Events : Takes(t, r, c, S)
        BY <2>8, ReportFacts
      <3>2. CASE Skips(t, r)
        BY <2>1, <3>2, CoveredFrame DEF Skips
      <3>3. ASSUME NEW c \in Contexts, NEW S \in SUBSET Events, Takes(t, r, c, S) PROVE Covered'
        <4>1. events[c] \ S \in SUBSET Events /\ pc'[t] # "add"
          BY <3>3 DEF Takes, CtxTypes, ThreadTypes
        <4>2. QED
          BY <2>5, <3>3, <4>1 DEF Takes
      <3>4. QED
        BY <3>1, <3>2, <3>3
    <2>9. CASE lookup(t) \/ ReturnFalse(t) \/ Sleep(t) \/ YieldToHold(t) \/ Finish(t)
      BY <2>1, <2>9, CoveredFrame DEF lookup, ReturnFalse, Sleep, YieldToHold, Finish, Enter, Goto,
         ctxVars, ThreadTypes
    <2>10. CASE \/ stoppingTimer(t) \/ stoppingPending(t) \/ stoppingQueue(t) \/ epoll_wait(t)
                \/ listExpiredCb(t) \/ scheduleExpired(t) \/ idleSwapOut(t)
      BY <2>1, <2>10, CoveredFrame DEF stoppingTimer, stoppingPending, stoppingQueue, epoll_wait,
         listExpiredCb, scheduleExpired, idleSwapOut, Goto, ctxVars, ThreadTypes
    <2>11. CASE triggerEvent(t) \/ Triggered(t) \/ Pick(t) \/ EnterIdle(t) \/ Exit(t)
      <3>1. call[t].back \in {"task", "events"}
        BY CallFields DEF ThreadTypes
      <3>2. QED
        BY <2>1, <2>11, <3>1, CoveredFrame DEF triggerEvent, Triggered, Pick, EnterIdle, Exit, Goto,
           ctxVars, ThreadTypes
    <2>12. QED
      BY <1>2, <2>2, <2>3, <2>4, <2>6, <2>7, <2>8, <2>9, <2>10, <2>11 DEF thread, task, idle
  <1>3. QED
    BY <1>1, <1>2 DEF Next

\* cancelEvent, delEvent and cancelAll find every event that exists: the context
\* that the kernel would report to is the one m_fdContexts leads to, as long as
\* the descriptors are such that contextResize never shrinks the table.  The run
\* IoShrink shows that the condition is needed.
THEOREM CancelFindsIfGrowing ==
  ASSUME NoShrink
  PROVE  Spec => []CancelFinds
  <1>1. Init => Covered
    BY DEF Init, Covered
  <1>2. Spec => []Covered
    BY <1>1, CoveredStep, GrownAlways, IoAlways, PTL DEF Spec
  <1>3. Grown => NeverReplaced
    BY DEF Grown
  <1>4. NeverReplaced /\ KernelInv /\ Covered => CancelFinds
    BY DEF NeverReplaced, KernelInv, Synced, FirstContexts, Covered, CancelFinds
  <1>5. QED
    BY <1>2, <1>3, <1>4, GrownAlways, KernelAlways, PTL
===============================================================================
