----------------------------- MODULE TimerManager -----------------------------
(***************************************************************************)
(* Timers (lyslg/timer.{h,cc}) and the idle threads of IoManager that wait  *)
(* for them (the timer part of IoManager::idle in lyslg/iomanager.cc).      *)
(*                                                                          *)
(* User code adds, cancels, refreshes and resets timers from any thread;    *)
(* each idle thread asks for the time to the next timer, sleeps in          *)
(* epoll_wait, and collects the callbacks that are due.  One action is one  *)
(* critical section of TimerManager::m_mutex or one read of the clock.      *)
(***************************************************************************)
EXTENDS Integers, FiniteSets, FiniteSetsExt

CONSTANTS
    Timers,      \* Timer objects, each added at most once
    Recurring,   \* the ones added with recurring = true
    Idlers,      \* threads in IoManager::idle
    Delays,      \* the ms arguments user code passes
    Start,       \* the clock (milliseconds) when the manager is created
    TickSizes,   \* by how much the clock may advance in a step
    SetBacks,    \* by how much the wall clock may be set back, once
    MaxTicks,    \* bound on the number of clock steps
    MaxOps       \* bound on the number of calls user code makes

Hour == 60 * 60 * 1000       \* detectClockRollover's tolerance
MAX_TIMEOUT == 3000          \* IoManager::idle's longest wait

ASSUME TimerAssumption ==
    /\ Delays \subseteq Nat
    /\ Start \in Nat /\ Start > Hour + MAX_TIMEOUT
    /\ TickSizes \subseteq Nat /\ SetBacks \subseteq 1..(Hour + MAX_TIMEOUT)
    /\ Recurring \subseteq Timers
    /\ Idlers # {}
    /\ MaxTicks \in Nat /\ MaxOps \in Nat

VARIABLES
    now,             \* GetCurrentMS()
    ticks,           \* clock steps so far
    stepped,         \* the wall clock has been set back
    phase,           \* "none", "built" (constructed, not inserted) or "added"
    m_timers,        \* the std::set: entries ordered by [key, timer]
    m_next, m_ms, m_cb,
    m_tickled, m_previousTime,
    announcing,      \* inserted at the front, onTimerInsertedAtFront still to run
    pipe,            \* the tickle pipe has an edge no epoll_wait has reported
    pc, snap, wake,  \* per idle thread: point, now_ms, end of its epoll_wait (0: not in it)
    byPipe,          \* idle threads that must drain the pipe
    crashed,         \* an end() iterator was dereferenced or erased
    due,             \* when the user wants the timer to fire, at the earliest
    fired,           \* how often a one-shot callback was collected (0, 1, many)
    cancelled,       \* cancel() returned true
    ops              \* calls made by user code

clockVars == <<now, ticks, stepped>>
timerVars == <<phase, m_timers, m_next, m_ms, m_cb>>
mgrVars   == <<m_tickled, m_previousTime, announcing, pipe>>
idleVars  == <<pc, snap, wake, byPipe>>
userVars  == <<due, fired, cancelled, ops>>
vars == <<clockVars, timerVars, mgrVars, idleVars, userVars, crashed>>

TypeOK ==
    /\ now \in Nat /\ ticks \in 0..MaxTicks /\ stepped \in BOOLEAN
    /\ phase \in [Timers -> {"none", "built", "added"}]
    /\ m_timers \subseteq [key : Nat, timer : Timers]
    /\ m_next \in [Timers -> Nat] /\ m_ms \in [Timers -> Nat]
    /\ m_cb \in [Timers -> BOOLEAN]
    /\ m_tickled \in BOOLEAN /\ m_previousTime \in Nat
    /\ announcing \subseteq Timers /\ pipe \in BOOLEAN
    /\ pc \in [Idlers -> {"poll", "asleep", "readNow", "check", "collect", "drain"}]
    /\ snap \in [Idlers -> Nat] /\ wake \in [Idlers -> Nat] /\ byPipe \subseteq Idlers
    /\ crashed \in BOOLEAN
    /\ due \in [Timers -> Nat] /\ fired \in [Timers -> 0..2]
    /\ cancelled \subseteq Timers /\ ops \in 0..MaxOps

Init ==
    /\ now = Start /\ ticks = 0 /\ stepped = FALSE
    /\ phase = [t \in Timers |-> "none"]
    /\ m_timers = {}
    /\ m_next = [t \in Timers |-> 0] /\ m_ms = [t \in Timers |-> 0]
    /\ m_cb = [t \in Timers |-> FALSE]
    /\ m_tickled = FALSE /\ m_previousTime = Start
    /\ announcing = {} /\ pipe = FALSE
    /\ pc = [i \in Idlers |-> "poll"]
    /\ snap = [i \in Idlers |-> 0] /\ wake = [i \in Idlers |-> 0] /\ byPipe = {}
    /\ crashed = FALSE
    /\ due = [t \in Timers |-> 0] /\ fired = [t \in Timers |-> 0]
    /\ cancelled = {} /\ ops = 0

\* User code makes one more call.
Call == ops < MaxOps /\ ops' = ops + 1

entry(t) == [key |-> m_next[t], timer |-> t]
Found(t) == entry(t) \in m_timers
FirstKey(S) == Min({e.key : e \in S})

(***************************************************************************)
(* Adding.  addTimer(ms, cb, recurring) takes its delay as a uint16_t; the  *)
(* Timer reads the clock in its constructor, before the lock is taken.      *)
(***************************************************************************)
uint16(ms) == ms % 65536

Timer(t, ms) ==
    /\ ~crashed /\ Call
    /\ phase[t] = "none"
    /\ phase' = [phase EXCEPT ![t] = "built"]
    /\ m_ms' = [m_ms EXCEPT ![t] = uint16(ms)]
    /\ m_next' = [m_next EXCEPT ![t] = now + uint16(ms)]
    /\ m_cb' = [m_cb EXCEPT ![t] = TRUE]
    /\ due' = [due EXCEPT ![t] = now + ms]
    /\ UNCHANGED <<clockVars, m_timers, mgrVars, idleVars, fired, cancelled, crashed>>

\* Variant: the announcement is noted but nobody is told.
announceSilently(t, key, others) ==
    IF \A e \in others : key <= e.key
      THEN m_tickled' = TRUE /\ UNCHANGED announcing
      ELSE UNCHANGED <<m_tickled, announcing>>

\* addTimer(val, lock): an entry that is first announces itself, unless an
\* announcement since the last getNextTimer is on its way.  Entries with equal
\* keys are ordered by address, so either may be first.
announce(t, key, others) ==
    \E first \in {\A e \in others : key < e.key, \A e \in others : key <= e.key} :
        IF first /\ ~m_tickled
          THEN m_tickled' = TRUE /\ announcing' = announcing \cup {t}
          ELSE UNCHANGED <<m_tickled, announcing>>

addTimer(t) ==
    /\ ~crashed
    /\ phase[t] = "built"
    /\ phase' = [phase EXCEPT ![t] = "added"]
    /\ m_timers' = m_timers \cup {entry(t)}
    /\ announce(t, m_next[t], m_timers)
    /\ UNCHANGED <<clockVars, m_next, m_ms, m_cb, m_previousTime, pipe,
                   idleVars, userVars, crashed>>

\* IoManager::onTimerInsertedAtFront writes to the tickle pipe, after the lock and
\* only if some thread is idle; a thread at "poll" may be back in run(), or busy
\* with a task, and then does not count.
onTimerInsertedAtFront(t) ==
    /\ ~crashed
    /\ t \in announcing
    /\ announcing' = announcing \ {t}
    /\ pipe' \in {TRUE} \cup (IF \A i \in Idlers : pc[i] = "poll" THEN {pipe} ELSE {})
    /\ UNCHANGED <<clockVars, timerVars, m_tickled, m_previousTime, idleVars, userVars, crashed>>

(***************************************************************************)
(* Timer::cancel, refresh, reset.  erase(find(...)) on a timer that is not   *)
(* in the set is undefined; cancel() does not look.                         *)
(***************************************************************************)
cancel(t) ==
    /\ ~crashed /\ Call
    /\ phase[t] = "added" /\ m_cb[t]
    /\ m_cb' = [m_cb EXCEPT ![t] = FALSE]
    /\ IF Found(t)
         THEN m_timers' = m_timers \ {entry(t)} /\ cancelled' = cancelled \cup {t} /\ UNCHANGED crashed
         ELSE crashed' = TRUE /\ UNCHANGED <<m_timers, cancelled>>
    /\ UNCHANGED <<clockVars, phase, m_next, m_ms, mgrVars, idleVars, due, fired>>

\* refresh inserts behind the announcement's back: the new time is later
\* unless the clock was set back.
refresh(t) ==
    /\ ~crashed /\ Call
    /\ phase[t] = "added" /\ m_cb[t] /\ Found(t)
    /\ m_next' = [m_next EXCEPT ![t] = now + m_ms[t]]
    /\ m_timers' = (m_timers \ {entry(t)}) \cup {[key |-> now + m_ms[t], timer |-> t]}
    /\ due' = [due EXCEPT ![t] = now + m_ms[t]]
    /\ UNCHANGED <<clockVars, phase, m_ms, m_cb, mgrVars, idleVars,
                   fired, cancelled, crashed>>

\* Variant: the key changes while the timer is still in the ordered set.
resetInPlace(t, ms, from_now) ==
    LET start == IF from_now THEN now ELSE m_next[t] - m_ms[t] IN
    /\ ~crashed /\ Call
    /\ phase[t] = "added" /\ m_cb[t] /\ Found(t)
    /\ m_ms' = [m_ms EXCEPT ![t] = ms]
    /\ m_next' = [m_next EXCEPT ![t] = start + ms]
    /\ due' = [due EXCEPT ![t] = start + ms]
    /\ UNCHANGED <<clockVars, phase, m_timers, m_cb, mgrVars, idleVars,
                   fired, cancelled, crashed>>

reset(t, ms, from_now) ==
    LET start  == IF from_now THEN now ELSE m_next[t] - m_ms[t]
        others == m_timers \ {entry(t)}
    IN
    /\ ~crashed /\ Call
    /\ ~(ms = m_ms[t] /\ ~from_now)
    /\ phase[t] = "added" /\ m_cb[t] /\ Found(t)
    /\ m_ms' = [m_ms EXCEPT ![t] = ms]
    /\ m_next' = [m_next EXCEPT ![t] = start + ms]
    /\ m_timers' = others \cup {[key |-> start + ms, timer |-> t]}
    /\ announce(t, start + ms, others)
    /\ due' = [due EXCEPT ![t] = start + ms]
    /\ UNCHANGED <<clockVars, phase, m_cb, m_previousTime, pipe, idleVars,
                   fired, cancelled, crashed>>

(***************************************************************************)
(* An idle thread: IoManager::idle, as far as timers are concerned.         *)
(***************************************************************************)
\* Variant: with no timer the wait is -1, not MAX_TIMEOUT.
getNextTimerUncapped(i) ==
    /\ ~crashed
    /\ pc[i] = "poll"
    /\ m_tickled' = FALSE
    /\ wake' = [wake EXCEPT ![i] =
                  IF m_timers = {} THEN -1 ELSE Max({FirstKey(m_timers), now})]
    /\ pc' = [pc EXCEPT ![i] = "asleep"]
    /\ UNCHANGED <<clockVars, timerVars, m_previousTime, announcing, pipe, snap, byPipe,
                   userVars, crashed>>

\* getNextTimer, capped by MAX_TIMEOUT, is the time epoll_wait is given.
getNextTimer(i) ==
    /\ ~crashed
    /\ pc[i] = "poll"
    /\ m_tickled' = FALSE
    /\ wake' = [wake EXCEPT ![i] =
                  IF m_timers = {} THEN now + MAX_TIMEOUT
                  ELSE Min({Max({FirstKey(m_timers), now}), now + MAX_TIMEOUT})]
    /\ pc' = [pc EXCEPT ![i] = "asleep"]
    /\ UNCHANGED <<clockVars, timerVars, m_previousTime, announcing, pipe, snap, byPipe,
                   userVars, crashed>>

\* epoll_wait returns on its timeout or for the edge of the tickle pipe.
epoll_wait(i) ==
    /\ ~crashed
    /\ pc[i] = "asleep"
    /\ \/ now >= wake[i] /\ UNCHANGED <<pipe, byPipe>>
       \/ pipe /\ pipe' = FALSE /\ byPipe' = byPipe \cup {i}
    /\ pc' = [pc EXCEPT ![i] = "readNow"]
    /\ wake' = [wake EXCEPT ![i] = 0]
    /\ UNCHANGED <<clockVars, timerVars, m_tickled, m_previousTime, announcing, snap,
                   userVars, crashed>>

\* listExpiredCb: the clock, the emptiness test under the read lock, and the
\* collection under the write lock are three steps.
listReadClock(i) ==
    /\ ~crashed
    /\ pc[i] = "readNow"
    /\ snap' = [snap EXCEPT ![i] = now]
    /\ pc' = [pc EXCEPT ![i] = "check"]
    /\ UNCHANGED <<clockVars, timerVars, mgrVars, wake, byPipe, userVars, crashed>>

listTestEmpty(i) ==
    /\ ~crashed
    /\ pc[i] = "check"
    /\ pc' = [pc EXCEPT ![i] = IF m_timers = {} THEN "drain" ELSE "collect"]
    /\ snap' = IF m_timers = {} THEN [snap EXCEPT ![i] = 0] ELSE snap
    /\ UNCHANGED <<clockVars, timerVars, mgrVars, wake, byPipe, userVars, crashed>>

detectClockRollover(now_ms) ==
    now_ms < m_previousTime /\ now_ms < m_previousTime - Hour

\* Variant: the test for the end of the due range is off by one millisecond.
ExpiredEarly(now_ms) == {e \in m_timers : e.key <= now_ms + 1}

Expired(now_ms) ==
    IF detectClockRollover(now_ms) THEN m_timers ELSE {e \in m_timers : e.key <= now_ms}

\* Variant: one-shot timers stay in the set when they are collected.
collectKeep(S, now_ms) ==
    /\ fired' = [t \in Timers |->
                   IF \E e \in S : e.timer = t /\ t \notin Recurring THEN Min({fired[t] + 1, 2}) ELSE fired[t]]
    /\ UNCHANGED <<m_cb, m_next, m_timers, due>>

\* Collecting the due timers: a one-shot timer loses its callback, a recurring
\* one is inserted again.  S is the set of entries taken out.
collect(S, now_ms) ==
    LET gone  == {e.timer : e \in S}
        again == {t \in gone : t \in Recurring}
    IN
    /\ m_cb' = [t \in Timers |-> m_cb[t] /\ t \notin gone \ again]
    /\ m_next' = [t \in Timers |-> IF t \in again THEN now_ms + m_ms[t] ELSE m_next[t]]
    /\ m_timers' = (m_timers \ S) \cup {[key |-> now_ms + m_ms[t], timer |-> t] : t \in again}
    /\ fired' = [t \in Timers |->
                   IF t \in gone \ again THEN Min({fired[t] + 1, 2}) ELSE fired[t]]
    /\ due' = [t \in Timers |-> IF t \in again THEN now_ms + m_ms[t] ELSE due[t]]

listExpiredCb(i) ==
    LET now_ms == snap[i] IN
    /\ ~crashed
    /\ pc[i] = "collect"
    /\ m_previousTime' = now_ms
    /\ IF m_timers = {} /\ ~detectClockRollover(now_ms)
         THEN crashed' = TRUE /\ UNCHANGED <<m_cb, m_next, m_timers, fired, due>>
         ELSE collect(Expired(now_ms), now_ms) /\ UNCHANGED crashed
    /\ pc' = [pc EXCEPT ![i] = "drain"]
    /\ snap' = [snap EXCEPT ![i] = 0]
    /\ UNCHANGED <<clockVars, phase, m_ms, m_tickled, announcing, pipe,
                   wake, byPipe, cancelled, ops>>

\* The read loop on the pipe also swallows what was written meanwhile.
drain(i) ==
    /\ ~crashed
    /\ pc[i] = "drain"
    /\ pipe' = (pipe /\ i \notin byPipe)
    /\ byPipe' = byPipe \ {i}
    /\ pc' = [pc EXCEPT ![i] = "poll"]
    /\ UNCHANGED <<clockVars, timerVars, m_tickled, m_previousTime, announcing, snap, wake,
                   userVars, crashed>>

(***************************************************************************)
(* The wall clock: it advances, and an administrator may set it back once,  *)
(* by a little or by more than an hour.  What is left of an epoll_wait is a *)
(* duration, which does not change.                                         *)
(***************************************************************************)
Advance ==
    /\ ~crashed
    /\ ticks < MaxTicks
    /\ ticks' = ticks + 1
    /\ \E d \in TickSizes : now' = now + d
    /\ UNCHANGED <<stepped, timerVars, mgrVars, idleVars, userVars, crashed>>

SetBack ==
    /\ ~crashed
    /\ ~stepped
    /\ stepped' = TRUE
    /\ \E d \in SetBacks :
          /\ now' = now - d
          /\ wake' = [i \in Idlers |-> IF wake[i] = 0 THEN 0 ELSE wake[i] - d]
    /\ UNCHANGED <<ticks, timerVars, mgrVars, pc, snap, byPipe, userVars, crashed>>

-----------------------------------------------------------------------------

idle(i) ==
    \/ getNextTimer(i)
    \/ epoll_wait(i)
    \/ listReadClock(i)
    \/ listTestEmpty(i)
    \/ listExpiredCb(i)
    \/ drain(i)

User(t) ==
    \/ \E ms \in Delays : Timer(t, ms)
    \/ addTimer(t)
    \/ onTimerInsertedAtFront(t)
    \/ cancel(t)
    \/ refresh(t)
    \/ \E ms \in Delays, from_now \in BOOLEAN : reset(t, ms, from_now)

Next ==
    \/ \E t \in Timers : User(t)
    \/ \E i \in Idlers : idle(i)
    \/ Advance
    \/ SetBack

Spec == Init /\ [][Next]_vars

-----------------------------------------------------------------------------
(***************************************************************************)
(* Properties.                                                              *)
(***************************************************************************)

\* A timer has its callback exactly as long as it is in the ordered set, under
\* the key it has now: cancel(), refresh() and reset() can find it, and cancel()
\* never erases end().
CallbackIffQueued ==
    /\ \A t \in Timers : phase[t] = "added" => (m_cb[t] <=> Found(t))
    /\ \A e \in m_timers : e = entry(e.timer) /\ phase[e.timer] = "added"

\* A timer that was added has one fate at a time: it waits in the set, was
\* cancelled, or (one-shot) has fired once.  So cancel() returning true means the
\* callback will not be collected, whichever thread was collecting, and no
\* interleaving of refresh() or reset() with a collection loses or doubles it.
OneFate ==
    \A t \in Timers : phase[t] = "added" =>
        (IF t \in Recurring THEN 0 ELSE fired[t])
          + Cardinality({e \in m_timers : e.timer = t})
          + (IF t \in cancelled THEN 1 ELSE 0) = 1

\* While the wall clock only moves forward, a callback is collected no earlier
\* than the delay asked for ("ms: interval after which the timer executes").
NotEarly ==
    [][\A t \in Timers : fired'[t] > fired[t] /\ ~stepped => now >= due[t]]_vars

\* While the wall clock only moves forward, the first timer is watched: some
\* idle thread sleeps no longer than until its time, or is about to ask again,
\* or is being woken.
Watched ==
    (m_timers # {} /\ ~stepped /\ ~crashed) =>
        \/ pipe \/ announcing # {}
        \/ \E i \in Idlers : pc[i] # "asleep" \/ wake[i] <= Max({FirstKey(m_timers), now})

\* listExpiredCb "gets the list of the callbacks of the timers to execute"; it
\* does not bring the process down.
NoCrash == ~crashed
=============================================================================
