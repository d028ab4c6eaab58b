------------------------------ MODULE TimerProofs ------------------------------
(***************************************************************************)
(* Proofs about TimerManager, for any number of timers and idle threads,    *)
(* any delays, and a clock that is set back.                                *)
(***************************************************************************)
EXTENDS TimerManager, FiniteSetTheorems, WellFoundedInduction, TLAPS

(***************************************************************************)
(* The smallest and the largest number of a set.                            *)
(***************************************************************************)

\* A non-empty set of naturals has a smallest element, and Min is that element.
LEMMA MinNat ==
  ASSUME NEW S \in SUBSET Nat, S # {}
  PROVE  Min(S) \in S /\ \A y \in S : Min(S) <= y
  <1>1. PICK x \in S : \A y \in S : ~(<<y, x>> \in OpToRel(<, Nat))
    BY NatLessThanWellFounded, WFMin
  <1>2. \A y \in S : x <= y
    <2> SUFFICES ASSUME NEW y \in S PROVE x <= y
      OBVIOUS
    <2>1. ~(y < x)
      BY <1>1 DEF OpToRel
    <2>2. QED
      BY <2>1
  <1>3. QED
    BY <1>2 DEF Min

\* The smaller of two numbers: std::min in IoManager::idle, and the saturation
\* of the ghost counter fired.
LEMMA MinPair ==
  ASSUME NEW a \in Nat, NEW b \in Nat
  PROVE  Min({a, b}) = IF a <= b THEN a ELSE b
  <1>1. Min({a, b}) \in {a, b} /\ Min({a, b}) <= a /\ Min({a, b}) <= b
    BY MinNat
  <1>2. QED
    BY <1>1

\* The larger of two numbers: getNextTimer's answer for a timer already due.
LEMMA MaxPair ==
  ASSUME NEW a \in Nat, NEW b \in Nat
  PROVE  Max({a, b}) = IF a >= b THEN a ELSE b
  <1>1. \E x \in {a, b} : \A y \in {a, b} : x >= y
    OBVIOUS
  <1>2. Max({a, b}) \in {a, b} /\ \A y \in {a, b} : Max({a, b}) >= y
    BY <1>1 DEF Max
  <1>3. QED
    BY <1>2

\* The first key of a non-empty set of entries is the key of one of them, and
\* no entry has a smaller one.
LEMMA FirstKeyFacts ==
  ASSUME NEW S \in SUBSET [key : Nat, timer : Timers], S # {}
  PROVE  /\ FirstKey(S) \in Nat
         /\ \E e \in S : e.key = FirstKey(S)
         /\ \A e \in S : FirstKey(S) <= e.key
  <1> DEFINE K == {e.key : e \in S}
  <1>1. K \in SUBSET Nat /\ K # {}
    OBVIOUS
  <1>2. Min(K) \in K /\ \A y \in K : Min(K) <= y
    BY <1>1, MinNat
  <1>3. QED
    BY <1>1, <1>2 DEF FirstKey

-----------------------------------------------------------------------------
(***************************************************************************)
(* The inductive invariant.                                                 *)
(***************************************************************************)

\* A timer that is not in the set yet has no history; one that is added has a
\* callback until it is collected (one-shot) or cancelled, whichever is first.
Fates ==
    \A t \in Timers :
        /\ phase[t] = "none" => ~m_cb[t]
        /\ phase[t] = "built" => m_cb[t]
        /\ phase[t] # "added" => fired[t] = 0 /\ t \notin cancelled
        /\ t \in Recurring => fired[t] = 0
        /\ fired[t] # 0 => t \notin cancelled
        /\ phase[t] = "added" =>
              (m_cb[t] <=> fired[t] = 0 /\ t \notin cancelled)
        /\ fired[t] # 2

\* Starting times are never negative, so reset() without from_now computes a
\* time; while the clock only moves forward they are in the past, so are the
\* clock readings of listExpiredCb, and a running epoll_wait ends after Start.
Clocks ==
    /\ \A t \in Timers : m_ms[t] <= m_next[t]
    /\ ~stepped =>
          /\ now >= Start
          /\ \A t \in Timers : m_next[t] - m_ms[t] <= now
          /\ \A i \in Idlers : snap[i] <= now
          /\ \A i \in Idlers : wake[i] # 0 => wake[i] >= Start
          /\ m_previousTime <= now

TimerInv == TypeOK /\ CallbackIffQueued /\ Fates /\ Clocks

\* The manager starts with no timers.
LEMMA TimerInit == Init => TimerInv
  <1> SUFFICES ASSUME Init PROVE TimerInv
    OBVIOUS
  <1> USE TimerAssumption
  <1>0. Start \in Nat /\ 0 \in 0..MaxTicks /\ 0 \in 0..MaxOps /\ 0 \in 0..2
    OBVIOUS
  <1>1. TypeOK
    BY <1>0, Zenon DEF Init, TypeOK
  <1>2. CallbackIffQueued /\ Fates
    BY DEF Init, CallbackIffQueued, Fates
  <1>3. Clocks
    BY DEF Init, Clocks
  <1>4. QED
    BY <1>1, <1>2, <1>3 DEF TimerInv

\* The entries of the set are the timers under their present keys; one is there
\* exactly if its timer is added and has a callback.
LEMMA Entries ==
  ASSUME TypeOK, CallbackIffQueued
  PROVE  m_timers = {entry(t) : t \in {u \in Timers : phase[u] = "added" /\ m_cb[u]}}
  BY DEF TypeOK, CallbackIffQueued, Found, entry

\* Every call of user code keeps the invariant.
LEMMA UserNext ==
  ASSUME TimerInv, NEW t \in Timers, User(t)
  PROVE  TimerInv'
  <1> USE DEF TimerInv
  <1>1. CASE \E ms \in Delays : Timer(t, ms)
    <2>1. PICK ms \in Delays : Timer(t, ms)
      BY <1>1
    <2>2. ms \in Nat /\ uint16(ms) \in Nat /\ now \in Nat
      BY TimerAssumption DEF uint16, TypeOK
    <2> HIDE DEF uint16
    <2>3. TypeOK'
      BY <2>1, <2>2, TimerAssumption DEF Timer, Call, TypeOK, clockVars, mgrVars, idleVars
    <2>4. CallbackIffQueued'
      BY <2>1, <2>2 DEF Timer, TypeOK, CallbackIffQueued, Found, entry
    <2>5. Fates'
      BY <2>1, <2>2 DEF Timer, TypeOK, Fates
    <2>6. Clocks'
      BY <2>1, <2>2 DEF Timer, TypeOK, Clocks, clockVars, mgrVars, idleVars
    <2>7. QED
      BY <2>3, <2>4, <2>5, <2>6
  <1>2. CASE addTimer(t)
    <2>0. m_tickled' \in BOOLEAN /\ announcing' \subseteq announcing \cup {t}
      BY <1>2 DEF addTimer, announce, TypeOK
    <2>1. TypeOK'
      BY <1>2, <2>0 DEF addTimer, TypeOK, entry, clockVars, idleVars, userVars
    <2>2. CallbackIffQueued'
      BY <1>2 DEF addTimer, TypeOK, CallbackIffQueued, Fates, Found, entry
    <2>3. Fates' /\ Clocks'
      BY <1>2 DEF addTimer, TypeOK, Fates, Clocks, clockVars, idleVars, userVars
    <2>4. QED
      BY <2>1, <2>2, <2>3
  <1>3. CASE onTimerInsertedAtFront(t)
    <2>1. TypeOK'
      BY <1>3 DEF onTimerInsertedAtFront, TypeOK, clockVars, timerVars, idleVars, userVars
    <2>2. CallbackIffQueued' /\ Fates' /\ Clocks'
      BY <1>3 DEF onTimerInsertedAtFront, CallbackIffQueued, Found, entry, Fates, Clocks,
                  clockVars, timerVars, idleVars, userVars
    <2>3. QED
      BY <2>1, <2>2
  <1>4. CASE cancel(t)
    <2>1. Found(t)
      BY <1>4 DEF cancel, CallbackIffQueued
    <2>2. TypeOK'
      BY <1>4, <2>1, TimerAssumption DEF cancel, Call, TypeOK, clockVars, mgrVars, idleVars
    <2>3. CallbackIffQueued'
      BY <1>4, <2>1 DEF cancel, TypeOK, CallbackIffQueued, Found, entry
    <2>4. Fates' /\ Clocks'
      BY <1>4, <2>1 DEF cancel, TypeOK, Fates, Clocks, clockVars, mgrVars, idleVars
    <2>5. QED
      BY <2>2, <2>3, <2>4
  <1>5. CASE refresh(t)
    <2>0. now \in Nat /\ m_ms[t] \in Nat /\ now + m_ms[t] \in Nat
      BY DEF TypeOK
    <2>1. TypeOK'
      BY <1>5, <2>0, TimerAssumption DEF refresh, Call, TypeOK, clockVars, mgrVars, idleVars
    <2>2. CallbackIffQueued'
      BY <1>5, <2>0 DEF refresh, TypeOK, CallbackIffQueued, Found, entry
    <2>3. Fates' /\ Clocks'
      BY <1>5, <2>0 DEF refresh, TypeOK, Fates, Clocks, clockVars, mgrVars, idleVars
    <2>4. QED
      BY <2>1, <2>2, <2>3
  <1>6. CASE \E ms \in Delays, from_now \in BOOLEAN : reset(t, ms, from_now)
    <2>1. PICK ms \in Delays, from_now \in BOOLEAN : reset(t, ms, from_now)
      BY <1>6
    <2> DEFINE start == IF from_now THEN now ELSE m_next[t] - m_ms[t]
    <2>2. /\ ms \in Nat /\ start \in Nat /\ start + ms \in Nat
          /\ ~stepped => start <= now
      BY TimerAssumption DEF TypeOK, Clocks
    <2>3. /\ phase[t] = "added" /\ m_cb[t] /\ Found(t) /\ Call
          /\ m_ms' = [m_ms EXCEPT ![t] = ms]
          /\ m_next' = [m_next EXCEPT ![t] = start + ms]
          /\ m_timers' = (m_timers \ {entry(t)}) \cup {[key |-> start + ms, timer |-> t]}
          /\ due' = [due EXCEPT ![t] = start + ms]
          /\ m_tickled' \in BOOLEAN /\ announcing' \subseteq announcing \cup {t}
          /\ UNCHANGED <<clockVars, phase, m_cb, m_previousTime, pipe, idleVars,
                   fired, cancelled, crashed>>
      BY <2>1 DEF reset, announce, TypeOK
    <2> HIDE DEF start
    <2>4. TypeOK'
      BY <2>2, <2>3, TimerAssumption DEF Call, TypeOK, clockVars, idleVars
    <2>5. CallbackIffQueued'
      BY <2>2, <2>3 DEF TypeOK, CallbackIffQueued, Found, entry
    <2>6. Fates' /\ Clocks'
      BY <2>2, <2>3 DEF TypeOK, Fates, Clocks, clockVars, idleVars
    <2>7. QED
      BY <2>4, <2>5, <2>6
  <1>7. QED
    BY <1>1, <1>2, <1>3, <1>4, <1>5, <1>6 DEF User

\* The entries listExpiredCb takes out are in the set; without a rollover of the
\* clock they are the ones due at now_ms.
LEMMA ExpiredFacts ==
  ASSUME NEW now_ms
  PROVE  /\ Expired(now_ms) \subseteq m_timers
         /\ ~detectClockRollover(now_ms) => \A e \in Expired(now_ms) : e.key <= now_ms
  BY DEF Expired

\* Collecting any part S of the set, at any time, keeps the invariant: a one-shot
\* timer leaves with its callback, a recurring one comes back under a new key.
LEMMA CollectKeeps ==
  ASSUME TimerInv, NEW S \in SUBSET m_timers, NEW now_ms \in Nat, collect(S, now_ms),
         ~stepped => now_ms <= now,
         UNCHANGED <<now, stepped, phase, m_ms, cancelled>>
  PROVE  /\ m_timers' \subseteq [key : Nat, timer : Timers]
         /\ m_cb' \in [Timers -> BOOLEAN] /\ m_next' \in [Timers -> Nat]
         /\ due' \in [Timers -> Nat] /\ fired' \in [Timers -> 0..2]
         /\ CallbackIffQueued' /\ Fates'
         /\ \A t \in Timers : m_ms[t] <= m_next'[t]
         /\ ~stepped => \A t \in Timers : m_next'[t] - m_ms[t] <= now
  <1> USE DEF TimerInv
  <1> DEFINE gone  == {e.timer : e \in S}
             again == {t \in gone : t \in Recurring}
  <1>1. gone \subseteq Timers /\ \A t \in Timers : t \in gone <=> entry(t) \in S
    BY DEF TypeOK, CallbackIffQueued, entry
  <1>2. \A t \in gone : phase[t] = "added" /\ m_cb[t] /\ fired[t] = 0 /\ t \notin cancelled
    BY <1>1 DEF CallbackIffQueued, Found, Fates
  <1>3. Min({1, 2}) = 1
    BY MinPair
  <1>4. /\ m_cb' = [t \in Timers |-> m_cb[t] /\ t \notin gone \ again]
        /\ m_next' = [t \in Timers |-> IF t \in again THEN now_ms + m_ms[t] ELSE m_next[t]]
        /\ m_timers' = (m_timers \ S) \cup {[key |-> now_ms + m_ms[t], timer |-> t] : t \in again}
        /\ fired' = [t \in Timers |-> IF t \in gone \ again THEN 1 ELSE fired[t]]
        /\ due' = [t \in Timers |-> IF t \in again THEN now_ms + m_ms[t] ELSE due[t]]
    <2>1. \A t \in gone : Min({fired[t] + 1, 2}) = 1
      BY <1>2, <1>3
    <2>2. QED
      BY <2>1 DEF collect
  <1> DEFINE Rest == {u \in Timers : u \in again \/ (entry(u) \in m_timers /\ u \notin gone)}
  <1> HIDE DEF gone
  <1>5. /\ m_timers' \subseteq [key : Nat, timer : Timers]
        /\ m_next' \in [Timers -> Nat] /\ due' \in [Timers -> Nat]
    BY <1>1, <1>4 DEF TypeOK
  <1>6. m_cb' \in [Timers -> BOOLEAN] /\ fired' \in [Timers -> 0..2]
    BY <1>4 DEF TypeOK
  <1>7. \A e \in m_timers' : e.timer \in Timers /\ e = [key |-> m_next'[e.timer], timer |-> e.timer]
                             /\ phase[e.timer] = "added"
    <2>1. ASSUME NEW e \in m_timers \ S
          PROVE  e.timer \in Timers /\ e = [key |-> m_next'[e.timer], timer |-> e.timer]
                             /\ phase[e.timer] = "added"
      <3>1. e = entry(e.timer) /\ phase[e.timer] = "added" /\ e.timer \in Timers
        BY DEF CallbackIffQueued, TypeOK
      <3>2. e.timer \notin gone
        BY <1>1, <3>1, <2>1
      <3>3. QED
        BY <1>4, <3>1, <3>2 DEF entry
    <2>2. ASSUME NEW t \in again
          PROVE  /\ t \in Timers /\ m_next'[t] = now_ms + m_ms[t]
                 /\ phase[t] = "added"
      BY <1>1, <1>2, <1>4
    <2>3. ASSUME NEW e \in m_timers', e \notin m_timers \ S
          PROVE  \E t \in again : e = [key |-> now_ms + m_ms[t], timer |-> t]
      BY <1>4, <2>3
    <2>4. QED
      BY <2>1, <2>2, <2>3
  <1>8. ASSUME NEW t \in Timers, phase[t] = "added"
        PROVE  m_cb'[t] <=> [key |-> m_next'[t], timer |-> t] \in m_timers'
    <2>1. CASE t \in again
      BY <1>2, <1>4, <2>1
    <2>2. CASE t \in gone \ again
      <3>1. \A e \in m_timers' : e.timer # t
        <4>1. \A e \in m_timers \ S : e.timer # t
          BY <1>1, <2>2 DEF CallbackIffQueued
        <4>2. QED
          BY <1>4, <2>2, <4>1
      <3>2. QED
        BY <1>4, <2>2, <3>1
    <2>3. CASE t \notin gone
      <3>1. m_next'[t] = m_next[t] /\ (m_cb'[t] <=> m_cb[t])
        BY <1>4, <2>3
      <3>2. m_cb[t] <=> entry(t) \in m_timers
        BY <1>8 DEF CallbackIffQueued, Found
      <3>3. entry(t) \notin S
        BY <1>1, <2>3
      <3>4. entry(t) \in m_timers' <=> entry(t) \in m_timers
        BY <1>4, <2>3, <3>3 DEF entry
      <3>5. QED
        BY <3>1, <3>2, <3>4 DEF entry
    <2>4. QED
      BY <2>1, <2>2, <2>3
  <1>9. CallbackIffQueued'
    BY <1>7, <1>8 DEF CallbackIffQueued, Found, entry
  <1>10. Fates'
    <2> SUFFICES ASSUME NEW t \in Timers
        PROVE /\ phase[t] = "none" => ~m_cb'[t]
              /\ phase[t] = "built" => m_cb'[t]
              /\ phase[t] # "added" => fired'[t] = 0 /\ t \notin cancelled
              /\ t \in Recurring => fired'[t] = 0
              /\ fired'[t] # 0 => t \notin cancelled
              /\ phase[t] = "added" => (m_cb'[t] <=> fired'[t] = 0 /\ t \notin cancelled)
              /\ fired'[t] # 2
      BY DEF Fates
    <2>1. CASE t \in gone
      <3>1. CASE t \in again
        <4>1. fired'[t] = 0 /\ m_cb'[t]
          BY <1>2, <1>4, <3>1
        <4>2. QED
          BY <1>2, <2>1, <4>1
      <3>2. CASE t \notin again
        <4>1. fired'[t] = 1 /\ ~m_cb'[t]
          BY <1>4, <2>1, <3>2
        <4>2. t \notin Recurring
          BY <2>1, <3>2
        <4>3. QED
          BY <1>2, <2>1, <4>1, <4>2
      <3>3. QED
        BY <3>1, <3>2
    <2>2. CASE t \notin gone
      <3>1. fired'[t] = fired[t] /\ (m_cb'[t] <=> m_cb[t])
        BY <1>4, <2>2
      <3>2. QED
        BY <3>1 DEF Fates
    <2>3. QED
      BY <2>1, <2>2
  <1>11. /\ \A t \in Timers : m_ms[t] <= m_next'[t]
         /\ ~stepped => \A t \in Timers : m_next'[t] - m_ms[t] <= now
    BY <1>4 DEF TypeOK, Clocks
  <1>12. QED
    BY <1>5, <1>6, <1>9, <1>10, <1>11

\* getNextTimer sets a wait that ends neither before now nor after the time of
\* the first timer, or now if that has passed.
LEMMA WaitFacts ==
  ASSUME TypeOK, NEW i \in Idlers, getNextTimer(i)
  PROVE  /\ wake' = [wake EXCEPT ![i] = wake'[i]]
         /\ wake'[i] \in Nat /\ wake'[i] >= now
         /\ m_timers # {} => wake'[i] <= Max({FirstKey(m_timers), now})
  <1>0. now \in Nat /\ MAX_TIMEOUT = 3000
    BY DEF TypeOK, MAX_TIMEOUT
  <1>1. CASE m_timers = {}
    BY <1>0, <1>1 DEF getNextTimer, TypeOK
  <1>2. CASE m_timers # {}
    <2>1. FirstKey(m_timers) \in Nat
      BY <1>2, FirstKeyFacts DEF TypeOK
    <2> DEFINE m == Max({FirstKey(m_timers), now})
    <2>2. m \in Nat /\ m >= now
      BY <1>0, <2>1, MaxPair
    <2> HIDE DEF m
    <2>3. Min({m, now + MAX_TIMEOUT}) = IF m <= now + MAX_TIMEOUT THEN m ELSE now + MAX_TIMEOUT
      BY <1>0, <2>2, MinPair
    <2>4. wake' = [wake EXCEPT ![i] = Min({m, now + MAX_TIMEOUT})]
      BY <1>2 DEF getNextTimer, m
    <2>5. QED
      BY <1>0, <2>2, <2>3, <2>4 DEF TypeOK, m
  <1>3. QED
    BY <1>1, <1>2

\* Every step of an idle thread keeps the invariant.
LEMMA IdleNext ==
  ASSUME TimerInv, NEW i \in Idlers, idle(i)
  PROVE  TimerInv'
  <1> USE DEF TimerInv
  <1>1. CASE getNextTimer(i)
    <2>1. /\ wake' = [wake EXCEPT ![i] = wake'[i]]
          /\ wake'[i] \in Nat /\ wake'[i] >= now
      BY <1>1, WaitFacts
    <2>2. TypeOK'
      BY <1>1, <2>1 DEF getNextTimer, TypeOK, clockVars, timerVars, userVars
    <2>3. CallbackIffQueued' /\ Fates'
      BY <1>1 DEF getNextTimer, CallbackIffQueued, Found, entry, Fates, timerVars, userVars
    <2>4. Clocks'
      BY <1>1, <2>1, TimerAssumption DEF getNextTimer, TypeOK, Clocks, clockVars, timerVars
    <2>5. QED
      BY <2>2, <2>3, <2>4
  <1>2. CASE epoll_wait(i) \/ drain(i)
    <2>0. pipe' \in BOOLEAN /\ byPipe' \subseteq Idlers
      BY <1>2, Zenon DEF epoll_wait, drain, TypeOK
    <2>1. TypeOK'
      BY <1>2, <2>0 DEF epoll_wait, drain, TypeOK, clockVars, timerVars, userVars
    <2>2. CallbackIffQueued' /\ Fates' /\ Clocks'
      BY <1>2 DEF epoll_wait, drain, CallbackIffQueued, Found, entry, Fates, Clocks, TypeOK,
                  clockVars, timerVars, userVars
    <2>3. QED
      BY <2>1, <2>2
  <1>3. CASE listReadClock(i) \/ listTestEmpty(i)
    <2>0. /\ pc' \in [Idlers -> {"poll", "asleep", "readNow", "check", "collect", "drain"}]
          /\ snap' \in [Idlers -> Nat]
      BY <1>3 DEF listReadClock, listTestEmpty, TypeOK
    <2>1. TypeOK'
      BY <1>3, <2>0 DEF listReadClock, listTestEmpty, TypeOK, clockVars, timerVars, mgrVars, userVars
    <2>2. CallbackIffQueued' /\ Fates'
      BY <1>3 DEF listReadClock, listTestEmpty, CallbackIffQueued, Found, entry, Fates,
                  timerVars, userVars
    <2>3. Clocks'
      BY <1>3 DEF listReadClock, listTestEmpty, Clocks, TypeOK, clockVars, timerVars, mgrVars
    <2>4. QED
      BY <2>1, <2>2, <2>3
  <1>4. CASE listExpiredCb(i)
    <2> DEFINE now_ms == snap[i]
    <2>1. /\ now_ms \in Nat /\ (~stepped => now_ms <= now)
          /\ UNCHANGED <<now, ticks, stepped, phase, m_ms, m_tickled, announcing, pipe,
                   wake, byPipe, cancelled, ops>>
          /\ m_previousTime' = now_ms
          /\ pc' = [pc EXCEPT ![i] = "drain"] /\ snap' = [snap EXCEPT ![i] = 0]
      BY <1>4 DEF listExpiredCb, TypeOK, Clocks, clockVars
    <2>2. CASE crashed'
      <3>1. UNCHANGED <<m_cb, m_next, m_timers, fired, due>>
        BY <1>4, <2>2 DEF listExpiredCb
      <3>2. TypeOK'
        BY <2>1, <2>2, <3>1 DEF TypeOK
      <3>3. CallbackIffQueued' /\ Fates'
        BY <2>1, <3>1 DEF CallbackIffQueued, Found, entry, Fates
      <3>4. Clocks'
        BY <2>1, <3>1 DEF Clocks, TypeOK
      <3>5. QED
        BY <3>2, <3>3, <3>4
    <2>3. CASE ~crashed'
      <3>1. collect(Expired(now_ms), now_ms) /\ UNCHANGED crashed
        BY <1>4, <2>3 DEF listExpiredCb
      <3>2. /\ m_timers' \subseteq [key : Nat, timer : Timers]
            /\ m_cb' \in [Timers -> BOOLEAN] /\ m_next' \in [Timers -> Nat]
            /\ due' \in [Timers -> Nat] /\ fired' \in [Timers -> 0..2]
            /\ CallbackIffQueued' /\ Fates'
            /\ \A t \in Timers : m_ms[t] <= m_next'[t]
            /\ ~stepped => \A t \in Timers : m_next'[t] - m_ms[t] <= now
        <4>1. Expired(now_ms) \in SUBSET m_timers
          BY ExpiredFacts
        <4>2. QED
          BY <2>1, <3>1, <4>1, CollectKeeps
      <3>3. TypeOK'
        BY <2>1, <3>1, <3>2 DEF TypeOK
      <3>4. Clocks'
        BY <2>1, <3>2 DEF Clocks, TypeOK
      <3>5. QED
        BY <3>2, <3>3, <3>4
    <2>4. QED
      BY <2>2, <2>3
  <1>5. QED
    BY <1>1, <1>2, <1>3, <1>4 DEF idle

\* The clock advances, or is set back once by less than the time it shows.
LEMMA ClockNext ==
  ASSUME TimerInv, Advance \/ SetBack
  PROVE  TimerInv'
  <1> USE DEF TimerInv
  <1>1. CASE Advance
    <2>1. PICK d \in TickSizes : now' = now + d
      BY <1>1 DEF Advance
    <2>2. d \in Nat
      BY TimerAssumption
    <2>3. TypeOK'
      BY <1>1, <2>1, <2>2, TimerAssumption
      DEF Advance, TypeOK, timerVars, mgrVars, idleVars, userVars
    <2>4. CallbackIffQueued' /\ Fates'
      BY <1>1 DEF Advance, CallbackIffQueued, Found, entry, Fates, timerVars, userVars
    <2>5. Clocks'
      BY <1>1, <2>1, <2>2, TimerAssumption DEF Advance, TypeOK, Clocks, timerVars, mgrVars, idleVars
    <2>6. QED
      BY <2>3, <2>4, <2>5
  <1>2. CASE SetBack
    <2>1. PICK d \in SetBacks : /\ now' = now - d
                                /\ wake' = [i \in Idlers |-> IF wake[i] = 0 THEN 0 ELSE wake[i] - d]
      BY <1>2 DEF SetBack
    <2>2. d \in Nat /\ d <= Start /\ Start \in Nat
      <3> DEFINE b == Hour + MAX_TIMEOUT
      <3>1. b \in Nat
        BY DEF Hour, MAX_TIMEOUT
      <3>2. SetBacks \subseteq 1..b /\ Start > b /\ Start \in Nat
        BY TimerAssumption
      <3> HIDE DEF b
      <3>3. QED
        BY <3>1, <3>2
    <2>3. now' \in Nat /\ wake' \in [Idlers -> Nat]
      BY <1>2, <2>1, <2>2 DEF SetBack, TypeOK, Clocks
    <2>4. TypeOK'
      BY <1>2, <2>3 DEF SetBack, TypeOK, timerVars, mgrVars, userVars
    <2>5. CallbackIffQueued' /\ Fates' /\ Clocks'
      BY <1>2 DEF SetBack, CallbackIffQueued, Found, entry, Fates, Clocks, timerVars, userVars
    <2>6. QED
      BY <2>4, <2>5
  <1>3. QED
    BY <1>1, <1>2

\* Every step keeps the invariant.
LEMMA TimerNext == TimerInv /\ [Next]_vars => TimerInv'
  <1> SUFFICES ASSUME TimerInv, [Next]_vars PROVE TimerInv'
    OBVIOUS
  <1>1. CASE UNCHANGED vars
    BY <1>1 DEF TimerInv, TypeOK, CallbackIffQueued, Found, entry, Fates, Clocks,
            vars, clockVars, timerVars, mgrVars, idleVars, userVars
  <1>2. CASE Next
    BY <1>2, UserNext, IdleNext, ClockNext DEF Next
  <1>3. QED
    BY <1>1, <1>2

-----------------------------------------------------------------------------
(***************************************************************************)
(* What the invariant gives.                                                *)
(***************************************************************************)

\* The state of the timers is well-typed, however the calls of user code, the
\* collections and a step of the clock interleave.
THEOREM TimerTypeCorrect == Spec => []TypeOK
  <1>1. TimerInv => TypeOK
    BY DEF TimerInv
  <1>2. QED
    BY <1>1, TimerInit, TimerNext, PTL DEF Spec

\* A timer has its callback exactly while it is in the set, under its present
\* key: Timer::cancel never erases end(), and refresh() and reset() always find a
\* timer that has not been collected or cancelled.
THEOREM TimerAlwaysFound == Spec => []CallbackIffQueued
  <1>1. TimerInv => CallbackIffQueued
    BY DEF TimerInv
  <1>2. QED
    BY <1>1, TimerInit, TimerNext, PTL DEF Spec

\* A timer that was added waits in the set once, or was cancelled, or (one-shot)
\* was collected once: no interleaving of cancel(), refresh() or reset() with
\* listExpiredCb, not even with a clock that was set back, loses or doubles it.
THEOREM TimerOneFate == Spec => []OneFate
  <1>1. TimerInv => OneFate
    <2> SUFFICES ASSUME TimerInv, NEW t \in Timers, phase[t] = "added"
                 PROVE  (IF t \in Recurring THEN 0 ELSE fired[t])
                          + Cardinality({e \in m_timers : e.timer = t})
                          + (IF t \in cancelled THEN 1 ELSE 0) = 1
      BY DEF OneFate
    <2> DEFINE E == {e \in m_timers : e.timer = t}
    <2>1. CASE m_cb[t]
      <3>1. E = {entry(t)}
        BY <2>1 DEF TimerInv, CallbackIffQueued, Found, entry
      <3>2. Cardinality(E) = 1
        BY <3>1, FS_Singleton
      <3>3. fired[t] = 0 /\ t \notin cancelled
        BY <2>1 DEF TimerInv, Fates
      <3>4. QED
        BY <3>2, <3>3
    <2>2. CASE ~m_cb[t]
      <3>1. E = {}
        BY <2>2 DEF TimerInv, CallbackIffQueued, Found, entry
      <3>2. Cardinality(E) = 0
        BY <3>1, FS_EmptySet
      <3>3. fired[t] \in 0..2 /\ fired[t] # 2 /\ (t \in Recurring => fired[t] = 0)
        BY DEF TimerInv, Fates, TypeOK
      <3>4. \/ fired[t] = 0 /\ t \in cancelled
            \/ fired[t] # 0 /\ t \notin cancelled
        BY <2>2 DEF TimerInv, Fates
      <3>5. QED
        BY <3>2, <3>3, <3>4
    <2>3. QED
      BY <2>1, <2>2
  <1>2. QED
    BY <1>1, TimerInit, TimerNext, PTL DEF Spec

-----------------------------------------------------------------------------
(***************************************************************************)
(* The first timer is watched.                                              *)
(***************************************************************************)

\* Somebody is about to look at the timers, or is being told to.
Attended ==
    pipe \/ announcing # {} \/ \E i \in Idlers : pc[i] # "asleep"

\* m_tickled is what makes an announcement unnecessary: while it is set, the
\* previous one is still on its way.
WatchInv == (m_tickled => Attended) /\ Watched

\* A step that moves no idle thread and brings no earlier timer leaves the first
\* timer watched.
LEMMA WatchKeep ==
  ASSUME TimerInv, TimerInv', WatchInv, UNCHANGED <<pipe, pc, wake>>,
         announcing' = announcing, crashed' = crashed, stepped' = stepped, now' >= now,
         \A e \in m_timers' : \E d \in m_timers : d.key <= e.key
  PROVE  Watched'
  <1> SUFFICES ASSUME m_timers' # {}, ~stepped, ~crashed, ~Attended
               PROVE  \E i \in Idlers : wake[i] <= Max({FirstKey(m_timers'), now'})
    BY DEF Watched, Attended
  <1>1. m_timers # {}
    OBVIOUS
  <1>2. PICK i \in Idlers : wake[i] <= Max({FirstKey(m_timers), now})
    BY <1>1 DEF WatchInv, Watched, Attended
  <1>3. /\ FirstKey(m_timers) \in Nat /\ FirstKey(m_timers') \in Nat
        /\ FirstKey(m_timers) <= FirstKey(m_timers')
    <2>1. /\ m_timers \in SUBSET [key : Nat, timer : Timers]
          /\ m_timers' \in SUBSET [key : Nat, timer : Timers]
      BY DEF TimerInv, TypeOK
    <2>2. /\ FirstKey(m_timers') \in Nat
          /\ \E e \in m_timers' : e.key = FirstKey(m_timers')
      BY <2>1, FirstKeyFacts
    <2>3. FirstKey(m_timers) \in Nat /\ \A e \in m_timers : FirstKey(m_timers) <= e.key
      BY <1>1, <2>1, FirstKeyFacts
    <2>4. PICK e \in m_timers' : e.key = FirstKey(m_timers')
      BY <2>2
    <2>5. PICK d \in m_timers : d.key <= e.key
      OBVIOUS
    <2>6. d.key \in Nat /\ e.key \in Nat
      BY <2>1
    <2>7. QED
      BY <2>2, <2>3, <2>4, <2>5, <2>6
  <1>4. now \in Nat /\ now' \in Nat /\ wake[i] \in Nat
    BY DEF TimerInv, TypeOK
  <1>5. /\ Max({FirstKey(m_timers), now}) = IF FirstKey(m_timers) >= now THEN FirstKey(m_timers) ELSE now
        /\ Max({FirstKey(m_timers'), now'}) =
              IF FirstKey(m_timers') >= now' THEN FirstKey(m_timers') ELSE now'
    BY <1>3, <1>4, MaxPair
  <1>6. wake[i] <= Max({FirstKey(m_timers'), now'})
    BY <1>2, <1>3, <1>4, <1>5
  <1>7. QED
    BY <1>6

\* A new entry announces itself, or an announcement is on its way, or it does
\* not come before the others.
LEMMA AnnounceFacts ==
  ASSUME TypeOK, NEW t \in Timers, NEW key \in Nat, NEW others \in SUBSET m_timers,
         announce(t, key, others)
  PROVE  \/ m_tickled' /\ announcing' # {}
         \/ /\ m_tickled /\ UNCHANGED <<m_tickled, announcing>>
         \/ /\ UNCHANGED <<m_tickled, announcing>>
            /\ \E d \in others : d.key <= key
  <1>1. PICK first \in {\A e \in others : key < e.key, \A e \in others : key <= e.key} :
           IF first /\ ~m_tickled
             THEN m_tickled' = TRUE /\ announcing' = announcing \cup {t}
             ELSE UNCHANGED <<m_tickled, announcing>>
    BY DEF announce
  <1>2. \A d \in others : d.key \in Nat
    BY DEF TypeOK
  <1>3. (\A e \in others : key < e.key) => first
    <2> DEFINE A == \A e \in others : key < e.key
               B == \A e \in others : key <= e.key
    <2>1. A => B
      BY <1>2
    <2>2. first = A \/ first = B
      OBVIOUS
    <2> HIDE DEF A, B
    <2>3. A => first
      BY <2>1, <2>2, Zenon
    <2>4. QED
      BY <2>3 DEF A
  <1>4. CASE first /\ ~m_tickled
    BY <1>1, <1>4
  <1>5. CASE m_tickled
    BY <1>1, <1>5
  <1>6. CASE ~first
    <2>1. \E d \in others : ~(key < d.key)
      BY <1>3, <1>6
    <2>2. QED
      BY <1>1, <1>2, <1>6, <2>1
  <1>7. QED
    BY <1>4, <1>5, <1>6

\* Every call of user code keeps the first timer watched.
LEMMA UserWatch ==
  ASSUME TimerInv, TimerInv', WatchInv, NEW t \in Timers, User(t)
  PROVE  WatchInv'
  <1>0. m_timers \in SUBSET [key : Nat, timer : Timers] /\ now \in Nat
    BY DEF TimerInv, TypeOK
  <1>a. ASSUME Attended' PROVE WatchInv'
    BY <1>a DEF WatchInv, Attended, Watched
  <1>1. CASE \E ms \in Delays : Timer(t, ms)
    <2>1. /\ UNCHANGED <<pipe, pc, wake, announcing, crashed, stepped, now, m_timers, m_tickled>>
      BY <1>1 DEF Timer, clockVars, mgrVars, idleVars
    <2>2. now' >= now /\ \A e \in m_timers' : \E d \in m_timers : d.key <= e.key
      BY <1>0, <2>1
    <2>3. Watched'
      BY <2>1, <2>2, WatchKeep
    <2>4. QED
      BY <2>1, <2>3 DEF WatchInv, Attended
  <1>2. CASE addTimer(t)
    <2>1. /\ UNCHANGED <<pipe, pc, wake, crashed, stepped, now>>
          /\ m_timers' = m_timers \cup {entry(t)} /\ announce(t, m_next[t], m_timers)
      BY <1>2 DEF addTimer, clockVars, idleVars
    <2>2. m_next[t] \in Nat /\ m_timers \in SUBSET m_timers
      BY DEF TimerInv, TypeOK
    <2>3. CASE m_tickled' /\ announcing' # {}
      BY <1>a, <2>3 DEF Attended
    <2>4. CASE m_tickled /\ UNCHANGED <<m_tickled, announcing>>
      BY <1>a, <2>1, <2>4 DEF Attended, WatchInv
    <2>5. CASE UNCHANGED <<m_tickled, announcing>> /\ \E d \in m_timers : d.key <= m_next[t]
      <3>1. \A e \in m_timers' : \E d \in m_timers : d.key <= e.key
        BY <1>0, <2>1, <2>5 DEF entry
      <3>2. Watched'
        BY <1>0, <2>1, <2>5, <3>1, WatchKeep
      <3>3. QED
        BY <2>1, <2>5, <3>2 DEF WatchInv, Attended
    <2>6. QED
      BY <2>1, <2>2, <2>3, <2>4, <2>5, AnnounceFacts DEF TimerInv
  <1>3. CASE onTimerInsertedAtFront(t)
    <2>1. pipe' \/ \A i \in Idlers : pc[i] = "poll" /\ pc'[i] = pc[i]
      BY <1>3 DEF onTimerInsertedAtFront, idleVars
    <2>2. Attended'
      BY <2>1, TimerAssumption DEF Attended
    <2>3. QED
      BY <1>a, <2>2
  <1>4. CASE cancel(t)
    <2>1. /\ UNCHANGED <<pipe, pc, wake, announcing, stepped, now, m_tickled, crashed>>
          /\ m_timers' \subseteq m_timers
      BY <1>4 DEF cancel, clockVars, mgrVars, idleVars, TimerInv, CallbackIffQueued
    <2>2. now' >= now /\ \A e \in m_timers' : \E d \in m_timers : d.key <= e.key
      BY <1>0, <2>1
    <2>3. Watched'
      BY <2>1, <2>2, WatchKeep
    <2>4. QED
      BY <2>1, <2>3 DEF WatchInv, Attended
  <1>5. CASE refresh(t)
    <2>1. /\ UNCHANGED <<pipe, pc, wake, announcing, stepped, now, m_tickled, crashed>>
          /\ m_timers' = (m_timers \ {entry(t)}) \cup {[key |-> now + m_ms[t], timer |-> t]}
          /\ entry(t) \in m_timers
      BY <1>5 DEF refresh, clockVars, mgrVars, idleVars, Found
    <2>2. CASE stepped
      BY <2>1, <2>2 DEF WatchInv, Watched, Attended
    <2>3. CASE ~stepped
      <3>1. entry(t).key <= now + m_ms[t]
        BY <2>3 DEF TimerInv, TypeOK, Clocks, entry
      <3>2. now' >= now /\ \A e \in m_timers' : \E d \in m_timers : d.key <= e.key
        BY <1>0, <2>1, <3>1
      <3>3. Watched'
        BY <2>1, <3>2, WatchKeep
      <3>4. QED
        BY <2>1, <3>3 DEF WatchInv, Attended
    <2>4. QED
      BY <2>2, <2>3
  <1>6. CASE \E ms \in Delays, from_now \in BOOLEAN : reset(t, ms, from_now)
    <2>1. PICK ms \in Delays, from_now \in BOOLEAN : reset(t, ms, from_now)
      BY <1>6
    <2> DEFINE start  == IF from_now THEN now ELSE m_next[t] - m_ms[t]
               others == m_timers \ {entry(t)}
    <2>2. start + ms \in Nat /\ others \in SUBSET m_timers
      BY TimerAssumption DEF TimerInv, TypeOK, Clocks
    <2>3. /\ m_timers' = others \cup {[key |-> start + ms, timer |-> t]}
          /\ announce(t, start + ms, others)
          /\ UNCHANGED <<pipe, pc, wake, stepped, now, crashed>>
      BY <2>1 DEF reset, clockVars, idleVars
    <2> HIDE DEF start, others
    <2>4. CASE m_tickled' /\ announcing' # {}
      BY <1>a, <2>4 DEF Attended
    <2>5. CASE m_tickled /\ UNCHANGED <<m_tickled, announcing>>
      BY <1>a, <2>3, <2>5 DEF Attended, WatchInv
    <2>6. CASE UNCHANGED <<m_tickled, announcing>> /\ \E d \in others : d.key <= start + ms
      <3>1. \A e \in m_timers' : \E d \in m_timers : d.key <= e.key
        BY <1>0, <2>2, <2>3, <2>6
      <3>2. Watched'
        BY <1>0, <2>3, <2>6, <3>1, WatchKeep
      <3>3. QED
        BY <2>3, <2>6, <3>2 DEF WatchInv, Attended
    <2>7. QED
      BY <2>2, <2>3, <2>4, <2>5, <2>6, AnnounceFacts DEF TimerInv
  <1>7. QED
    BY <1>1, <1>2, <1>3, <1>4, <1>5, <1>6 DEF User

\* Every step of an idle thread keeps the first timer watched: it goes to sleep
\* only for as long as getNextTimer said, which also ends the announcement.
LEMMA IdleWatch ==
  ASSUME TimerInv, TimerInv', WatchInv, NEW i \in Idlers, idle(i)
  PROVE  WatchInv'
  <1>1. CASE getNextTimer(i)
    <2>1. m_timers # {} => wake'[i] <= Max({FirstKey(m_timers), now})
      BY <1>1, WaitFacts DEF TimerInv
    <2>2. ~m_tickled' /\ UNCHANGED <<m_timers, now>>
      BY <1>1 DEF getNextTimer, timerVars, clockVars
    <2>3. QED
      BY <2>1, <2>2 DEF WatchInv, Watched
  <1>2. CASE ~getNextTimer(i)
    <2>1. pc'[i] # "asleep"
      BY <1>2 DEF idle, epoll_wait, listReadClock, listTestEmpty, listExpiredCb, drain,
                  TimerInv, TypeOK
    <2>2. QED
      BY <2>1 DEF WatchInv, Watched, Attended
  <1>3. QED
    BY <1>1, <1>2

\* Every step keeps the first timer watched.
LEMMA WatchNext == TimerInv /\ WatchInv /\ [Next]_vars => WatchInv'
  <1> SUFFICES ASSUME TimerInv, WatchInv, [Next]_vars PROVE WatchInv'
    OBVIOUS
  <1>0. TimerInv'
    BY TimerNext
  <1>1. CASE UNCHANGED vars
    BY <1>1 DEF WatchInv, Watched, Attended,
            vars, clockVars, timerVars, mgrVars, idleVars, userVars
  <1>2. CASE \E t \in Timers : User(t)
    BY <1>0, <1>2, UserWatch
  <1>3. CASE \E i \in Idlers : idle(i)
    BY <1>0, <1>3, IdleWatch
  <1>4. CASE Advance
    <2>1. /\ UNCHANGED <<pipe, pc, wake, announcing, stepped, m_tickled, crashed, m_timers>>
          /\ now' >= now
      BY <1>4, TimerAssumption
      DEF Advance, timerVars, mgrVars, idleVars, TimerInv, TypeOK
    <2>2. \A e \in m_timers' : \E d \in m_timers : d.key <= e.key
      BY <2>1 DEF TimerInv, TypeOK
    <2>3. Watched'
      BY <1>0, <2>1, <2>2, WatchKeep
    <2>4. QED
      BY <2>1, <2>3 DEF WatchInv, Attended
  <1>5. CASE SetBack
    BY <1>5 DEF SetBack, WatchInv, Watched, Attended, mgrVars
  <1>6. QED
    BY <1>1, <1>2, <1>3, <1>4, <1>5 DEF Next

\* While the clock only moves forward, some idle thread sleeps no longer than
\* until the first timer, or will look again: an insertion that finds m_tickled
\* set and so announces nothing (TimerManager::addTimer), one whose announcement
\* finds nobody idle, and the bytes one thread drains from the pipe for another,
\* never leave a timer unattended.
THEOREM TimerWatched == Spec => []Watched
  <1>1. Init => WatchInv
    BY DEF Init, WatchInv, Watched
  <1>2. WatchInv => Watched
    BY DEF WatchInv
  <1>3. QED
    BY <1>1, <1>2, TimerInit, TimerNext, WatchNext, PTL DEF Spec

-----------------------------------------------------------------------------
(***************************************************************************)
(* No timer fires early.                                                    *)
(***************************************************************************)

\* No idle thread is held up for more than an hour between reading the clock and
\* taking the lock in listExpiredCb.
NoStall == \A i \in Idlers : pc[i] \in {"check", "collect"} => now - snap[i] <= Hour

\* The delays user code asks for fit addTimer's uint16_t.
DelaysFit == \A d \in Delays : d < 65536

\* With such delays the manager's time is the user's.
DueExact == \A t \in Timers : due[t] = m_next[t]

\* Every step keeps the two times equal.
LEMMA DueNext ==
  ASSUME DelaysFit, TimerInv, DueExact, [Next]_vars
  PROVE  DueExact'
  <1>0. due \in [Timers -> Nat] /\ m_next \in [Timers -> Nat]
    BY DEF TimerInv, TypeOK
  <1>1. ASSUME NEW t \in Timers, NEW ms \in Delays, Timer(t, ms) PROVE DueExact'
    <2>1. uint16(ms) = ms
      BY TimerAssumption DEF uint16, DelaysFit
    <2>2. QED
      BY <1>0, <1>1, <2>1 DEF Timer, DueExact
  <1>2. ASSUME NEW t \in Timers, User(t), ~\E ms \in Delays : Timer(t, ms) PROVE DueExact'
    <2>1. CASE addTimer(t) \/ onTimerInsertedAtFront(t) \/ cancel(t)
      BY <2>1 DEF addTimer, onTimerInsertedAtFront, cancel, DueExact, timerVars, userVars
    <2>a. ASSUME NEW v, m_next' = [m_next EXCEPT ![t] = v], due' = [due EXCEPT ![t] = v]
          PROVE  DueExact'
      BY <1>0, <2>a DEF DueExact
    <2>2. CASE refresh(t)
      BY <2>2, <2>a DEF refresh
    <2>3. CASE \E ms \in Delays, from_now \in BOOLEAN : reset(t, ms, from_now)
      <3>1. PICK ms \in Delays, from_now \in BOOLEAN : reset(t, ms, from_now)
        BY <2>3
      <3> DEFINE start == IF from_now THEN now ELSE m_next[t] - m_ms[t]
      <3>2. m_next' = [m_next EXCEPT ![t] = start + ms] /\ due' = [due EXCEPT ![t] = start + ms]
        BY <3>1 DEF reset
      <3> HIDE DEF start
      <3>3. QED
        BY <2>a, <3>2
    <2>4. QED
      BY <1>2, <2>1, <2>2, <2>3 DEF User
  <1>3. ASSUME NEW i \in Idlers, idle(i) PROVE DueExact'
    BY <1>0, <1>3 DEF idle, getNextTimer, epoll_wait, listReadClock, listTestEmpty,
                listExpiredCb, collect, drain, DueExact, timerVars, userVars
  <1>4. CASE Advance \/ SetBack \/ UNCHANGED vars
    BY <1>4 DEF Advance, SetBack, vars, DueExact, timerVars, userVars
  <1>5. QED
    BY <1>1, <1>2, <1>3, <1>4 DEF Next

\* A one-shot callback is collected only when its time has come.
LEMMA CollectedWhenDue ==
  ASSUME TimerInv, DueExact, NoStall, ~stepped, Next,
         NEW t \in Timers, fired'[t] > fired[t]
  PROVE  now >= due[t]
  <1>1. PICK i \in Idlers : listExpiredCb(i)
    <2>1. ASSUME UNCHANGED fired PROVE FALSE
      BY <2>1 DEF TimerInv, TypeOK
    <2>2. QED
      BY <2>1, ZenonT(60) DEF Next, User, idle, Timer, addTimer, onTimerInsertedAtFront, cancel, refresh,
              reset, getNextTimer, epoll_wait, listReadClock, listTestEmpty, drain,
              Advance, SetBack, userVars
  <1> DEFINE now_ms == snap[i]
  <1>2. now_ms \in Nat /\ now \in Nat /\ now_ms <= now /\ m_previousTime \in Nat
        /\ m_previousTime <= now
    BY DEF TimerInv, TypeOK, Clocks
  <1>3. now - now_ms <= Hour
    BY <1>1 DEF listExpiredCb, NoStall
  <1>4. ~detectClockRollover(now_ms)
    <2>1. Hour \in Nat
      BY DEF Hour
    <2>2. QED
      BY <1>2, <1>3, <2>1 DEF detectClockRollover
  <1>5. collect(Expired(now_ms), now_ms)
    <2>1. ASSUME UNCHANGED fired PROVE FALSE
      BY <2>1 DEF TimerInv, TypeOK
    <2>2. QED
      BY <1>1, <2>1 DEF listExpiredCb
  <1>6. PICK e \in Expired(now_ms) : e.timer = t
    <2>1. ASSUME t \notin {e.timer : e \in Expired(now_ms)} PROVE fired'[t] = fired[t]
      BY <1>5, <2>1 DEF collect
    <2>2. fired[t] \in Nat
      BY DEF TimerInv, TypeOK
    <2>3. QED
      BY <2>1, <2>2
  <1>7. e.key <= now_ms /\ e \in m_timers
    BY <1>4, <1>6, ExpiredFacts
  <1>8. e.key = m_next[t] /\ m_next[t] \in Nat
    BY <1>6, <1>7 DEF TimerInv, TypeOK, CallbackIffQueued, entry
  <1>9. QED
    BY <1>2, <1>7, <1>8 DEF DueExact

\* While the clock only moves forward no callback is collected before its time,
\* for delays that fit in 16 bits and as long as no thread is held up for an hour
\* inside listExpiredCb.  Without the second condition it is false:
\* detectClockRollover takes a clock reading that is an hour old for a clock that
\* was set back, and then every timer is due.
THEOREM TimerNotEarly ==
  ASSUME DelaysFit
  PROVE  Spec /\ []NoStall => NotEarly
  <1>1. Init => DueExact
    BY DEF Init, DueExact
  <1>2. TimerInv /\ DueExact /\ [Next]_vars => DueExact'
    BY DueNext
  <1>3. TimerInv /\ DueExact /\ NoStall /\ [Next]_vars =>
          [\A t \in Timers : fired'[t] > fired[t] /\ ~stepped => now >= due[t]]_vars
    BY CollectedWhenDue
  <1>4. QED
    BY <1>1, <1>2, <1>3, TimerInit, TimerNext, PTL DEF Spec, NotEarly
=============================================================================
