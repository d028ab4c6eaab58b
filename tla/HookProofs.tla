------------------------------ MODULE HookProofs ------------------------------
(***************************************************************************)
(* Proofs about the hooked calls, for any number of callers, calls and     *)
(* files opened under the descriptor number.                               *)
(***************************************************************************)
EXTENDS Hook, FiniteSetTheorems, TLAPS

\* The hooked calls by themselves; a run of MCServices plays them as one scene.
HookSpec == HookInit /\ [][HookNext]_hookVars

-----------------------------------------------------------------------------
(***************************************************************************)
(* The inductive invariant.                                                *)
(***************************************************************************)

\* Types of the history variables, which HookTypes leaves out.
HistoryTypes ==
  /\ began \in [Fibers -> Nat] /\ expired \subseteq Fibers
  /\ early \subseteq Fibers /\ window \subseteq Fibers
  /\ cause \in [Fibers -> {"none", "event", "timer", "closing", "refused"}]

\* How many files have been opened under the number, and had a context.
Opened == Cardinality(nonblock)

\* The files are opened one after the other, and close() drops the context of one
\* before the number can be given to the next.
Files ==
  /\ Opened \in 1 .. MaxFiles /\ nonblock = 1 .. Opened
  /\ owner \in {"cancelAll", "del", "close_f", "closed", "get"} => Opened < MaxFiles
  /\ owner \in {"use", "cancelAll", "del"} => file = Opened /\ ctx = file
  /\ owner \in {"close_f", "closed", "get"} => ctx = 0
  /\ owner = "close_f" => file = Opened
  /\ owner = "closed" => file = 0
  /\ owner = "get" => file = Opened + 1

\* The callers on hold are the registered ones; those epoll does not know, and
\* those registered behind the back of close(), are in the window.
Holds ==
  /\ \A f \in Fibers : f \in event <=> at[f] = "hold"
  /\ ~item => event \subseteq window
  /\ owner \in {"del", "close_f"} => event \subseteq window

\* A callback belongs to a call that was made; it is of the present call only if
\* that call's timer has expired, and half done only if it has set cancelled.
Timeouts ==
  /\ \A f \in Fibers : at[f] # "idle" \/ f \in timer => calls[f] > 0
  /\ \A f \in cancelled : at[f] # "idle" /\ f \in expired
  /\ \A cb \in due :
        /\ cb.call <= calls[cb.fiber]
        /\ cb.call = calls[cb.fiber] => cb.fiber \in expired
        /\ cb.call = calls[cb.fiber] /\ cb.step = "cancel" /\ at[cb.fiber] # "idle"
             => cb.fiber \in cancelled
  /\ OwnTimeout

\* Why a connect was woken, and what is then true of its file.
Causes ==
  /\ \A f \in Fibers : began[f] <= Opened
  /\ \A f \in Fibers : at[f] = "so_error" => f \in Connectors
  /\ \A f \in Connectors :
        /\ calls[f] <= 1
        /\ at[f] = "queued" => cause[f] \in {"event", "timer", "closing"}
        /\ at[f] = "queued" /\ cause[f] = "timer" => f \in cancelled
        /\ at[f] = "so_error" => cause[f] \in {"event", "closing", "refused"}
        /\ at[f] \in {"queued", "so_error"} /\ cause[f] = "event" /\ file # 0 /\ file = began[f]
             => f \in ready \cup failed
  /\ ConnectTruth

HookInv == HookTypes /\ HistoryTypes /\ Files /\ Holds /\ Timeouts /\ Causes

-----------------------------------------------------------------------------
\* The numbers up to n are n.
LEMMA CountUpTo ==
  ASSUME NEW n \in Nat
  PROVE  IsFiniteSet(1 .. n) /\ Cardinality(1 .. n) = n
  BY FS_Interval

\* Nobody has called yet, and the first file has its context.
LEMMA HookInitial == HookInit => HookInv
  <1> SUFFICES ASSUME HookInit PROVE HookInv
    OBVIOUS
  <1> USE HookAssumption
  <1>0. /\ 1 \in 0 .. MaxFiles /\ 1 \in 1 .. MaxFiles /\ {1} \subseteq 1 .. MaxFiles
        /\ 0 \in 0 .. MaxDrains /\ 0 \in Nat
    OBVIOUS
  <1>1. Opened = 1 /\ nonblock = 1 .. 1
    <2>1. {1} = 1 .. 1
      OBVIOUS
    <2>2. Cardinality(1 .. 1) = 1
      BY CountUpTo
    <2>3. QED
      BY <2>1, <2>2 DEF HookInit, Opened
  <1>2. HookTypes /\ HistoryTypes
    BY <1>0, Zenon DEF HookInit, HookTypes, HistoryTypes
  <1>3. Files
    BY <1>0, <1>1 DEF HookInit, Files
  <1>4. Holds /\ Timeouts /\ Causes
    BY <1>1 DEF HookInit, Holds, Timeouts, OwnTimeout, Causes, ConnectTruth
  <1>5. QED
    BY <1>2, <1>3, <1>4 DEF HookInv

\* A caller that goes on with its call keeps the invariant.
LEMMA GotoKeeps ==
  ASSUME HookInv, NEW f \in Fibers, NEW place \in {"io", "arm", "add", "so_error", "stuck"},
         at[f] \notin {"idle", "hold"}, Goto(f, place),
         place = "so_error" => f \in Connectors /\ at[f] = "queued" /\ f \notin cancelled,
         UNCHANGED <<fdVars, ioVars, calls, due, expired, lied>>,
         timer' \subseteq timer \cup {f}
  PROVE  HookInv'
  <1> USE DEF HookInv, Goto, fdVars, ioVars, ownVars
  <1>1. HookTypes' /\ HistoryTypes'
    BY DEF HookTypes, HistoryTypes
  <1>2. Opened' = Opened /\ Files'
    BY DEF Files, Opened
  <1>3. Holds'
    BY DEF Holds, HookTypes
  <1>4. Timeouts'
    BY DEF Timeouts, OwnTimeout, HookTypes, Callback
  <1>5. Causes'
    BY <1>2, HookAssumption DEF Causes, ConnectTruth, HookTypes, HistoryTypes
  <1>6. QED
    BY <1>1, <1>2, <1>3, <1>4, <1>5

\* A caller whose call returns keeps the invariant: nothing of the call is left
\* but its result, and perhaps a callback that will find winfo gone.
LEMMA ReturnKeeps ==
  ASSUME HookInv, NEW f \in Fibers, NEW r \in {"ok", "error", "timeout"},
         at[f] \notin {"idle", "hold"}, Return(f, r), r = "timeout" => f \in cancelled,
         UNCHANGED <<fdVars, item, event, calls, due, expired>>,
         ready \subseteq ready' /\ ready' \subseteq Fibers, failed' \in {failed, failed \ {f}},
         timer' \subseteq timer, lied' \subseteq {"refused", "closing"}
  PROVE  HookInv'
  <1> USE DEF HookInv, Return, fdVars
  <1>1. HookTypes' /\ HistoryTypes'
    BY DEF HookTypes, HistoryTypes
  <1>2. Opened' = Opened /\ Files'
    BY DEF Files, Opened
  <1>3. Holds'
    BY DEF Holds, HookTypes
  <1>4. Timeouts'
    BY DEF Timeouts, OwnTimeout, HookTypes, Callback
  <1>5. Causes'
    BY <1>2, HookAssumption DEF Files, Causes, ConnectTruth, HookTypes, HistoryTypes
  <1>6. QED
    BY <1>1, <1>2, <1>3, <1>4, <1>5

\* A new call: its number is higher than that of any callback still around.
LEMMA EnterKeeps ==
  ASSUME HookInv, NEW f \in Fibers, Enter(f)
  PROVE  HookInv'
  <1> USE DEF HookInv, fdVars, ioVars
  <1>1. PICK place \in {"io", "idle", "stuck"} :
           /\ at' = [at EXCEPT ![f] = place]
           /\ place = "io" => ctx # 0
           /\ \/ place = "stuck" /\ result' = result
              \/ \E r \in {"none", "ok", "error"} : result' = [result EXCEPT ![f] = r]
           /\ began' \in {began, [began EXCEPT ![f] = 0], [began EXCEPT ![f] = file]}
           /\ ctx = 0 => began' \in {began, [began EXCEPT ![f] = 0]}
           /\ cause' \in {cause, [cause EXCEPT ![f] = "none"]}
           /\ cancelled' \in {cancelled, cancelled \ {f}}
           /\ early' \subseteq early
           /\ window' \in {window, window \ {f}}
    BY DEF Enter, SystemCall, Return, Goto, ownVars
  <1>2. /\ at[f] = "idle" /\ (f \in Connectors => calls[f] = 0)
        /\ calls' = [calls EXCEPT ![f] = @ + 1] /\ expired' = expired \ {f}
        /\ UNCHANGED <<file, ctx, nonblock, owner, drains, ready, failed, item, event, timer, due, lied>>
    BY DEF Enter
  <1>3. Opened' = Opened /\ Files'
    BY <1>2 DEF Files, Opened
  <1>4. file \in Nat /\ Opened \in Nat /\ (ctx # 0 => file <= Opened)
    BY DEF Files, HookTypes
  <1>5. HookTypes'
    BY <1>1, <1>2 DEF HookTypes
  <1>6. HistoryTypes'
    BY <1>1, <1>2, <1>4 DEF HistoryTypes, HookTypes
  <1>7. Holds'
    BY <1>1, <1>2 DEF Holds, HookTypes
  <1>8. Timeouts'
    <2>1. \A g \in Fibers : at'[g] # "idle" \/ g \in timer' => calls'[g] > 0
      BY <1>1, <1>2 DEF Timeouts, HookTypes
    <2>2. f \notin cancelled
      BY <1>2 DEF Timeouts
    <2>3. \A g \in cancelled' : at'[g] # "idle" /\ g \in expired'
      BY <1>1, <1>2, <2>2 DEF Timeouts, HookTypes
    <2>4. \A cb \in due : cb.fiber # f => at'[cb.fiber] = at[cb.fiber] /\ calls'[cb.fiber] = calls[cb.fiber]
      BY <1>1, <1>2 DEF HookTypes, Callback
    <2>5. \A cb \in due : cb.fiber = f => cb.call < calls'[cb.fiber]
      BY <1>2 DEF Timeouts, HookTypes, Callback
    <2>6. \A cb \in due : cb.call \in Nat /\ calls'[cb.fiber] \in Nat /\ calls[cb.fiber] \in Nat
      BY <1>2 DEF HookTypes, Callback
    <2>7. \A cb \in due :
            /\ cb.call <= calls'[cb.fiber]
            /\ cb.call = calls'[cb.fiber] => cb.fiber \in expired'
            /\ cb.call = calls'[cb.fiber] /\ cb.step = "cancel" /\ at'[cb.fiber] # "idle"
                 => cb.fiber \in cancelled'
      BY <1>1, <1>2, <2>4, <2>5, <2>6 DEF Timeouts
    <2>8. OwnTimeout'
      BY <1>1, <1>2 DEF Timeouts, OwnTimeout, HookTypes
    <2>9. QED
      BY <1>2, <2>1, <2>3, <2>7, <2>8 DEF Timeouts
  <1>9. Causes'
    <2>1. \A g \in Fibers : began'[g] <= Opened'
      BY <1>1, <1>3, <1>4 DEF Causes, HistoryTypes
    <2>2. \A g \in Fibers : at'[g] = "so_error" => g \in Connectors
      BY <1>1 DEF Causes, HookTypes
    <2>3. \A g \in Connectors : calls'[g] <= 1
      BY <1>2, HookAssumption DEF Causes, HookTypes
    <2>4. \A g \in Connectors \ {f} :
            at'[g] = at[g] /\ cause'[g] = cause[g] /\ began'[g] = began[g]
            /\ (g \in cancelled' <=> g \in cancelled)
      BY <1>1, HookAssumption DEF HookTypes, HistoryTypes
    <2>5. at'[f] \notin {"queued", "so_error"}
      BY <1>1 DEF HookTypes
    <2>6. QED
      BY <1>2, <2>1, <2>2, <2>3, <2>4, <2>5 DEF Causes, ConnectTruth
  <1>10. QED
    BY <1>3, <1>5, <1>6, <1>7, <1>8, <1>9

\* The steps of do_io and connect_with_timeout before and after the wait.
LEMMA CallKeeps ==
  ASSUME HookInv, NEW f \in Fibers,
         DoIo(f) \/ Connect(f) \/ Arm(f) \/ AddEventFails(f) \/ Resume(f) \/ SoError(f) \/ Unstick(f)
  PROVE  HookInv'
  <1>0. ready \subseteq Fibers /\ lied \subseteq {"refused", "closing"}
    BY DEF HookInv, HookTypes, Causes, ConnectTruth
  <1> USE DEF restVars
  <1>1. CASE DoIo(f)
    <2>1. UNCHANGED <<fdVars, ioVars, calls, timer, due, expired, lied>> /\ at[f] = "io"
      BY <1>1 DEF DoIo
    <2>2. CASE \E r \in {"ok", "error"} : Return(f, r)
      BY <1>0, <2>1, <2>2, ReturnKeeps DEF ioVars
    <2>3. CASE \E place \in {"arm", "add", "stuck"} : Goto(f, place)
      BY <2>1, <2>3, GotoKeeps
    <2>4. QED
      BY <1>1, <2>2, <2>3 DEF DoIo, SystemCall, Wait
  <1>2. CASE Connect(f)
    <2>1. UNCHANGED <<fdVars, failed, item, event, calls, timer, due, expired, lied>> /\ at[f] = "io"
      BY <1>2 DEF Connect
    <2>2. CASE \E r \in {"ok", "error"} : Return(f, r)
      <3>1. ready \subseteq ready' /\ ready' \subseteq Fibers
        BY <1>0, <1>2 DEF Connect
      <3>2. QED
        BY <1>0, <2>1, <2>2, <3>1, ReturnKeeps
    <2>3. CASE (\E place \in {"arm", "add"} : Goto(f, place)) /\ UNCHANGED ready
      BY <2>1, <2>3, GotoKeeps DEF ioVars
    <2>4. QED
      BY <1>2, <2>2, <2>3 DEF Connect, Wait
  <1>3. CASE Arm(f)
    BY <1>3, GotoKeeps DEF Arm
  <1>4. CASE AddEventFails(f) /\ f \notin Connectors
    BY <1>0, <1>4, ReturnKeeps DEF AddEventFails, ioVars
  <1>5. CASE AddEventFails(f) /\ f \in Connectors
    <2>1. /\ at[f] = "add" /\ at' = [at EXCEPT ![f] = "so_error"]
          /\ cause' = [cause EXCEPT ![f] = "refused"] /\ timer' = timer \ {f}
          /\ UNCHANGED <<file, ctx, nonblock, owner, drains, ready, failed, item, event, calls, due,
                         expired, lied, result, cancelled, began, early, window>>
      BY <1>5 DEF AddEventFails, fdVars, ioVars
    <2> USE DEF HookInv
    <2>2. HookTypes' /\ HistoryTypes'
      BY <2>1 DEF HookTypes, HistoryTypes
    <2>3. Opened' = Opened /\ Files'
      BY <2>1 DEF Files, Opened
    <2>4. Holds'
      BY <2>1 DEF Holds, HookTypes
    <2>5. Timeouts'
      BY <2>1 DEF Timeouts, OwnTimeout, HookTypes, Callback
    <2>6. Causes'
      BY <1>5, <2>1, <2>3, HookAssumption DEF Causes, ConnectTruth, HookTypes, HistoryTypes
    <2>7. QED
      BY <2>2, <2>3, <2>4, <2>5, <2>6
  <1>6. CASE Resume(f)
    <2>1. CASE f \in cancelled
      BY <1>0, <1>6, <2>1, ReturnKeeps DEF Resume, ioVars
    <2>2. CASE f \notin cancelled
      <3>1. PICK place \in {"io", "so_error"} :
              Goto(f, place) /\ (place = "so_error" => f \in Connectors)
        BY <1>6, <2>2 DEF Resume
      <3>2. QED
        BY <1>6, <2>2, <3>1, GotoKeeps DEF Resume
    <2>3. QED
      BY <2>1, <2>2
  <1>7. CASE SoError(f)
    <2>1. f \in Connectors
      BY <1>7 DEF SoError, HookInv, Causes
    <2>2. file # 0 /\ file = began[f] /\ f \notin ready \cup failed
             => cause[f] \in {"refused", "closing"}
      BY <1>7, <2>1 DEF SoError, HookInv, Causes
    <2>3. lied' \subseteq {"refused", "closing"}
      BY <1>0, <1>7, <2>2 DEF SoError
    <2>4. \E r \in {"ok", "error"} : Return(f, r)
      BY <1>7 DEF SoError
    <2>5. QED
      BY <1>0, <1>7, <2>3, <2>4, ReturnKeeps DEF SoError, ioVars
  <1>8. CASE Unstick(f)
    BY <1>0, <1>8, ReturnKeeps DEF Unstick, ioVars
  <1>9. QED
    BY <1>1, <1>2, <1>3, <1>4, <1>5, <1>6, <1>7, <1>8

\* addEvent registers the caller, and notes it when close() has passed cancelAll.
LEMMA AddEventKeeps ==
  ASSUME HookInv, NEW f \in Fibers, AddEvent(f)
  PROVE  HookInv'
  <1> USE DEF HookInv
  <1>1. /\ at[f] = "add" /\ (event = {} \/ item)
        /\ event' = event \cup {f} /\ item' = TRUE
        /\ at' = [at EXCEPT ![f] = "hold"]
        /\ window' = IF owner \in {"del", "close_f"} THEN window \cup {f} ELSE window
        /\ UNCHANGED <<file, ctx, nonblock, owner, drains, ready, failed, calls, timer, due, expired, lied,
                       result, cancelled, began, early, cause>>
    BY DEF AddEvent, fdVars, restVars
  <1>2. HookTypes' /\ HistoryTypes'
    BY <1>1 DEF HookTypes, HistoryTypes
  <1>3. Opened' = Opened /\ Files'
    BY <1>1 DEF Files, Opened
  <1>4. Holds'
    BY <1>1 DEF Holds, HookTypes
  <1>5. Timeouts'
    BY <1>1 DEF Timeouts, OwnTimeout, HookTypes, Callback
  <1>6. Causes'
    BY <1>1, <1>3, HookAssumption DEF Causes, ConnectTruth, HookTypes, HistoryTypes
  <1>7. QED
    BY <1>2, <1>3, <1>4, <1>5, <1>6

\* Waking some of the registered callers, for whatever reason.
LEMMA TriggerKeeps ==
  ASSUME HookInv, NEW fs \in SUBSET event, NEW why \in {"event", "timer", "closing"},
         Trigger(fs, why),
         why = "event" => fs \subseteq ready \cup failed,
         why = "timer" => fs \cap Connectors \subseteq cancelled,
         UNCHANGED <<file, ctx, nonblock, drains, ready, failed, calls, timer, result, expired, lied,
                     cancelled, began, early, window>>,
         due' \subseteq due,
         \/ owner' = owner
         \/ owner = "cancelAll" /\ owner' = "del" /\ fs = event
  PROVE  HookInv'
  <1> USE DEF HookInv
  <1>0. /\ \A f \in fs : f \in Fibers /\ at[f] = "hold" /\ at'[f] = "queued"
        /\ \A f \in Fibers \ fs : at'[f] = at[f] /\ cause'[f] = cause[f]
        /\ \A f \in Fibers : f \in fs \cap Connectors => cause'[f] = why
        /\ event' = event \ fs /\ (~item' => event' = {})
    BY DEF Trigger, HookTypes, Holds
  <1>1. HookTypes' /\ HistoryTypes'
    <2>1. at' \in [Fibers -> {"idle", "io", "arm", "add", "hold", "queued", "so_error", "stuck"}]
      BY DEF Trigger, HookTypes
    <2>2. item' \in BOOLEAN
      BY Zenon DEF Trigger
    <2>3. cause' \in [Fibers -> {"none", "event", "timer", "closing", "refused"}]
      BY DEF Trigger, HistoryTypes
    <2>4. owner' \in {"use", "cancelAll", "del", "close_f", "closed", "get"}
      BY DEF HookTypes
    <2>5. QED
      BY <1>0, <2>1, <2>2, <2>3, <2>4 DEF HookTypes, HistoryTypes
  <1>2. Opened' = Opened /\ Files'
    BY DEF Files, Opened
  <1>3. Holds'
    BY <1>0 DEF Holds, HookTypes
  <1>4. Timeouts'
    <2>1. \A f \in Fibers : at'[f] = "idle" <=> at[f] = "idle"
      BY <1>0
    <2>2. \A cb \in due : cb.fiber \in Fibers
      BY DEF HookTypes, Callback
    <2>3. cancelled \subseteq Fibers
      BY DEF HookTypes
    <2>4. QED
      BY <2>1, <2>2, <2>3 DEF Timeouts, OwnTimeout
  <1>5. Causes'
    <2>1. \A f \in Fibers : at'[f] = "so_error" => f \in Connectors
      BY <1>0 DEF Causes
    <2>2. ASSUME NEW f \in Connectors
          PROVE  /\ calls'[f] <= 1
                 /\ at'[f] = "queued" => cause'[f] \in {"event", "timer", "closing"}
                 /\ at'[f] = "queued" /\ cause'[f] = "timer" => f \in cancelled'
                 /\ at'[f] = "so_error" => cause'[f] \in {"event", "closing", "refused"}
                 /\ at'[f] \in {"queued", "so_error"} /\ cause'[f] = "event" /\ file' # 0
                      /\ file' = began'[f] => f \in ready' \cup failed'
      <3>0. f \in Fibers
        BY HookAssumption
      <3>1. CASE f \in fs
        BY <1>0, <3>0, <3>1 DEF Causes
      <3>2. CASE f \notin fs
        <4>1. at'[f] = at[f] /\ cause'[f] = cause[f]
          BY <1>0, <3>0, <3>2
        <4>2. QED
          BY <4>1 DEF Causes
      <3>3. QED
        BY <3>1, <3>2
    <2>3. \A f \in Fibers : began'[f] <= Opened'
      BY <1>2 DEF Causes
    <2>4. QED
      BY <2>1, <2>2, <2>3 DEF Causes, ConnectTruth
  <1>6. QED
    BY <1>1, <1>2, <1>3, <1>4, <1>5

\* A timer that expires, and the two halves of its callback.
LEMMA TimerKeeps ==
  ASSUME HookInv, TimerStep
  PROVE  HookInv'
  <1> USE DEF HookInv
  <1>1. ASSUME NEW f \in Fibers, Expire(f) PROVE HookInv'
    <2> DEFINE cb0 == [fiber |-> f, call |-> calls[f], step |-> "lock"]
    <2>1. /\ f \in timer /\ timer' = timer \ {f} /\ expired' = expired \cup {f}
          /\ due' = due \cup {cb0}
          /\ UNCHANGED <<file, ctx, nonblock, owner, drains, ready, failed, item, event, cancelled, began,
                         early, window, cause, at, calls, result, lied>>
      BY <1>1 DEF Expire, fdVars, ioVars, ownVars
    <2>2. cb0 \in Callback
      BY <2>1 DEF Timeouts, HookTypes, Callback
    <2>3. HookTypes' /\ HistoryTypes'
      BY <2>1, <2>2 DEF HookTypes, HistoryTypes
    <2>4. Opened' = Opened /\ Files' /\ Holds'
      BY <2>1 DEF Files, Opened, Holds
    <2>5. Timeouts'
      BY <2>1 DEF Timeouts, OwnTimeout, HookTypes
    <2>6. Causes'
      BY <2>1, <2>4 DEF Causes, ConnectTruth
    <2>7. QED
      BY <2>3, <2>4, <2>5, <2>6
  <1>2. ASSUME NEW cb \in due, Lock(cb) PROVE HookInv'
    <2> DEFINE f == cb.fiber
               alive == calls[f] = cb.call /\ at[f] # "idle" /\ f \notin cancelled
               half  == [cb EXCEPT !.step = "cancel"]
    <2>1. /\ due' = (due \ {cb}) \cup (IF alive THEN {half} ELSE {})
          /\ cancelled' = IF alive THEN cancelled \cup {f} ELSE cancelled
          /\ early' \subseteq early \cup {f}
          /\ UNCHANGED <<file, ctx, nonblock, owner, drains, ready, failed, item, event, at, calls, timer,
                         result, expired, lied, began, window, cause>>
      BY <1>2 DEF Lock, fdVars, ioVars
    <2>2. cb \in Callback /\ f \in Fibers /\ half \in Callback
          /\ half.fiber = f /\ half.call = cb.call /\ half.step = "cancel"
      BY DEF HookTypes, Callback
    <2>3. HookTypes' /\ HistoryTypes'
      BY <2>1, <2>2 DEF HookTypes, HistoryTypes
    <2>4. Opened' = Opened /\ Files' /\ Holds'
      BY <2>1 DEF Files, Opened, Holds
    <2>5. Timeouts'
      <3>1. cancelled \subseteq cancelled' /\ (\A g \in cancelled' : at[g] # "idle" /\ g \in expired)
        BY <2>1, <2>2 DEF Timeouts
      <3>2. \A c \in due' : c \in due \/ (c = half /\ alive /\ f \in cancelled')
        BY <2>1
      <3>3. QED
        BY <2>1, <2>2, <3>1, <3>2 DEF Timeouts, OwnTimeout
    <2>6. Causes'
      <3>1. cancelled \subseteq cancelled'
        BY <2>1
      <3>2. QED
        BY <2>1, <2>4, <3>1 DEF Causes, ConnectTruth
    <2>7. QED
      BY <2>3, <2>4, <2>5, <2>6
  <1>3. ASSUME NEW cb \in due, Cancel(cb) PROVE HookInv'
    <2> DEFINE f == cb.fiber
    <2>0. cb \in Callback /\ f \in Fibers /\ cb.step = "cancel" /\ cb.call \in Nat \ {0}
      BY <1>3 DEF HookTypes, Callback, Cancel
    <2>1. /\ due' = due \ {cb}
          /\ UNCHANGED <<file, ctx, nonblock, owner, drains, ready, failed, calls, timer, result, expired,
                         lied, cancelled, began, early, window>>
      BY <1>3 DEF Cancel, fdVars
    <2>2. CASE f \in event /\ item
      <3>1. Trigger({f}, "timer")
        BY <1>3, <2>2 DEF Cancel
      <3>2. at[f] # "idle"
        BY <2>0, <2>2 DEF Holds
      <3>3. f \in Connectors => f \in cancelled
        <4>1. f \in Connectors => calls[f] = cb.call
          BY <2>0 DEF Timeouts, Causes, HookTypes
        <4>2. QED
          BY <2>0, <3>2, <4>1 DEF Timeouts
      <3>4. QED
        BY <2>1, <2>2, <3>1, <3>3, TriggerKeeps
    <2>3. CASE ~(f \in event /\ item)
      <3>1. UNCHANGED <<event, item, at, cause>>
        BY <1>3, <2>3 DEF Cancel
      <3>2. HookTypes' /\ HistoryTypes'
        BY <2>1, <3>1 DEF HookTypes, HistoryTypes
      <3>3. Opened' = Opened /\ Files' /\ Holds'
        BY <2>1, <3>1 DEF Files, Opened, Holds
      <3>4. Timeouts' /\ Causes'
        BY <2>1, <3>1, <3>3 DEF Timeouts, OwnTimeout, Causes, ConnectTruth
      <3>5. QED
        BY <3>2, <3>3, <3>4
    <2>4. QED
      BY <2>2, <2>3
  <1>4. QED
    BY <1>1, <1>2, <1>3 DEF TimerStep

\* The steps of close(): the context is dropped after the last caller that
\* cancelAll could see was woken, and before the number is free.
LEMMA CloseKeeps ==
  ASSUME HookInv, CloseGet \/ CancelAll \/ Del \/ CloseF
  PROVE  HookInv'
  <1> USE DEF HookInv
  <1>0. MaxFiles \in Nat \ {0} /\ Opened \in Nat
    BY HookAssumption DEF Files
  <1>1. CASE CancelAll
    <2>1. /\ owner = "cancelAll" /\ owner' = "del"
          /\ UNCHANGED <<file, ctx, nonblock, drains, ready, failed, result, cancelled, began, early, window,
                         calls, timer, due, expired, lied>>
      BY <1>1 DEF CancelAll, restVars
    <2>2. CASE event # {} /\ item
      <3>1. Trigger(event, "closing")
        BY <1>1, <2>2 DEF CancelAll
      <3>2. QED
        BY <2>1, <3>1, TriggerKeeps
    <2>3. CASE ~(event # {} /\ item)
      <3>1. UNCHANGED <<event, item, at, cause>>
        BY <1>1, <2>3 DEF CancelAll
      <3>2. HookTypes' /\ HistoryTypes'
        BY <2>1, <3>1 DEF HookTypes, HistoryTypes
      <3>3. Opened' = Opened /\ Files'
        BY <2>1 DEF Files, Opened
      <3>4. Holds'
        BY <2>1, <2>3, <3>1 DEF Holds, HookTypes
      <3>5. Timeouts' /\ Causes'
        BY <2>1, <3>1, <3>3 DEF Timeouts, OwnTimeout, Causes, ConnectTruth
      <3>6. QED
        BY <3>2, <3>3, <3>4, <3>5
    <2>4. QED
      BY <2>2, <2>3
  <1>2. CASE CloseGet \/ Del
    <2>1. UNCHANGED <<file, nonblock, drains, ready, failed, item, event, at, result, cancelled, began, early,
                      window, cause, calls, timer, due, expired, lied>>
      BY <1>2 DEF CloseGet, Del, ioVars, ownVars, restVars
    <2>2. \/ owner = "use" /\ file < MaxFiles /\ ctx' = ctx /\ owner' = "cancelAll"
          \/ owner = "del" /\ ctx' = 0 /\ owner' = "close_f"
      BY <1>0, <1>2 DEF CloseGet, Del, Files
    <2>3. HookTypes' /\ HistoryTypes'
      BY <1>0, <2>1, <2>2 DEF HookTypes, HistoryTypes
    <2>4. Opened' = Opened
      BY <2>1 DEF Opened
    <2>5. Files'
      BY <1>0, <2>1, <2>2, <2>4 DEF Files
    <2>6. Holds'
      BY <2>1, <2>2 DEF Holds
    <2>7. Timeouts' /\ Causes'
      BY <2>1, <2>4 DEF Timeouts, OwnTimeout, Causes, ConnectTruth
    <2>8. QED
      BY <2>3, <2>5, <2>6, <2>7
  <1>3. CASE CloseF
    <2>1. /\ owner = "close_f" /\ owner' = "closed"
          /\ file' = 0 /\ item' = FALSE /\ ready' = {} /\ failed' = {}
          /\ UNCHANGED <<ctx, nonblock, drains, event, at, result, cancelled, began, early,
                         window, cause, calls, timer, due, expired, lied>>
      BY <1>3 DEF CloseF, ownVars, restVars
    <2>0. 0 \in 0 .. MaxFiles /\ FALSE \in BOOLEAN /\ {} \subseteq Fibers /\ {} \subseteq Connectors
      BY <1>0
    <2>2. HookTypes' /\ HistoryTypes'
      BY <2>0, <2>1 DEF HookTypes, HistoryTypes
    <2>3. Opened' = Opened
      BY <2>1 DEF Opened
    <2>4. Files' /\ Holds'
      BY <2>1, <2>3 DEF Files, Holds
    <2>5. Timeouts' /\ Causes'
      BY <2>1, <2>3 DEF Timeouts, OwnTimeout, Causes, ConnectTruth
    <2>6. QED
      BY <2>2, <2>4, <2>5
  <1>4. QED
    BY <1>1, <1>2, <1>3

\* socket(): the number goes to a file no earlier call was made on, which gets a
\* context of its own.
LEMMA SocketKeeps ==
  ASSUME HookInv, SocketF \/ GetCtx
  PROVE  HookInv'
  <1> USE DEF HookInv
  <1>0. MaxFiles \in Nat \ {0} /\ Opened \in Nat
    BY HookAssumption DEF Files
  <1>1. UNCHANGED <<drains, ready, failed, item, event, at, result, cancelled, began, early,
                    window, cause, calls, timer, due, expired, lied>>
    BY DEF SocketF, GetCtx, ioVars, ownVars, restVars
  <1>2. CASE SocketF
    <2>1. /\ owner = "closed" /\ owner' = "get" /\ file' = Opened + 1
          /\ UNCHANGED <<ctx, nonblock>>
      BY <1>2 DEF SocketF, Opened
    <2>2. Opened' = Opened
      BY <2>1 DEF Opened
    <2>3. Files'
      BY <1>0, <2>1, <2>2 DEF Files
    <2>4. HookTypes' /\ HistoryTypes'
      BY <1>0, <1>1, <2>1 DEF HookTypes, HistoryTypes, Files
    <2>5. Holds' /\ Timeouts'
      BY <1>1, <2>1 DEF Holds, Timeouts, OwnTimeout
    <2>6. \A f \in Fibers : began[f] # file'
      BY <1>0, <2>1 DEF Causes, HistoryTypes
    <2>7. Causes'
      BY <1>1, <2>2, <2>6, HookAssumption DEF Causes, ConnectTruth
    <2>8. QED
      BY <2>3, <2>4, <2>5, <2>7
  <1>3. CASE GetCtx
    <2>1. /\ owner = "get" /\ owner' = "use" /\ file = Opened + 1 /\ ctx' = file
          /\ nonblock = 1 .. Opened /\ nonblock' = nonblock \cup {file} /\ UNCHANGED file
          /\ Opened < MaxFiles
      BY <1>3 DEF GetCtx, Files
    <2>2. nonblock' = 1 .. (Opened + 1)
      BY <1>0, <2>1
    <2>3. Opened' = Opened + 1
      BY <1>0, <2>2, CountUpTo DEF Opened
    <2>4. Files'
      BY <1>0, <2>1, <2>2, <2>3 DEF Files
    <2>5. HookTypes' /\ HistoryTypes'
      BY <1>0, <1>1, <2>1, <2>2 DEF HookTypes, HistoryTypes
    <2>6. Holds' /\ Timeouts'
      BY <1>1, <2>1 DEF Holds, Timeouts, OwnTimeout
    <2>7. Causes'
      BY <1>0, <1>1, <2>1, <2>3 DEF Causes, ConnectTruth, HistoryTypes
    <2>8. QED
      BY <2>4, <2>5, <2>6, <2>7
  <1>4. QED
    BY <1>2, <1>3

\* The kernel reports an event, data arrives or a connection fails, or another
\* consumer takes the data.
LEMMA KernelKeeps ==
  ASSUME HookInv, NEW f \in Fibers, Fire(f) \/ Arrive(f) \/ Fail(f) \/ Drain(f)
  PROVE  HookInv'
  <1> USE DEF HookInv
  <1>1. CASE Fire(f)
    <2>1. {f} \in SUBSET event /\ {f} \subseteq ready \cup failed /\ Trigger({f}, "event")
      BY <1>1 DEF Fire
    <2>2. QED
      BY <1>1, <2>1, TriggerKeeps DEF Fire, fdVars, restVars
  <1>2. CASE Arrive(f) \/ Fail(f) \/ Drain(f)
    <2>1. UNCHANGED <<file, ctx, nonblock, owner, item, event, at, result, cancelled, began, early,
                      window, cause, calls, timer, due, expired, lied>>
      BY <1>2 DEF Arrive, Fail, Drain, fdVars, ownVars, restVars
    <2>2. /\ ready' \subseteq Fibers /\ failed' \subseteq Connectors
          /\ \A g \in Connectors : g \in ready \cup failed => g \in ready' \cup failed'
      BY <1>2 DEF Arrive, Fail, Drain, HookTypes
    <2>3. drains' \in 0 .. MaxDrains
      BY <1>2, HookAssumption DEF Arrive, Fail, Drain, fdVars, HookTypes
    <2>4. HookTypes' /\ HistoryTypes'
      BY <2>1, <2>2, <2>3 DEF HookTypes, HistoryTypes
    <2>5. Opened' = Opened /\ Files' /\ Holds' /\ Timeouts'
      BY <2>1 DEF Files, Opened, Holds, Timeouts, OwnTimeout
    <2>6. Causes'
      BY <2>1, <2>2, <2>5 DEF Causes, ConnectTruth
    <2>7. QED
      BY <2>4, <2>5, <2>6
  <1>3. QED
    BY <1>1, <1>2

\* Every step keeps the invariant.
LEMMA HookStep == HookInv /\ [HookNext]_hookVars => HookInv'
  <1> SUFFICES ASSUME HookInv, [HookNext]_hookVars PROVE HookInv'
    OBVIOUS
  <1>1. CASE UNCHANGED hookVars
    BY <1>1 DEF HookInv, HookTypes, HistoryTypes, Files, Opened, Holds, Timeouts, OwnTimeout,
            Causes, ConnectTruth, hookVars, fdVars, ioVars, ownVars
  <1>2. CASE HookNext
    BY <1>2, CloseKeeps, SocketKeeps, TimerKeeps, CallKeeps, AddEventKeeps, EnterKeeps, KernelKeeps
    DEF HookNext, OwnerStep, CallStep
  <1>3. QED
    BY <1>1, <1>2

-----------------------------------------------------------------------------
(***************************************************************************)
(* What the invariant gives.                                               *)
(***************************************************************************)

\* A fiber that do_io or connect_with_timeout put on hold is registered with an
\* epoll that knows its file, or registered between close()'s cancelAll and its
\* close_f: the race of the two is the only way to lose a waiting fiber.
THEOREM HeldCallersWakeable == HookSpec => []Wakeable
  <1>1. HookInv => Wakeable
    BY DEF HookInv, HookTypes, Holds, Wakeable
  <1>2. QED
    BY <1>1, HookInitial, HookStep, PTL DEF HookSpec

\* ETIMEDOUT is reported only to the call whose own timer expired, however late a
\* timer callback runs: timer_info is shared by one call and its callbacks only.
THEOREM TimeoutsAreOwn == HookSpec => []OwnTimeout
  <1>1. HookInv => OwnTimeout
    BY DEF HookInv, Timeouts
  <1>2. QED
    BY <1>1, HookInitial, HookStep, PTL DEF HookSpec

\* connect_with_timeout answers 0 without a connection only when addEvent failed
\* or close() woke it: neither a connection that has failed, a timeout or a stale
\* callback, nor a new file under the same number, is taken for a connection.
THEOREM ConnectReports == HookSpec => []ConnectTruth
  <1>1. HookInv => ConnectTruth
    BY DEF HookInv, Causes
  <1>2. QED
    BY <1>1, HookInitial, HookStep, PTL DEF HookSpec

\* While a descriptor is in use its FdCtx was made for this very file, and the
\* file is non-blocking, however often the number was closed and given out again.
THEOREM ContextsAreFresh == HookSpec => []FreshContext
  <1>1. HookInv => FreshContext
    BY DEF HookInv, Files, FreshContext
  <1>2. QED
    BY <1>1, HookInitial, HookStep, PTL DEF HookSpec
===============================================================================
