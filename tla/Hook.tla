-------------------------------- MODULE Hook --------------------------------
(***************************************************************************)
(* The hooked system calls on one descriptor number: do_io (read, recv,    *)
(* accept, write, send and their kin) and connect_with_timeout called by   *)
(* fibers, close and socket called by the descriptor's owner, the contexts *)
(* of FdManager, and the timers behind the calls.  The fibers run on       *)
(* different threads.  IoManager and TimerManager are seen through what    *)
(* hook.cc calls: every call that holds a lock is one step.                *)
(*                                                                         *)
(* Every fiber waits for an event of its own (READ or WRITE), as addEvent  *)
(* demands.  A descriptor number may be reused: files are numbered.        *)
(***************************************************************************)
EXTENDS Naturals, FiniteSets, Functions

CONSTANTS Fibers,      \* the callers
          Connectors,  \* those that call connect; the others call do_io
          Timed,       \* those whose call has a timeout (m_recvTimeout, m_sendTimeout)
          MaxCalls,    \* calls of all fibers together
          MaxFiles,    \* files opened under this number; the last one is not closed
          MaxDrains    \* times another consumer empties the file

ASSUME HookAssumption ==
  /\ Connectors \subseteq Fibers /\ Timed \subseteq Fibers
  /\ MaxCalls \in Nat /\ MaxFiles \in Nat \ {0} /\ MaxDrains \in Nat

VARIABLES
  file,       \* the file behind the number, 0 when the number is closed
  ctx,        \* FdManager::m_datas[fd]: the file its context was made for, 0 if none
  nonblock,   \* the files FdCtx::init has set to O_NONBLOCK
  owner,      \* where the owner of the descriptor stands in socket() and close()
  ready,      \* the callers whose system call would not say EAGAIN
  failed,     \* the connectors whose connection has failed: SO_ERROR is set
  drains,     \* how often another consumer was faster
  item,       \* whether epoll knows the file
  event,      \* FdContext::events: the callers registered in the IoManager
  at,         \* where a caller stands
  calls,      \* how many calls it has made
  cancelled,  \* timer_info::cancelled of its call
  timer,      \* whether the timer of its call is in the TimerManager
  due,        \* timer callbacks collected or half done
  result,     \* what its last call returned, while it is idle
  began,      \* history: the file its call was made on
  expired,    \* history: a timer of its last call has expired
  early,      \* history: its callback ran before it had registered its event
  window,     \* history: it registered between cancelAll and close_f
  cause,      \* history: what ended the wait of a connect
  lied        \* history: the causes for which connect returned 0 without a connection

fdVars == <<file, ctx, nonblock, owner, drains>>
ioVars == <<ready, failed, item, event>>
ownVars == <<cancelled, began, early, window, cause>>   \* what a call keeps until it returns
hookVars == <<fdVars, ioVars, ownVars, at, calls, timer, due, result, expired, lied>>
restVars == <<calls, timer, due, expired, lied>>

Callback == [fiber : Fibers, call : Nat \ {0}, step : {"lock", "cancel"}]

HookInit ==
  /\ file = 1 /\ ctx = 1 /\ nonblock = {1} /\ owner = "use" /\ drains = 0
  /\ ready = {} /\ failed = {} /\ item = FALSE /\ event = {}
  /\ cancelled = {} /\ began = [f \in Fibers |-> 0] /\ early = {} /\ window = {}
  /\ cause = [f \in Fibers |-> "none"]
  /\ at = [f \in Fibers |-> "idle"] /\ calls = [f \in Fibers |-> 0]
  /\ timer = {} /\ due = {} /\ result = [f \in Fibers |-> "none"] /\ expired = {} /\ lied = {}

-----------------------------------------------------------------------------
\* The call goes on; the call is over, and its timer_info dies with it.
Goto(f, place) ==
  /\ at' = [at EXCEPT ![f] = place]
  /\ UNCHANGED <<result, ownVars>>

Return(f, r) ==
  /\ at' = [at EXCEPT ![f] = "idle"] /\ result' = [result EXCEPT ![f] = r]
  /\ cancelled' = cancelled \ {f} /\ early' = early \ {f} /\ window' = window \ {f}
  /\ began' = [began EXCEPT ![f] = 0] /\ cause' = [cause EXCEPT ![f] = "none"]

\* The system call: file closed, done, EAGAIN.  A file that is not O_NONBLOCK
\* keeps the thread.
SystemCall(f, again) ==
  \/ file = 0 /\ Return(f, "error")
  \/ file # 0 /\ f \in ready /\ Return(f, "ok")
  \/ file \in nonblock /\ f \notin ready /\ again
  \/ file \notin nonblock \cup {0} /\ f \notin ready /\ Goto(f, "stuck")

\* do_io and connect_with_timeout up to the context and a timer_info of their own.
\* Without a context, and for a descriptor the user has made non-blocking, do_io
\* only passes the call on; a connect passed on is one that Connect answers at once.
Enter(f) ==
  /\ at[f] = "idle"
  /\ f \in Connectors => calls[f] = 0
  /\ SumFunction(calls) < MaxCalls
  /\ calls' = [calls EXCEPT ![f] = @ + 1]
  /\ expired' = expired \ {f}
  /\ \/ /\ ctx # 0 /\ at' = [at EXCEPT ![f] = "io"]
        /\ began' = [began EXCEPT ![f] = file] /\ result' = [result EXCEPT ![f] = "none"]
        /\ UNCHANGED <<cancelled, early, window, cause>>
     \/ f \notin Connectors /\ SystemCall(f, Return(f, "error"))
     \/ ctx = 0 /\ f \in Connectors /\ Return(f, "error")
  /\ UNCHANGED <<fdVars, ioVars, timer, due, lied>>

\* retry: the call; on EAGAIN the timer comes next, then the event.
Wait(f) == Goto(f, IF f \in Timed THEN "arm" ELSE "add")

DoIo(f) ==
  /\ at[f] = "io" /\ f \notin Connectors
  /\ SystemCall(f, Wait(f))
  /\ UNCHANGED <<fdVars, ioVars, restVars>>

\* connect_f: 0 at once, EINPROGRESS, or an error, of the file or of the network.
Connect(f) ==
  /\ at[f] = "io" /\ f \in Connectors
  /\ \/ file # 0 /\ f \notin ready /\ ready' = ready \cup {f} /\ Return(f, "ok")
     \/ file \in nonblock /\ f \notin ready /\ UNCHANGED ready /\ Wait(f)
     \/ UNCHANGED ready /\ Return(f, "error")
  /\ UNCHANGED <<fdVars, failed, item, event, restVars>>

\* addCondictionTimer.
Arm(f) ==
  /\ at[f] = "arm"
  /\ timer' = timer \cup {f}
  /\ Goto(f, "add")
  /\ UNCHANGED <<fdVars, ioVars, calls, due, expired, lied>>

\* addEvent and YieldToHold: EPOLL_CTL_MOD when the FdContext has events, else ADD.
AddEvent(f) ==
  /\ at[f] = "add"
  /\ file # 0 /\ (event = {} \/ item)
  /\ event' = event \cup {f} /\ item' = TRUE
  /\ at' = [at EXCEPT ![f] = "hold"]
  /\ window' = IF owner \in {"del", "close_f"} THEN window \cup {f} ELSE window
  /\ UNCHANGED <<fdVars, ready, failed, restVars, result, cancelled, began, early, cause>>

\* addEvent fails: the descriptor is closed, epoll does not know the file, or
\* the kernel has no room.  do_io returns -1, connect goes on to SO_ERROR.
AddEventFails(f) ==
  /\ at[f] = "add"
  /\ timer' = timer \ {f}
  /\ \/ f \notin Connectors /\ Return(f, "error")
     \/ /\ f \in Connectors /\ at' = [at EXCEPT ![f] = "so_error"]
        /\ cause' = [cause EXCEPT ![f] = "refused"]
        /\ UNCHANGED <<result, cancelled, began, early, window>>
  /\ UNCHANGED <<fdVars, ioVars, calls, due, expired, lied>>

\* The fiber runs again: timer->cancel(), then tinfo->cancelled.
Resume(f) ==
  /\ at[f] = "queued"
  /\ timer' = timer \ {f}
  /\ IF f \in cancelled THEN Return(f, "timeout")
     ELSE Goto(f, IF f \in Connectors THEN "so_error" ELSE "io")
  /\ UNCHANGED <<fdVars, ioVars, calls, due, expired, lied>>

\* Variant: getsockopt is called, but its error is ignored.
SoErrorIgnored(f) ==
  /\ at[f] = "so_error"
  /\ Return(f, IF file = 0 THEN "error" ELSE "ok")
  /\ lied' = IF file # 0 /\ file = began[f] /\ f \notin ready THEN lied \cup {cause[f]} ELSE lied
  /\ failed' = failed \ {f}
  /\ UNCHANGED <<fdVars, ready, item, event, calls, timer, due, expired>>

\* getsockopt(SO_ERROR) fails without a file, tells of a failed connection and
\* forgets it, and knows of no error while the connection is still being made.
SoError(f) ==
  LET error == file = 0 \/ f \in failed
  IN  /\ at[f] = "so_error"
      /\ Return(f, IF error THEN "error" ELSE "ok")
      /\ lied' = IF ~ error /\ file = began[f] /\ f \notin ready THEN lied \cup {cause[f]} ELSE lied
      /\ failed' = failed \ {f}
      /\ UNCHANGED <<fdVars, ready, item, event, calls, timer, due, expired>>

-----------------------------------------------------------------------------
\* triggerEvent for the callers of a set, and what epoll knows afterwards.
Trigger(fs, why) ==
  /\ event' = event \ fs /\ item' = (event # fs)
  /\ at' = [f \in Fibers |-> IF f \in fs THEN "queued" ELSE at[f]]
  /\ cause' = [f \in Fibers |-> IF f \in fs \cap Connectors THEN why ELSE cause[f]]

\* IoManager::idle sees the event, or the error of a failed connection.
Fire(f) ==
  /\ f \in event \cap (ready \cup failed) /\ item
  /\ Trigger({f}, "event")
  /\ UNCHANGED <<fdVars, ready, failed, restVars, result, cancelled, began, early, window>>

\* listExpiredCb takes the timer out of the TimerManager.
Expire(f) ==
  /\ f \in timer
  /\ timer' = timer \ {f} /\ expired' = expired \cup {f}
  /\ due' = due \cup {[fiber |-> f, call |-> calls[f], step |-> "lock"]}
  /\ UNCHANGED <<fdVars, ioVars, ownVars, at, calls, result, lied>>

\* Variant: winfo does not tell one call from the next.
LockAnyCall(cb) ==
  /\ cb \in due /\ cb.step = "lock"
  /\ due' = (due \ {cb}) \cup {[cb EXCEPT !.step = "cancel"]}
  /\ cancelled' = cancelled \cup {cb.fiber}
  /\ UNCHANGED <<fdVars, ioVars, at, calls, timer, result, expired, lied, began, early, window, cause>>

\* The callback locks winfo and sets cancelled ...
Lock(cb) ==
  LET f == cb.fiber
      alive == calls[f] = cb.call /\ at[f] # "idle" /\ f \notin cancelled
  IN  /\ cb \in due /\ cb.step = "lock"
      /\ due' = (due \ {cb}) \cup (IF alive THEN {[cb EXCEPT !.step = "cancel"]} ELSE {})
      /\ cancelled' = IF alive THEN cancelled \cup {f} ELSE cancelled
      /\ early' = IF alive /\ at[f] \notin {"hold", "queued"} THEN early \cup {f} ELSE early
      /\ UNCHANGED <<fdVars, ioVars, at, calls, timer, result, expired, lied, began, window, cause>>

\* Variant: the callback does not wake the fiber.
CancelNothing(cb) ==
  /\ cb \in due /\ cb.step = "cancel"
  /\ due' = due \ {cb}
  /\ UNCHANGED <<fdVars, ioVars, ownVars, at, calls, timer, result, expired, lied>>

\* ... and calls cancelEvent, which fails when epoll does not know the file.
Cancel(cb) ==
  /\ cb \in due /\ cb.step = "cancel"
  /\ due' = due \ {cb}
  /\ IF cb.fiber \in event /\ item THEN Trigger({cb.fiber}, "timer")
     ELSE UNCHANGED <<event, item, at, cause>>
  /\ UNCHANGED <<fdVars, ready, failed, calls, timer, result, expired, lied, cancelled, began, early, window>>

-----------------------------------------------------------------------------
\* close(): the context, cancelAll, del, close_f.
CloseGet ==
  /\ owner = "use" /\ file < MaxFiles
  /\ owner' = IF ctx # 0 THEN "cancelAll" ELSE "close_f"
  /\ UNCHANGED <<file, ctx, nonblock, drains, ioVars, at, result, ownVars, restVars>>

\* Variant: nobody is woken.
CancelNobody ==
  /\ owner = "cancelAll" /\ owner' = "del"
  /\ UNCHANGED <<file, ctx, nonblock, drains, ioVars, at, result, ownVars, restVars>>

CancelAll ==
  /\ owner = "cancelAll" /\ owner' = "del"
  /\ IF event # {} /\ item THEN Trigger(event, "closing") ELSE UNCHANGED <<event, item, at, cause>>
  /\ UNCHANGED <<file, ctx, nonblock, drains, ready, failed, result, cancelled, began, early, window, restVars>>

\* Variant: the context stays.
DelNothing ==
  /\ owner = "del" /\ owner' = "close_f"
  /\ UNCHANGED <<file, ctx, nonblock, drains, ioVars, at, result, ownVars, restVars>>

Del ==
  /\ owner = "del" /\ owner' = "close_f"
  /\ ctx' = 0
  /\ UNCHANGED <<file, nonblock, drains, ioVars, at, result, ownVars, restVars>>

CloseF ==
  /\ owner = "close_f" /\ owner' = "closed"
  /\ file' = 0 /\ item' = FALSE /\ ready' = {} /\ failed' = {}
  /\ UNCHANGED <<ctx, nonblock, drains, event, at, result, ownVars, restVars>>

\* socket() or accept() gives the number to a new file ...
SocketF ==
  /\ owner = "closed"
  /\ owner' = "get" /\ file' = Cardinality(nonblock) + 1
  /\ UNCHANGED <<ctx, nonblock, drains, ioVars, at, result, ownVars, restVars>>

\* ... and FdManager::get(fd, true) makes a context unless there is one.
GetCtx ==
  /\ owner = "get" /\ owner' = "use"
  /\ ctx' = IF ctx = 0 THEN file ELSE ctx
  /\ nonblock' = IF ctx = 0 THEN nonblock \cup {file} ELSE nonblock
  /\ UNCHANGED <<file, drains, ioVars, at, result, ownVars, restVars>>

\* Data or the connection arrives; the connection fails; another consumer takes
\* the data between the event and the caller's retry.
Pending(f) == file # 0 /\ f \notin ready \cup failed

Arrive(f) ==
  /\ Pending(f)
  /\ f \in Connectors => file = began[f] /\ at[f] # "io"
  /\ ready' = ready \cup {f}
  /\ UNCHANGED <<fdVars, failed, item, event, at, result, ownVars, restVars>>

Fail(f) ==
  /\ f \in Connectors /\ Pending(f) /\ file = began[f] /\ at[f] # "io"
  /\ failed' = failed \cup {f}
  /\ UNCHANGED <<fdVars, ready, item, event, at, result, ownVars, restVars>>

Drain(f) ==
  /\ f \in ready \ Connectors /\ at[f] = "queued" /\ drains < MaxDrains
  /\ ready' = ready \ {f} /\ drains' = drains + 1
  /\ UNCHANGED <<file, ctx, nonblock, owner, failed, item, event, at, result, ownVars, restVars>>

\* A thread held by a blocking call goes on with the data.
Unstick(f) ==
  /\ at[f] = "stuck" /\ f \in ready
  /\ Return(f, "ok")
  /\ UNCHANGED <<fdVars, ioVars, restVars>>

\* The step a caller or a callback takes on its own.
CallStep(f) ==
  \/ DoIo(f) \/ Connect(f) \/ Arm(f) \/ AddEvent(f) \/ AddEventFails(f) \/ Resume(f) \/ SoError(f)
TimerStep == \/ \E f \in Fibers : Expire(f)
             \/ \E cb \in due : Lock(cb) \/ Cancel(cb)
OwnerStep == CloseGet \/ CancelAll \/ Del \/ CloseF \/ SocketF \/ GetCtx

HookNext ==
  \/ OwnerStep \/ TimerStep
  \/ \E f \in Fibers : CallStep(f) \/ Enter(f) \/ Fire(f) \/ Arrive(f) \/ Fail(f) \/ Drain(f) \/ Unstick(f)

\* A runnable fiber is taken by a thread, a timer expires, its callback runs.
HookFair ==
  /\ \A f \in Fibers : WF_hookVars(CallStep(f))
  /\ WF_hookVars(TimerStep)

-----------------------------------------------------------------------------
HookTypes ==
  /\ file \in 0 .. MaxFiles /\ ctx \in 0 .. MaxFiles /\ nonblock \subseteq 1 .. MaxFiles
  /\ owner \in {"use", "cancelAll", "del", "close_f", "closed", "get"}
  /\ ready \subseteq Fibers /\ failed \subseteq Connectors /\ drains \in 0 .. MaxDrains /\ item \in BOOLEAN /\ event \subseteq Fibers
  /\ at \in [Fibers -> {"idle", "io", "arm", "add", "hold", "queued", "so_error", "stuck"}]
  /\ calls \in [Fibers -> Nat] /\ cancelled \subseteq Fibers /\ timer \subseteq Fibers
  /\ due \subseteq Callback /\ result \in [Fibers -> {"none", "ok", "error", "timeout"}]
  /\ lied \subseteq {"none", "event", "timer", "closing", "refused"}

(***************************************************************************)
(* A fiber that do_io or connect has put on hold can be woken: it is       *)
(* registered and epoll knows its file.  The one way to lose it is to      *)
(* register between close()'s cancelAll and its close_f, as a fiber does   *)
(* that cancelAll has just woken and that reads EAGAIN once more.          *)
(***************************************************************************)
Wakeable ==
  \A f \in Fibers : at[f] = "hold" => f \in event /\ (item \/ f \in window)

(***************************************************************************)
(* A call with a timeout returns.  The exceptions are a callback that runs *)
(* before the event is registered (the timer is armed first), a descriptor *)
(* closed in the window above (cancelEvent then fails), and a number given *)
(* to a new file that is not yet non-blocking.                             *)
(***************************************************************************)
TimedReturns ==
  \A f \in Timed :
    (at[f] = "io") ~> (at[f] \in {"idle", "stuck"} \/ f \in early \cup window)

(***************************************************************************)
(* A call reports ETIMEDOUT only when a timer of this very call expired: a *)
(* callback that outlives its call never ends a later one, because winfo   *)
(* is gone by then or the later call has a timer_info of its own.          *)
(***************************************************************************)
OwnTimeout == \A f \in Fibers : result[f] = "timeout" /\ at[f] = "idle" => f \in expired

(***************************************************************************)
(* connect returns 0 for a file that is not connected only when addEvent   *)
(* had failed or close() woke it while the connection was being made;      *)
(* neither a timeout nor a connection that has failed, before or after the *)
(* event, is ever taken for a connection.                                  *)
(***************************************************************************)
ConnectTruth == lied \subseteq {"refused", "closing"}

(***************************************************************************)
(* While the owner uses a descriptor its context is the one made for this  *)
(* file, and the file is non-blocking: close() drops the context before    *)
(* the number can be given to another file.                                *)
(***************************************************************************)
FreshContext == owner = "use" => ctx = file /\ file \in nonblock
=============================================================================
