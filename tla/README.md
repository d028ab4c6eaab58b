# A TLA+ verification of lyslg, the coroutine web server framework

`lyslg` (under `lyslg/` in the repository) is a C++ server framework: an N:M
coroutine scheduler, an epoll-driven I/O manager with timers, hooked blocking
system calls, and on top of them TCP, HTTP and WebSocket servers, clients, a
configuration system and a process supervisor. The modules here specify the
concurrent core of it, the services built on that core and its three generated
parsers, check them with TLC on small instances and prove what can be proved for
every instance with TLAPS.

## The system

| component | state | operations | works with |
|---|---|---|---|
| Scheduler (`scheduler.*`) | queue `m_fibers`, active and idle counts, `m_stopping`, `m_autoStop` | `schedule`, `start`, `run`, `idle`, `stop` | fibers, threads; base of IoManager |
| Fiber (`fiber.*`) | `m_state`, stack, context | `swapIn`, `swapOut`, `call`, `back`, `YieldToHold`, `YieldToReady`, `MainFunc` | driven by `run` |
| TimerManager (`timer.*`) | ordered set of timers, `m_tickled`, `m_previousTime` | `addTimer`, `cancel`, `refresh`, `reset`, `getNextTimer`, `listExpiredCb` | base of IoManager, which wakes its epoll when the first timer changes |
| IoManager (`iomanager.*`) | `FdContext` per descriptor, `m_pendingEventCount`, epoll set, tickle pipe | `addEvent`, `delEvent`, `cancelEvent`, `cancelAll`, `idle`, `stopping` | hands waiting fibers back to the scheduler |
| Hook, FdManager (`hook.*`, `fd_manager.*`) | per-descriptor flags and timeouts | `do_io`, `connect_with_timeout`, `sleep`, `close`, `fcntl` | IoManager events with a timer as timeout |
| TcpServer (`tcp_server.*`) | `m_socks`, `m_isStop` | `start`, `startAccept`, `stop` | accept loops are fibers of the accept worker |
| HTTP session and server (`http/http_session.*`, `http_server.*`, `stream.*`) | receive buffer, parser | `recvRequest`, `sendResponse`, `handleClient`, `readFixSize`, `writeFixSize` | one fiber per client, over the hooked calls |
| HttpConnectionPool (`http/http_connection.*`) | `m_conns`, `m_total` | `getConnection`, `doRequest`, `ReleasePtr` | fibers of a client share it |
| WebSocket (`http/ws_session.*`, `ws_server.*`) | opcode and data of the message so far | `WSRecvMessage`, `handleClient` | one fiber per client |
| ByteArray (`bytearray.*`) | block list, `m_cur`, `m_position`, `m_size` | `write`, `read`, `setPosition`, `clear`, iovecs | filled and emptied by SocketStream |
| Parsers (`http/http11_parser.*`, `httpclient_parser.*`, `uri.*`) | state `cs`, `mark`, `field_start`, `field_len` | `execute`, `is_finished`, `Uri::Create` | generated by Ragel from the `.rl` files |
| Config | `m_val`, listeners | `setValue`, `getValue`, `addListener` | every component reads it, hooks and servers listen |
| Daemon, Application | process info, servers | restart loop, start-up | the top of the program |

What is hard here is first of all concurrency. Fibers migrate between threads, a waker may
run before the fiber it wakes has switched out, `stop()` may come at any moment
and decides on several values read one after the other, epoll reports are
processed after the world has changed, timers race with events, and a descriptor
number may be closed and reused under a waiting fiber. Above that it is what
arrives in pieces or not at all: short reads, failed reads, frames between
fragments, heads split between two calls of a parser. Each such
place is listed under `hazards` in `PROJECT.json` with its source line and the
properties that watch it, or a note on why none does yet.

## Modules

`Scheduler.tla` - `Scheduler` and `Fiber`. One action is a stretch of code that
no other thread can see halfway: a critical section of `m_mutex`, an atomic
counter update, a write of `m_state`. `pc[t]` is the place of thread `t` in
`run()` or of the owner in `stop()`:

| actions | code |
|---|---|
| `Pick`, `DropFinished`, `SwapIn`, `SwapBack`, `Settle`, `EnterIdle`, `LeaveIdle`, `Exit` | the loop of `Scheduler::run` |
| `Arm`, `YieldToHold`, `YieldToReady`, `MainFunc`, `TaskSchedule`, `TaskWake` | what a task does while it executes; `Arm` is a hooked call that hands the fiber to a timer or a descriptor before it yields |
| `start`, `StopBegin`, `StopEarly`, `StopSet`, `StopCheck`, `Join` | `start()` and `stop()` |
| `ClientSchedule`, `ClientScheduleBatch`, `ClientWake` | the application |

`EarlyWake` says whether a waker may schedule an armed fiber before `run()` is
done with it. The code allows that as soon as there are two threads. `LatePins` says
whether a task may pin work to a thread that has left `run()`, or to a caller that
has gone past it: `schedule()` takes any id, so the code allows that too. A fiber that
is queued or running is not submitted again (`Fresh`, `Stale`): nothing in the code
prevents an application from doing so, and nothing but the skip of an EXEC fiber
copes with it. That skip is therefore exercised only with `EarlyWake`.

`TaskPool.tla` - the abstract specification: a submitted task runs on one thread
at a time, at most `Capacity` tasks run, a parked or yielding task runs again,
stop means nothing waits or runs. `Scheduler` refines it (`PoolSpec`) under a
mapping of queue entries and program points to a task's status.

`TimerManager.tla` - the timer set with its mutex sections (construction of the
timer and its insertion are two steps, `listExpiredCb` is three), the announcing
of a new first timer through `m_tickled` and the tickle pipe, the idle threads
that sleep in `epoll_wait`, and a wall clock that advances and may be set back
once. `uint16` is the conversion of the delay parameter. `crashed` stands for the
undefined behaviour of dereferencing or erasing `end()`.

`IoManager.tla` - descriptor contexts with their own mutex, the vector that
holds them and is resized, the kernel's registration per descriptor, the pending
count, the trigger of an event (schedule first, decrement next), `idle()` with
the three reads of `stopping()`, the reports of `epoll_wait` and their processing.
Queue and timers appear as sets. Contexts of a descriptor are numbered, because
`contextResize` may drop one and make another. `aborted` names the assertion that
ended the process; invariants are stated up to that point. Descriptors are real
numbers (5 lies within the first 32 contexts, 40 and 100 do not), so that the
arithmetic of `fd * 1.5` is the code's. Every call of `epoll_ctl` may fail, and fails
when the kernel has another view of the descriptor than the context.

`Hook.tla` - the hooked calls on one descriptor number. A caller goes through
`DoIo` or `Connect` (the system call), `Arm` (the condition timer), `AddEvent`, hold,
`Resume`; a timer through `Expire` (collected), `Lock` (the weak pointer and
`cancelled`) and `Cancel` (`cancelEvent`); the owner through `CloseGet`, `CancelAll`,
`Del`, `CloseF`, then `SocketF` and `GetCtx` for the next file under the number.
Files are numbered, so that an old context is told from a new one. A connection may
fail at any time after `connect_f` (`Fail`): epoll then reports an error, and `SoError` is
where `connect` learns of it. Calls that a hook only passes on (a descriptor that is no
socket, or that the user made non-blocking) are the ones `DoIo` and `Connect` answer at
once. IoManager and TimerManager appear through what `hook.cc` calls of them.

`TcpServer.tla` - the accept loops of one socket and the task that `stop()` leaves
to the accept worker, with the same places inside the hooked accept.

`HttpPool.tla` - `getConnection`, `doRequest` and `ReleasePtr`, cut where the lock is
released and where `m_total` is changed. `m_createTime` is the 0 of its declaration;
nothing in the code sets it.

`HttpSession.tla` - one keep-alive session over a stream of equal requests. Bytes are
counted, not told apart: what matters is where a read ends. The parser appears as
what is left of a Content-Length line after a call. A session that is out of step
(`astray`) goes on (`ReadStray`): of bytes in the midst of a request the parser may make
an error, a head without an end, or a head with any Content-Length up to `BodyLen`.

`WebSocket.tla` - `WSRecvMessage` and the loop around it. A byte is the set of its bits,
`Xor` their symmetric difference; `Wire` is the payload as `WSSendMessage` writes it,
`Unmask` what the receiver makes of it. The payload of the k-th frame consists of k's, so
that a message shows which frames it is made of. `stray` counts the bytes that a control
frame left in the stream; while there are any, frames pile up behind them
(`SendBehind`) and the bytes are read as heads that may say anything (`RecvStray`).
Payloads are below 126 bytes, so that the extended lengths do not occur.

`ConfigVar.tla` - a configuration variable: the test and the calls of the listeners
under the read lock, the assignment under the write lock.

`ByteArray.tla` - the block list with real bytes, against `Tape.tla`, which says what
`bytearray.h` promises: a sequence with one position. `TapeSpec` is the refinement,
with the contents of the blocks as the abstract sequence; `Tape` lets nothing crash but
a read of no bytes at the end of the data. `Walk` is the loop that
`write`, `read` and the iovec functions share, one `WalkStep` for each turn of it;
the application writes every byte string up to `MaxLen`.

`RequestMachine.tla`, `ResponseMachine.tla`, `UriMachine.tla` - the three machines as
they stand in the generated C++: for every state the byte classes it tells apart,
the actions in the order of the code, and the target. Groups of states that the
generator laid out alike (percent escapes, address groups, octets) are one
definition with the state numbers as parameters. `Bytes.tla` has the alphabet: 83
symbols stand for 256 bytes, each for bytes that no machine tells apart. `Grammars.tla`
has the three `.rl` grammars as productions, with actions as symbols of their own and
Ragel's guarded concatenations as sets of terminals that win over others. In
`Parsers.tla` a machine reads byte after byte while every parse of the grammar that
is still possible is carried along, with the pointers it relies on.

`SchedulerProofs.tla`, `SchedulerRefinement.tla`, `TimerProofs.tla`, `IoProofs.tla`,
`HookProofs.tla`, `PoolProofs.tla`, `ByteProofs.tla` and `ServicesProofs.tla` (HttpSession,
TcpServer, WebSocket, ConfigVar, and the seven services together) hold the theorems;
see Proofs.

`MCSchedulerPair.tla` puts a scheduler with workers and one with the caller alone side by
side, `MCServices.tla` the seven services; a behaviour plays one of them. `MC*.tla` give the model values and the symmetry sets. Definitions commented
"Variant" are the same step with a plausible slip in it. No specification uses
them; they serve to show that a property would notice (`mutants` in
`PROJECT.json`).

## Runs

| run | instance | shows |
|---|---|---|
| SchedulerPool | 2 workers and the caller, 1 fiber, 1 callback, 2 yields, wakers come after `run()`, pins go to threads in `run()` | types, ownership, counting, draining, `stop()` returns, queued tasks are taken, refinement of TaskPool |
| | the caller alone, 2 fibers, 1 callback, 3 yields, early wakers, any pins | everything runs inside `stop()`, with its early return: what is queued is taken (`SoloTaken`) |
| SchedulerEarlyWake | 2 workers, 1 fiber, early wakers | **violation**: `run()` finds a fiber in EXEC where its comment allows HOLD or INIT |
| SchedulerLatePin | as SchedulerPool, pins to any thread | **violation**: work pinned to the caller stays queued and `stop()` returns |
| TimerManager | 1 one-shot and 1 recurring timer, 2 idle threads, delays 0 and 1, 1 clock step, 1 set-back, 3 calls | callback iff queued, one fate per timer (waits, cancelled or fired), none early, first timer watched |
| TimerCrash | 1 timer, 2 idle threads | **violation**: `begin()` of an empty set is dereferenced |
| IoManager | 2 threads, descriptors 5 and 40, 1 fiber, 1 callback, ready and error reports | pending count exact, every task in one place, kernel and contexts agree, queue drained when the last thread leaves |
| IoTrigger | 1 descriptor, error reports | **violation**: assertion of `triggerEvent` |
| IoShrink | descriptors 40 and 100, 2 fibers | **violation**: a registered context is dropped by a concurrent resize |
| IoStopRace | 1 sleeping fiber, 2 threads, `stop()` | **violation**: every thread exits and the fiber sleeps for ever |
| Parsers | all states of the three machines, all byte classes | language and actions agree with the grammars; which inputs make open parses spoil each other's pointers; when the end is reported |
| Services | the seven modules above the IoManager, one per behaviour (below) | the table below |
| WebSocketMask | a server and a client, 3 frames of up to 2 bytes, limit 5 | **violation**: after a masked PING a message is handed on that nobody sent |

The violations are described, with the lines they contradict, under `findings`.

What Services shows, scene by scene:

| module | instance | properties |
|---|---|---|
| Hook | a reader and a connecting writer, both with timeouts, 2 calls, 2 files, failing connections | `Wakeable`, `OwnTimeout`, `ConnectTruth`, `FreshContext`; `TimedReturns` |
| HttpPool | 3 users, 3 connections, 2 requests per connection | `PoolCount`, `PoolReuse` |
| HttpSession | 2 requests of 4 + 2 bytes, buffer of 8, 2 failing calls | `InStep`; `SessionEnds` |
| ByteArray | blocks of 2 bytes, up to 5 bytes of positions, all strings of 2 bytes up to length 3 | `TapeSpec` |
| TcpServer | 2 starts, 2 clients | `ServerStops` |
| WebSocket | server and client, 3 frames of up to 1 byte, masked or not, limit 3 | `WsIntact` |
| ConfigVar | 2 setters, 2 listeners, 3 values, 3 calls | `ListenersAgree` |

Several of these hold only with exceptions, which the properties name and their
comments explain. They are facts about the code worth knowing:

- A task that runs after its thread has stopped counting as active may pin work to a
  thread that has gone (SchedulerLatePin).
- A fiber that `close()` wakes reads EAGAIN and may register again before the
  descriptor is closed; it then waits for ever (`window` in `Hook`, `again` in
  `TcpServer`). A timeout that expires before `addEvent` leaves the call without one.
  `connect` returns 0 for a connection still under way when `addEvent` failed or
  `close()` woke it.
- `readFixSize` and `writeFixSize` keep -1 in a `size_t`: one failed read shifts the
  stream by a byte, a broken connection makes them loop.
- A Content-Length line split between two reads is lost, and so are the bytes of a
  pipelined request behind a body.
- Delays of 65536 ms and more pass through `uint16_t` and become short ones.
- The pool's age limits never apply and `max_size` is never looked at; the size is
  bounded by the number of users.
- `start()` between `stop()` and its task puts two accept loops on one socket, which
  may fail `addEvent`'s assertion.
- A control frame with a mask or a payload puts the WebSocket stream out of step, and
  every client that keeps to the protocol masks its control frames (WebSocketMask); an
  empty data frame ends the connection; a message of exactly `max_size` is refused.
- Two `setValue` calls at once may leave listeners with another value than
  `getValue` until the next change; so may a registration during a change.
- A `ByteArray` read of no bytes at full capacity dereferences a null `m_cur`;
  `TapeSpec` and its theorem say that nothing else does.
- Parsers: after an empty Content-Length, Connection or Transfer-Encoding line the
  response parser reports the next header's name wrongly, and when the head ends
  there, `is_finished` does not say so. `Uri::Create` builds a string from a null
  `mark` for a port without digits, and reports `1` as the user of `user:1@host`. In
  the request grammar `6( h16 ":" )` is the byte 6 and one group, not six groups.
  `uri_relaxed` is never initialised.

### Bounds

Two threads are enough for every race between two sections of code, and the
scheduler adds the owner as a third. Two tasks let one wake, cancel or register
the other. `MaxYields` bounds only how often tasks give up the processor; two
yields allow a fiber to park, be resumed elsewhere and yield again. In
`TimerManager` three calls cover add, change and cancel of one timer or two timers
against each other; with delays 0 and 1 and one clock step a timer can be due,
not yet due, and equal to another one; a set-back of one millisecond more than
an hour crosses `detectClockRollover`'s tolerance. That specification may stop at
its bounds or at a crash, so deadlock is not checked there; it is everywhere
else that a run of the core passes. In `IoManager` fibers may
register and sleep for ever; the one bound is `MaxGens`, how often the context of a
descriptor is replaced, and one replacement is enough to lose a registration. Symmetry is used for threads, and not in runs with liveness.

`Parsers` has no bound: the machines are finite and so are the sets of open parses,
so every reachable pair of a state and its parses is visited, for input of any
length. Its end and an error have no successor, so deadlock is not checked.

In `Services` two calls on two files let a callback of one call meet the next, and a
new file meet what the old one left behind; a third file or call would only repeat
this. With three users two can find the list empty while a third returns a
connection; with two requests per connection one is reused and then retired. Two
requests of six bytes and a buffer of eight give every position of a read's end: in
the head, in the Content-Length line, in the body, in the next head. Blocks of two
bytes and five positions give offsets at, before and after a block's end, and a
part of a third block. Two starts are the least for two accept loops. Three frames are
a message of two fragments with a control frame in between or behind, two messages, or
a message whose third byte reaches the size limit. Callers, users and sessions end at their bounds, so
deadlock is not checked.

In WebSocketMask a masked PING with a data frame behind it leaves enough bytes to be read
as two more frames. A mask is four different bytes.

### Fairness

`FairSpec` asks that every thread inside `run()`, and `stop()` once it has been
called, keeps taking steps: the operating system schedules runnable threads, and
`m_mutex` is held for a bounded time. The application owes nothing: it need not
submit, wake or stop, so liveness is stated from the moment `stop()` is called.
Bounded yields stand for tasks that do not yield for ever.

In `Services`, `HookFair` asks that a fiber that can go on does so and that an armed
timer expires and its callback runs; `ServerFair` that the accept worker runs its
loops and the task of `stop()`; `SessionFair` that a session's fiber goes on when its
call has an answer. This is what the scheduler gives them (`QueuedIsTaken`) as long
as its threads are not held in blocking calls. Peers owe nothing: data need not
come, connections need not break.

## Proofs

The theorems hold for every value of the constants: any finite set of threads or
users, any set of tasks, timers, listeners, any sizes. `Spec` stands for the
module's own specification; for the services it is the component's own scene
(`HookSpec`, `PoolSpec`, ...). `ServicesComposed` shows that the composition which
`MCServices` checks implements each of them, so that every theorem about a service is
one about the composition. Every invariant below was checked by TLC before it was
proved.

| module | theorems | inductive invariant |
|---|---|---|
| `SchedulerProofs` | `SchedulerTypes`, `ActiveCounted` | `TypeInv` |
| | `FiberOwnership`, `SwapInSafe`, `FibersKept`, `SwitchedBackState` (a) | `OwnerInv`; `LeftBehind` for the caller alone |
| | `EntriesServed`, `StopDrains` (a, e) | `DrainInv` |
| `SchedulerRefinement` | `SchedulerImplementsPool` (a, e) | the three above |
| `TimerProofs` | `TimerTypeCorrect`, `TimerAlwaysFound`, `TimerOneFate` | `TimerInv` |
| | `TimerWatched` | `WatchInv` |
| | `TimerNotEarly` (b) | `DueExact` |
| `IoProofs` | `IoTypeCorrect`, `PendingCounted` | `IoInv` |
| | `QueueEmptyAtExit` | `DrainInv` |
| | `TaskInOnePlace` | `PlaceInv` |
| | `KernelFollows`, `KernelFollowsIfGrowing`, `CancelFindsIfGrowing` (c) | `KernelInv`, `Grown`, `Covered` |
| `HookProofs` | `HeldCallersWakeable`, `TimeoutsAreOwn`, `ConnectReports`, `ContextsAreFresh` | `HookInv` |
| `PoolProofs` | `ConnectionsCounted`, `ConnectionsGood` (d) | `PoolInv` |
| `ByteProofs` | `ByteInvAlways`, `ByteArrayImplementsTape` | `ByteInv` |
| `ServicesProofs` | `SessionInStep`, `SessionTypeCorrect` | `SessionInv` |
| | `LoopsMeetOnlyOnRestart` | `LoopInv` |
| | `MessagesIntact` | `WsInv` |
| | `ListenersFollow` | `ConfigInv` |
| | `ServicesComposed`, `ServicesTypeCorrect` | those of the services |

The arguments, and what each invariant adds to the property it is for:

- Scheduler. `TypeInv` adds that a thread holds a task exactly at the points where
  it should, that workers are born together and that the idle count is exact;
  without the first, counts could not be carried over a step. `OwnerInv` adds what the
  state of a fiber is at each point of the thread that holds it, that EXEC fibers are
  held, and that armed fibers are neither queued nor finished, which is what makes a
  wake-up safe. `DrainInv` relates the owner's place in `stop()` to the flags and to
  the workers that have gone: a thread leaves only when it finds nothing to take,
  whoever adds to the queue is itself still in `run()`, and so is the thread it pins to.
- `SchedulerImplementsPool` goes step by step: since a task has one owner, its status
  is what that owner says (`StatusByOwner`); a step moves one task and leaves the
  status of the others alone; each action is then one action of `TaskPool` or a
  stutter. The capacity bound comes from mapping running tasks into threads.
- Timers. `TimerInv` joins callback-iff-queued with the possible fates of a timer and
  with what the clock readings can be. `WatchInv` adds why an announcement may be left
  out: while `m_tickled` is set, somebody has not yet looked, or is being told to.
  `DueExact` says that the key of a timer is the time it was asked for.
- IoManager. `IoInv` has the types, what a thread has in its hands at every point
  (`Hands`), that a context holds a task exactly for its registered events, and the
  pending count as the number of such events plus the decrements to come. `PlaceInv`
  says where a task may be according to its life: nowhere while new, executing or
  over, except that a fiber about to yield may already be registered, queued or taken
  by a timer. `KernelInv` says by how much the kernel is ahead of a context while
  somebody is inside its mutex: by the events still to be triggered. `QueueEmptyAtExit`
  needs no more than that the last thread to exit finds the queue empty.
- Hook. `HookInv` numbers the files and says which context and epoll item can exist
  at each step of `close()`, which callers are registered, to which call a late
  callback can belong, why a `connect` was woken, and that a connector woken by an event has
its connection or its error.
- Pool. `Owners` gives each connection one owner, `Counts` turns this into numbers
  (`m_total` is off by the users between the lock and the counter), `Quality` says that what
  `ReleasePtr` put back stays good, and `Len(idle) <= Cardinality(Outside)` is why
  the number of users bounds a pool that `max_size` does not.
- ConfigVar. If the calls under way agree on a value, a listener has it as soon as one of them has
  told it (`Told`), whoever assigns first.
- Session. `Lengths` says how many bytes a session that nothing spoiled has
  taken of the present request, and how many are left. Out of step a request delivered
  takes at least one byte more, which bounds their number.
- ByteArray. `ByteInv` adds to the types that `m_cur` is the block of `m_position`, and
  NULL behind the last block, for every operation starts its loop there. The loop is
  reasoned about by what a turn keeps (`LoopAt`): the cells so far are the consecutive
  cells from the position on (`Run`), and the block reached is the block of the place
  reached. From there on it is arithmetic: a position and a cell determine each other
  by division with remainder, so that writing cells changes the contents exactly
  where `Over` does, and added blocks and `BlockOf` agree with `BlockAt`. Induction
  over turns goes by the least counterexample: `Induction` takes the set of numbers
  for which a statement holds, which the provers can handle where they cannot
  instantiate an operator.
- WebSocket. A message is a `FlattenSeq` of frames. `Joins` describes the sequence of
  partial concatenations, of which there is exactly one by induction, so that a frame
  more appends its payload (`FlattenAppend`); unmasking undoes masking byte by byte
  (`UnmaskWire`). `WsInv` adds that nothing is stray until a control frame left it, that the
  receiver's opcode is that of the message being sent, that what it has collected is within
  the limit, and that `given` is what was collected.
- Composition. A step of one scene leaves the others alone (`ScenesApart`).

Conditions, beyond the named `ASSUME`s of the modules (finite sets, disjoint kinds
of tasks, numbers that are numbers):

- (a) `~EarlyWake`: wakers come after `run()` has let go of a fiber. Without it the
  statements are false, as SchedulerEarlyWake shows. `SwitchedBackState` also holds
  with early wakers when the caller is the only thread, in
  which nobody but the fiber itself writes its state. The counts need no condition.
- (b) `DelaysFit`, delays below 2^16, since `addTimer` reduces longer ones modulo 2^16 and
  NotEarly then fails at the first collection; and `[]NoStall`: no thread is held up for more than an hour between its
  reading of the clock and the lock in `listExpiredCb`. This condition was found by
  the proof. `detectClockRollover` compares the reading with `m_previousTime`, which another
  thread may meanwhile have set from a later one; a reading more than an hour older is
  taken for a clock that was set back, and every timer is then collected. The bounded
  run cannot reach it, its clock steps being milliseconds.
- (c) `[]NeverReplaced`: `contextResize` has replaced no context. IoShrink shows one being
  replaced. `KernelFollowsIfGrowing` derives the condition from the descriptors: if no
  resize asked for by one of them makes the table too small for another
  (`NoShrink`; for example all below 32, or all from 40 to 59), the kernel
  and the contexts agree without any condition on the behaviour. For the same
  descriptors `CancelFindsIfGrowing` says that `cancelEvent` finds what exists, the
  statement that IoShrink refutes for others: `Covered` keeps every
  registered descriptor within the table, since after the first resize it reaches
  beyond all of them (`ResizeCovers`).
- (d) `MaxRequest > 0`: with 0 every connection is retired after its first request, and what is handed
  out has no requests left.
- (e) `~LatePins`: tasks pin work to no thread that has left `run()`. Without it
  `StopDrains` is false, as SchedulerLatePin shows, and so are the other two in the same
  behaviour. This is a condition on the application: `schedule()` does not look at the id.

Only model-checked:

- Liveness (`StopReturns`, `QueuedIsTaken`, `TimedReturns`, `SessionEnds`, and the second
  half of `ServerStops`): out of the prover's reach.
- The parsers (`Agree`, `ActionsAgree`, `MarksFit`, `FinishedAtDone`): `Parsers` has no
  constants. Its statements are about finite tables, which TLC visits completely, for
  input of any length, so that a theorem would say no more than the run. `Parsers`
  also has the one RECURSIVE operator, `Predict`, which follows the productions of a
  grammar; no module with a theorem reaches it.
- The violated statements have no theorem but on their safe side: `SwitchedBackState`,
  `StopDrains`, `CancelFindsIfGrowing` and `MessagesIntact` give conditions under which they hold. For
  `TriggerAssert` the absence of error reports is not enough, as a report of both events
  may come after one was deleted; `NoCrash` fails without a clock set back as well; and
  `SleeperWakes` has no natural condition.

## Not modelled

- Context switching and stacks (`ucontext`), the pthread wrappers, logging.
- Restarting a scheduler, or stopping it twice.
- The callbacks of condition timers (`OnTimer`'s weak pointer): collecting such a
  timer is the same step; what the callback does belongs to the hook module.
- In `TimerManager`, `EINTR` of `epoll_wait`, which repeats the wait.
- `fcntl`, `ioctl` and `setsockopt` of the hook (flags of a context), `usleep` and
  `nanosleep` (the steps of `sleep`).
- `bind` and its failures, servers with several sockets (the loops share no state).
- WebSocket lengths of 126 and more (two further formats of the length field), and the
  wrap of `cur_len + length` in 64 bits that a length near 2^64 would give.
- The WebSocket handshake, failed writes of a frame, chunked responses, servlet dispatch: text, or
  a row of writes on one stream.
- The integer, string and file functions of `ByteArray`: encodings on top of `read`
  and `write`. The body of a request (`http_session.cc:50` reserves the string and
  copies behind its size, so that it is always empty) is not part of `HttpSession`.
- The configuration registry and YAML, logging, JSON, hashing, modules and
  libraries: data conversion and maps under one lock. The daemon's restart loop
  shares no state with anything.

## Plan

1. Done: Scheduler, TaskPool, TimerManager, IoManager; scheduler safety proofs.
2. Done: Hook, TcpServer, HttpPool, HttpSession, WebSocket, ConfigVar, ByteArray and
   Tape, the three machines and their grammars.
3. Done: the safety invariants of the scheduler, timers, IoManager, hooked calls,
   connection pool, configuration, session and WebSocket as theorems; `Scheduler`
   implements `TaskPool`, `ByteArray` implements `Tape`, and the composed services
   implement each service.
4. Later: `HttpConnection::recvResponse` with chunked bodies, integers of `ByteArray`
   against their values.
