--------------------------- MODULE MCSchedulerPair ---------------------------
(***************************************************************************)
(* Two schedulers: one with workers, and Solo, whose only thread is the    *)
(* caller, which runs everything from inside stop() and may be woken       *)
(* early.  They share nothing, so each behaviour plays one of them.        *)
(***************************************************************************)
EXTENDS MCScheduler

VARIABLES which, fibers, active, idle, halting, auto, states, handed, at, under, ended, given

solo == <<fibers, active, idle, halting, auto, states, handed, at, under, ended, given>>

Solo == INSTANCE Scheduler WITH
    Workers <- {}, Fibers <- {f1, f2}, EarlyWake <- TRUE, LatePins <- TRUE, MaxYields <- 3,
    m_fibers <- fibers, m_activeThreadCount <- active, m_idleThreadCount <- idle,
    m_stopping <- halting, m_autoStop <- auto, m_state <- states, armed <- handed,
    pc <- at, cur <- under, idleTerm <- ended, yields <- given

PairInit == which \in {"pool", "solo"} /\ Init /\ Solo!Init

PairNext ==
    \/ which = "pool" /\ Next /\ UNCHANGED <<which, solo>>
    \/ which = "solo" /\ Solo!Next /\ UNCHANGED <<which, vars>>

\* Before start() and stop() no step is owed, so that fairness binds only the
\* scheduler that is played.
PairSpec == PairInit /\ [][PairNext]_<<which, vars, solo>> /\ Fairness /\ Solo!Fairness

(***************************************************************************)
(* What is queued is taken also when the caller is the only thread, and    *)
(* stop() may return before run() was ever called.                         *)
(***************************************************************************)
SoloTaken == Solo!QueuedIsTaken
=============================================================================
