----------------------------- MODULE TcpServer -----------------------------
(***************************************************************************)
(* start(), stop() and the accept loops of a TcpServer with one bound      *)
(* socket, on an accept worker with several threads.  accept is the hooked *)
(* one: after EAGAIN it registers and waits inside do_io, and a fiber that *)
(* cancelAll wakes calls accept_f again before startAccept can look at     *)
(* m_isStop.  The application calls stop() again only after the task of    *)
(* the last stop() has run.                                                *)
(***************************************************************************)
EXTENDS Naturals, FiniteSets

CONSTANTS MaxStarts,   \* calls of start() that start something
          MaxClients   \* connections that arrive

ASSUME ServerAssumption == MaxStarts \in Nat /\ MaxClients \in Nat

VARIABLES
  m_isStop,
  listed,      \* the socket is in m_socks
  listening,   \* its descriptor is open
  backlog,     \* connections that wait to be accepted
  clients,     \* connections that have arrived
  starts,      \* accept loops started
  place,       \* where an accept loop stands
  closing,     \* the task scheduled by stop()
  again,      \* history: loops that registered between cancelAll and close_f
  aborted      \* addEvent's assertion has failed

serverVars == <<m_isStop, listed, listening, backlog, clients, starts, place, closing, again, aborted>>
Loops == 1 .. MaxStarts

ServerInit ==
  /\ m_isStop = TRUE /\ listed = TRUE /\ listening = TRUE
  /\ backlog = 0 /\ clients = 0 /\ starts = 0
  /\ place = [a \in Loops |-> "none"]
  /\ closing = "none" /\ again = {} /\ aborted = FALSE

ToPlace(a, p) == place' = [place EXCEPT ![a] = p]

\* start(): nothing to do when it runs; a loop for every socket in m_socks.
StartServer ==
  /\ m_isStop /\ m_isStop' = FALSE
  /\ starts < MaxStarts
  /\ IF listed THEN starts' = starts + 1 /\ ToPlace(starts + 1, "loop") ELSE UNCHANGED <<starts, place>>
  /\ UNCHANGED <<listed, listening, backlog, clients, closing, again, aborted>>

\* stop(): the flag, and a task for the accept worker.
StopServer ==
  /\ closing = "none"
  /\ m_isStop' = TRUE /\ closing' = "cancelAll"
  /\ UNCHANGED <<listed, listening, backlog, clients, starts, place, again, aborted>>

Woken == [a \in Loops |-> IF place[a] = "hold" THEN "accept" ELSE place[a]]

\* Variant: nobody is woken.
CancelWaitersNone(next) ==
  /\ closing' = next
  /\ UNCHANGED <<m_isStop, listed, listening, backlog, clients, starts, place, again, aborted>>

\* cancelAll wakes the loop that waits, in the task and again in close().
CancelWaiters(next) ==
  /\ closing' = next /\ place' = Woken
  /\ UNCHANGED <<m_isStop, listed, listening, backlog, clients, starts, again, aborted>>

\* close_f, and m_socks.clear(); a cleared list leaves nothing to cancel or close.
CloseListener ==
  /\ closing' = "none" /\ listed' = FALSE /\ listening' = FALSE /\ backlog' = 0
  /\ UNCHANGED <<m_isStop, clients, starts, place, again, aborted>>

StopTask ==
  \/ closing = "cancelAll" /\ listed /\ CancelWaiters("close")
  \/ closing = "close" /\ CancelWaiters("close_f")
  \/ closing = "close_f" /\ CloseListener
  \/ /\ closing = "cancelAll" /\ ~ listed /\ closing' = "none"
     /\ UNCHANGED <<m_isStop, listed, listening, backlog, clients, starts, place, again, aborted>>

\* startAccept: while(!m_isStop).
LoopTest(a) ==
  /\ place[a] = "loop" /\ ToPlace(a, IF m_isStop THEN "done" ELSE "accept")
  /\ UNCHANGED <<m_isStop, listed, listening, backlog, clients, starts, closing, again, aborted>>

\* accept_f: a client for handleClient, EAGAIN, or an error, which the loop only logs.
AcceptF(a) ==
  /\ place[a] = "accept"
  /\ \/ listening /\ backlog > 0 /\ ToPlace(a, "loop") /\ backlog' = backlog - 1
     \/ listening /\ backlog = 0 /\ ToPlace(a, "add") /\ UNCHANGED backlog
     \/ ~ listening /\ ToPlace(a, "loop") /\ UNCHANGED backlog
  /\ UNCHANGED <<m_isStop, listed, listening, clients, starts, closing, again, aborted>>

\* addEvent(READ), which asserts that nobody waits for READ on this descriptor.
AddAcceptor(a) ==
  /\ place[a] = "add"
  /\ \/ /\ listening /\ \A b \in Loops : place[b] # "hold"
        /\ ToPlace(a, "hold") /\ UNCHANGED aborted
        /\ again' = IF closing = "close_f" THEN again \cup {a} ELSE again
     \/ listening /\ (\E b \in Loops : place[b] = "hold") /\ aborted' = TRUE /\ UNCHANGED <<place, again>>
     \/ ~ listening /\ ToPlace(a, "loop") /\ UNCHANGED <<again, aborted>>
  /\ UNCHANGED <<m_isStop, listed, listening, backlog, clients, starts, closing>>

ClientArrives ==
  /\ listening /\ clients < MaxClients
  /\ clients' = clients + 1 /\ backlog' = backlog + 1
  /\ UNCHANGED <<m_isStop, listed, listening, starts, place, closing, again, aborted>>

AcceptEvent ==
  /\ listening /\ backlog > 0 /\ place # Woken
  /\ place' = Woken
  /\ UNCHANGED <<m_isStop, listed, listening, backlog, clients, starts, closing, again, aborted>>

AcceptStep(a) == ~ aborted /\ (LoopTest(a) \/ AcceptF(a) \/ AddAcceptor(a))

ServerNext ==
  \/ \E a \in Loops : AcceptStep(a)
  \/ ~ aborted /\ (StartServer \/ StopServer \/ StopTask \/ ClientArrives \/ AcceptEvent)

\* The accept worker runs its tasks: every loop that can go on, and the task of stop().
ServerFair ==
  /\ \A a \in Loops : WF_serverVars(AcceptStep(a))
  /\ WF_serverVars(~ aborted /\ StopTask)

-----------------------------------------------------------------------------
ServerTypes ==
  /\ {m_isStop, listed, listening, aborted} \subseteq BOOLEAN
  /\ backlog \in 0 .. clients /\ clients \in 0 .. MaxClients /\ starts \in 0 .. MaxStarts
  /\ place \in [Loops -> {"none", "loop", "accept", "add", "hold", "done"}]
  /\ closing \in {"none", "cancelAll", "close", "close_f"} /\ again \subseteq Loops

\* Two loops meet in addEvent's assertion, that nobody waits for READ on the
\* descriptor yet, only after a second start().
SecondStart == aborted => starts > 1

(***************************************************************************)
(* After stop() every accept loop ends, unless the server is started again *)
(* or the loop has registered once more between close()'s cancelAll and    *)
(* its close_f.  Two loops meet in addEvent's assertion only when start()  *)
(* came between a stop() and its task.                                     *)
(***************************************************************************)
ServerStops ==
  /\ []SecondStart
  /\ m_isStop ~> (~ m_isStop \/ aborted
                    \/ \A a \in Loops : place[a] \in {"none", "done"} \/ a \in again)
=============================================================================
