------------------------------ MODULE HttpPool ------------------------------
(***************************************************************************)
(* HttpConnectionPool: getConnection, ReleasePtr and doRequest by several  *)
(* users.  m_conns is changed under the mutex, m_total outside of it.      *)
(* m_createTime is initialised to 0 and set nowhere, so that both tests of *)
(* a connection's age compare m_maxAliveTime, at most 2^32 ms, with the    *)
(* time since 1970.                                                        *)
(***************************************************************************)
EXTENDS Naturals, FiniteSets, SequencesExt

CONSTANTS Users,       \* the fibers that call doRequest
          Conns,       \* names of connections, a set of numbers; a deleted one is used again
          MaxAlive,    \* m_maxAliveTime
          MaxRequest,  \* m_maxRequest
          Now          \* GetCurrentMS()

ASSUME PoolAssumption ==
  /\ IsFiniteSet(Users) /\ Conns \subseteq Nat \ {0} /\ MaxRequest \in Nat
  /\ MaxAlive \in Nat /\ Now \in Nat /\ MaxAlive < Now

VARIABLES
  idle,     \* m_conns
  alive,    \* the connections that exist
  conn,     \* m_request and isConnected() of each
  total,    \* m_total
  doing,    \* where a user stands
  held,     \* the connection in its hands, 0 for none
  invalid   \* getConnection's invalid_conns

poolVars == <<idle, alive, conn, total, doing, held, invalid>>

m_createTime == 0
NoConn == [requests |-> 0, up |-> FALSE]

PoolInit ==
  /\ idle = <<>> /\ alive = {} /\ total = 0
  /\ conn = [c \in Conns |-> NoConn]
  /\ doing = [u \in Users |-> "out"] /\ held = [u \in Users |-> 0]
  /\ invalid = [u \in Users |-> {}]

To(u, place) == doing' = [doing EXCEPT ![u] = place]

\* The loop under the lock drops connections from the front until one is
\* connected and not, as the comparison goes, younger than m_maxAliveTime.
Usable(c) == conn[c].up /\ ~ m_createTime + MaxAlive > Now

GetConnection(u) ==
  LET fit == {i \in DOMAIN idle : Usable(idle[i])}
      k == IF fit = {} THEN Len(idle) + 1 ELSE CHOOSE i \in fit : \A j \in fit : i <= j
  IN  /\ doing[u] = "out" /\ To(u, "delete")
      /\ idle' = SubSeq(idle, k + 1, Len(idle))
      /\ invalid' = [invalid EXCEPT ![u] = {idle[i] : i \in 1 .. k - 1}]
      /\ held' = [held EXCEPT ![u] = IF fit = {} THEN 0 ELSE idle[k]]
      /\ UNCHANGED <<alive, conn, total>>

DeleteInvalid(u) ==
  /\ doing[u] = "delete" /\ To(u, "subtract")
  /\ alive' = alive \ invalid[u]
  /\ conn' = [c \in Conns |-> IF c \in invalid[u] THEN NoConn ELSE conn[c]]
  /\ UNCHANGED <<idle, total, held, invalid>>

SubtractInvalid(u) ==
  /\ doing[u] = "subtract" /\ To(u, IF held[u] = 0 THEN "connect" ELSE "request")
  /\ total' = total - Cardinality(invalid[u])
  /\ invalid' = [invalid EXCEPT ![u] = {}]
  /\ UNCHANGED <<idle, alive, conn, held>>

\* LookupAnyIPAddress, CreateTCP or connect fails; or there is a new connection.
ConnectFails(u) == doing[u] = "connect" /\ To(u, "out")
                   /\ UNCHANGED <<idle, alive, conn, total, held, invalid>>

NewConnection(u) ==
  /\ doing[u] = "connect" /\ To(u, "count") /\ alive # Conns
  /\ LET c == CHOOSE x \in Conns \ alive : \A y \in Conns \ alive : x <= y
     IN  /\ alive' = alive \cup {c}
         /\ conn' = [conn EXCEPT ![c] = [requests |-> 0, up |-> TRUE]]
         /\ held' = [held EXCEPT ![u] = c]
  /\ UNCHANGED <<idle, total, invalid>>

CountNew(u) ==
  /\ doing[u] = "count" /\ To(u, "request") /\ total' = total + 1
  /\ UNCHANGED <<idle, alive, conn, held, invalid>>

\* doRequest: recvResponse closes the connection when it fails.
DoRequest(u) ==
  /\ doing[u] = "request" /\ To(u, "release")
  /\ \E ok \in BOOLEAN : conn' = [conn EXCEPT ![held[u]].up = ok]
  /\ UNCHANGED <<idle, alive, total, held, invalid>>

\* Variant: a connection may serve one request more.
ReleaseLate(u) ==
  LET c == held[u]
      requests == conn[c].requests + 1
  IN  /\ doing[u] = "release"
      /\ IF ~ conn[c].up \/ m_createTime + MaxAlive >= Now \/ requests > MaxRequest
         THEN /\ To(u, "decrement")
              /\ alive' = alive \ {c} /\ conn' = [conn EXCEPT ![c] = NoConn]
              /\ held' = [held EXCEPT ![u] = 0]
         ELSE /\ To(u, "push") /\ conn' = [conn EXCEPT ![c].requests = requests]
              /\ UNCHANGED <<alive, held>>
      /\ UNCHANGED <<idle, total, invalid>>

\* ReleasePtr: a connection that is down, used up, or younger than
\* m_maxAliveTime is deleted, any other goes back to the end of the list.
Release(u) ==
  LET c == held[u]
      requests == conn[c].requests + 1
  IN  /\ doing[u] = "release"
      /\ IF ~ conn[c].up \/ m_createTime + MaxAlive >= Now \/ requests >= MaxRequest
         THEN /\ To(u, "decrement")
              /\ alive' = alive \ {c} /\ conn' = [conn EXCEPT ![c] = NoConn]
              /\ held' = [held EXCEPT ![u] = 0]
         ELSE /\ To(u, "push") /\ conn' = [conn EXCEPT ![c].requests = requests]
              /\ UNCHANGED <<alive, held>>
      /\ UNCHANGED <<idle, total, invalid>>

\* Variant: the deleted connection stays in the count.
DecrementNothing(u) ==
  /\ doing[u] = "decrement" /\ To(u, "out")
  /\ UNCHANGED <<idle, alive, conn, total, held, invalid>>

Decrement(u) ==
  /\ doing[u] = "decrement" /\ To(u, "out") /\ total' = total - 1
  /\ UNCHANGED <<idle, alive, conn, held, invalid>>

PushBack(u) ==
  /\ doing[u] = "push" /\ To(u, "out")
  /\ idle' = Append(idle, held[u]) /\ held' = [held EXCEPT ![u] = 0]
  /\ UNCHANGED <<alive, conn, total, invalid>>

PoolNext ==
  \E u \in Users :
    \/ GetConnection(u) \/ DeleteInvalid(u) \/ SubtractInvalid(u) \/ ConnectFails(u)
    \/ NewConnection(u) \/ CountNew(u) \/ DoRequest(u) \/ Release(u) \/ Decrement(u) \/ PushBack(u)

-----------------------------------------------------------------------------
PoolTypes ==
  /\ idle \in Seq(Conns) /\ alive \subseteq Conns
  /\ conn \in [Conns -> [requests : 0 .. MaxRequest, up : BOOLEAN]]
  /\ held \in [Users -> Conns \cup {0}] /\ invalid \in [Users -> SUBSET Conns]
  /\ doing \in [Users -> {"out", "delete", "subtract", "connect", "count", "request", "release",
                          "push", "decrement"}]

In(place) == {u \in Users : doing[u] = place}

(***************************************************************************)
(* No connection leaks and none has two owners: every one that exists is   *)
(* once in m_conns or in the hands of one user; and m_total counts them,   *)
(* but for the users between a deletion or a creation and the counter.     *)
(***************************************************************************)
PoolCount ==
  /\ IsInjective(idle)
  /\ \A c \in alive :
       Cardinality({u \in Users : held[u] = c \/ (doing[u] = "delete" /\ c \in invalid[u])})
         = (IF c \in Range(idle) THEN 0 ELSE 1)
  /\ Range(idle) \subseteq alive
  /\ total + Cardinality(In("count"))
       = Cardinality(alive) + Cardinality(In("decrement"))
           + Cardinality({p \in In("subtract") \X Conns : p[2] \in invalid[p[1]]})

(***************************************************************************)
(* Whoever gets a used connection gets one that is up and has requests to  *)
(* spare: what ReleasePtr puts into m_conns, getConnection never has to    *)
(* throw away, not even for its age.  And although m_maxSize is never      *)
(* looked at, there are never more connections, those being made included, *)
(* than users, also when several users have seen an empty list at once.    *)
(***************************************************************************)
Connecting == {u \in Users : held[u] = 0 /\ doing[u] \in {"delete", "subtract", "connect"}}

PoolReuse ==
  /\ \A u \in Users :
       /\ invalid[u] = {}
       /\ doing[u] = "request" => conn[held[u]].up /\ conn[held[u]].requests < MaxRequest
  /\ Cardinality(alive) + Cardinality(Connecting) <= Cardinality(Users)
=============================================================================
