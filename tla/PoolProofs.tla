------------------------------ MODULE PoolProofs ------------------------------
(***************************************************************************)
(* Proofs about HttpConnectionPool, for any number of users, connections   *)
(* and requests per connection.                                            *)
(***************************************************************************)
EXTENDS HttpPool, Integers, FiniteSetTheorems, SequenceTheorems, WellFoundedInduction, TLAPS

\* The pool by itself; a run of MCServices plays it as one scene.
PoolSpec == PoolInit /\ [][PoolNext]_poolVars

-----------------------------------------------------------------------------
(***************************************************************************)
(* Counting users.                                                         *)
(***************************************************************************)

\* The users of a set S, when one of them comes in, goes out, or neither.
LEMMA CountUsers ==
  ASSUME NEW S \in SUBSET Users, NEW T \in SUBSET Users, NEW u \in Users,
         \A v \in Users \ {u} : v \in S <=> v \in T
  PROVE  /\ IsFiniteSet(S) /\ Cardinality(S) \in Nat /\ Cardinality(T) \in Nat
         /\ u \notin S /\ u \in T => Cardinality(T) = Cardinality(S) + 1
         /\ u \in S /\ u \notin T => Cardinality(T) = Cardinality(S) - 1
         /\ (u \in S <=> u \in T) => T = S
  <1>1. IsFiniteSet(S) /\ IsFiniteSet(T)
    BY PoolAssumption, FS_Subset
  <1>2. Cardinality(S) \in Nat /\ Cardinality(T) \in Nat
    BY <1>1, FS_CardinalityType
  <1>3. ASSUME u \notin S, u \in T PROVE Cardinality(T) = Cardinality(S) + 1
    <2>1. T = S \cup {u}
      BY <1>3
    <2>2. QED
      BY <1>1, <1>3, <2>1, FS_AddElement
  <1>4. ASSUME u \in S, u \notin T PROVE Cardinality(T) = Cardinality(S) - 1
    <2>1. T = S \ {u}
      BY <1>4
    <2>2. QED
      BY <1>1, <1>4, <2>1, FS_RemoveElement
  <1>5. QED
    BY <1>1, <1>2, <1>3, <1>4

-----------------------------------------------------------------------------
(***************************************************************************)
(* The inductive invariant.                                                *)
(***************************************************************************)

Holders == {u \in Users : held[u] # 0}
Outside == {u \in Users : doing[u] \in {"out", "decrement"}}

\* A user has a connection while it makes its request, and perhaps before.
Places ==
  /\ \A u \in Users : invalid[u] = {}
  /\ \A u \in Users : doing[u] \in {"count", "request", "release", "push"} => held[u] # 0
  /\ \A u \in Users : doing[u] \in {"out", "connect", "decrement"} => held[u] = 0

\* Every connection has one owner: m_conns or a user.
Owners ==
  /\ IsInjective(idle)
  /\ \A i \in DOMAIN idle : idle[i] \in alive
  /\ \A u \in Users : held[u] # 0 => held[u] \in alive /\ \A i \in DOMAIN idle : idle[i] # held[u]
  /\ \A u, v \in Users : held[u] = held[v] /\ held[u] # 0 => u = v
  /\ \A c \in alive : (\E i \in DOMAIN idle : idle[i] = c) \/ \E u \in Users : held[u] = c

\* What ReleasePtr puts back is good, and stays so until it has been used.
Good(r) == r.up /\ (r.requests < MaxRequest \/ MaxRequest = 0)
Quality ==
  /\ \A i \in DOMAIN idle : Good(conn[idle[i]])
  /\ \A u \in Users : held[u] # 0 /\ doing[u] \in {"delete", "subtract", "count", "request", "push"}
       => Good(conn[held[u]])

\* The counters: m_total, the connections by owner, and as many users outside as
\* there are idle connections.
Counts ==
  /\ IsFiniteSet(alive) /\ total \in Int
  /\ total + Cardinality(In("count")) = Cardinality(alive) + Cardinality(In("decrement"))
  /\ Cardinality(alive) = Len(idle) + Cardinality(Holders)
  /\ Len(idle) <= Cardinality(Outside)

PoolInv == PoolTypes /\ Places /\ Owners /\ Quality /\ Counts

\* The pool starts empty.
LEMMA PoolInitial == PoolInit => PoolInv
  <1> SUFFICES ASSUME PoolInit PROVE PoolInv
    OBVIOUS
  <1>1. PoolTypes
    <2>1. <<>> \in Seq(Conns) /\ NoConn \in [requests : 0 .. MaxRequest, up : BOOLEAN]
      BY PoolAssumption DEF NoConn
    <2>2. QED
      BY <2>1, Zenon DEF PoolInit, PoolTypes
  <1>2. Places /\ Owners /\ Quality
    BY DEF PoolInit, Places, Owners, Quality, IsInjective
  <1>3. In("count") = {} /\ In("decrement") = {} /\ Holders = {}
    BY DEF PoolInit, In, Holders
  <1>4. Cardinality(Outside) \in Nat
    BY PoolAssumption, FS_Subset, FS_CardinalityType DEF Outside
  <1>5. Counts
    <2>1. alive = {} /\ total = 0 /\ Len(idle) = 0
      BY DEF PoolInit
    <2>2. IsFiniteSet({}) /\ Cardinality({}) = 0
      BY FS_EmptySet
    <2>3. QED
      BY <1>3, <1>4, <2>1, <2>2 DEF Counts
  <1>6. QED
    BY <1>1, <1>2, <1>5 DEF PoolInv

\* How the counted sets of users change when user u goes to a place with the
\* connection c, or 0, in its hands.
Moved(u, place, c) ==
  /\ Cardinality(In("count")) \in Nat /\ Cardinality(In("decrement")) \in Nat
  /\ Cardinality(Holders) \in Nat /\ Cardinality(Outside) \in Nat
  /\ Cardinality(Outside') \in Nat
  /\ Cardinality(In("count")') = Cardinality(In("count"))
        + (IF place = "count" THEN 1 ELSE 0) - (IF doing[u] = "count" THEN 1 ELSE 0)
  /\ Cardinality(In("decrement")') = Cardinality(In("decrement"))
        + (IF place = "decrement" THEN 1 ELSE 0) - (IF doing[u] = "decrement" THEN 1 ELSE 0)
  /\ Cardinality(Outside') = Cardinality(Outside)
        + (IF place \in {"out", "decrement"} THEN 1 ELSE 0)
        - (IF doing[u] \in {"out", "decrement"} THEN 1 ELSE 0)
  /\ Cardinality(Holders') = Cardinality(Holders)
        + (IF c # 0 THEN 1 ELSE 0) - (IF held[u] # 0 THEN 1 ELSE 0)

\* A user that moves changes each count by at most one.
LEMMA Moves ==
  ASSUME PoolTypes, NEW u \in Users, NEW place, To(u, place),
         NEW c \in Nat, held' = [held EXCEPT ![u] = c]
  PROVE  Moved(u, place, c)
  <1>1. doing' = [doing EXCEPT ![u] = place]
    BY DEF To
  <1>2. /\ doing'[u] = place /\ \A v \in Users \ {u} : doing'[v] = doing[v]
        /\ held'[u] = c /\ \A v \in Users \ {u} : held'[v] = held[v]
    BY <1>1 DEF PoolTypes
  <1>3. ASSUME NEW p
        PROVE  /\ Cardinality(In(p)) \in Nat
               /\ Cardinality(In(p)') = Cardinality(In(p))
                    + (IF place = p THEN 1 ELSE 0) - (IF doing[u] = p THEN 1 ELSE 0)
    <2>1. /\ In(p) \in SUBSET Users /\ In(p)' \in SUBSET Users
          /\ \A v \in Users \ {u} : v \in In(p) <=> v \in In(p)'
          /\ u \in In(p) <=> doing[u] = p
          /\ u \in In(p)' <=> place = p
      BY <1>2 DEF In
    <2>2. QED
      BY <2>1, CountUsers
  <1>4. /\ Cardinality(Outside) \in Nat /\ Cardinality(Outside') \in Nat
        /\ Cardinality(Outside') = Cardinality(Outside)
               + (IF place \in {"out", "decrement"} THEN 1 ELSE 0)
               - (IF doing[u] \in {"out", "decrement"} THEN 1 ELSE 0)
    <2>1. /\ Outside \in SUBSET Users /\ Outside' \in SUBSET Users
          /\ \A v \in Users \ {u} : v \in Outside <=> v \in Outside'
          /\ u \in Outside <=> doing[u] \in {"out", "decrement"}
          /\ u \in Outside' <=> place \in {"out", "decrement"}
      BY <1>2 DEF Outside
    <2>2. QED
      BY <2>1, CountUsers
  <1>5. /\ Cardinality(Holders) \in Nat
        /\ Cardinality(Holders') = Cardinality(Holders)
               + (IF c # 0 THEN 1 ELSE 0) - (IF held[u] # 0 THEN 1 ELSE 0)
    <2>1. /\ Holders \in SUBSET Users /\ Holders' \in SUBSET Users
          /\ \A v \in Users \ {u} : v \in Holders <=> v \in Holders'
          /\ u \in Holders <=> held[u] # 0
          /\ u \in Holders' <=> c # 0
      BY <1>2 DEF Holders
    <2>2. QED
      BY <2>1, CountUsers
  <1>6. QED
    BY <1>3, <1>4, <1>5 DEF Moved

\* getConnection never meets a connection it has to drop: it takes the first of
\* m_conns, if there is one.
LEMMA GetFacts ==
  ASSUME PoolInv, NEW u \in Users, GetConnection(u)
  PROVE  /\ doing[u] = "out" /\ To(u, "delete") /\ UNCHANGED <<alive, conn, total>>
         /\ invalid' = invalid
         /\ \/ idle = <<>> /\ idle' = idle /\ held' = [held EXCEPT ![u] = 0]
            \/ /\ idle # <<>> /\ held' = [held EXCEPT ![u] = idle[1]]
               /\ idle' \in Seq(Conns) /\ Len(idle') = Len(idle) - 1
               /\ \A i \in 1 .. Len(idle) - 1 : idle'[i] = idle[i + 1]
  <1> DEFINE fit == {i \in DOMAIN idle : Usable(idle[i])}
             k == IF fit = {} THEN Len(idle) + 1 ELSE CHOOSE i \in fit : \A j \in fit : i <= j
  <1>1. /\ doing[u] = "out" /\ To(u, "delete")
        /\ idle' = SubSeq(idle, k + 1, Len(idle))
        /\ invalid' = [invalid EXCEPT ![u] = {idle[i] : i \in 1 .. k - 1}]
        /\ held' = [held EXCEPT ![u] = IF fit = {} THEN 0 ELSE idle[k]]
        /\ UNCHANGED <<alive, conn, total>>
    BY DEF GetConnection
  <1>2. idle \in Seq(Conns) /\ Len(idle) \in Nat /\ DOMAIN idle = 1 .. Len(idle)
    BY DEF PoolInv, PoolTypes
  <1>3. fit = DOMAIN idle
    <2>1. \A i \in DOMAIN idle : conn[idle[i]].up
      BY DEF PoolInv, Quality, Good
    <2>2. ~(0 + MaxAlive > Now)
      BY PoolAssumption
    <2>3. QED
      BY <2>1, <2>2 DEF Usable, m_createTime
  <1>4. k = 1
    <2>1. CASE idle = <<>>
      BY <1>2, <1>3, <2>1
    <2>2. CASE idle # <<>>
      <3>1. 1 \in fit /\ \A j \in fit : 1 <= j
        BY <1>2, <1>3, <2>2
      <3>2. \A i \in fit : (\A j \in fit : i <= j) => i = 1
        BY <1>2, <1>3, <3>1
      <3>3. QED
        BY <3>1, <3>2
    <2>3. QED
      BY <2>1, <2>2
  <1> HIDE DEF fit, k
  <1>5. invalid' = invalid
    <2>1. {idle[i] : i \in 1 .. k - 1} = {}
      BY <1>4
    <2>2. QED
      BY <1>1, <2>1 DEF PoolInv, PoolTypes, Places
  <1>6. idle' = SubSeq(idle, 2, Len(idle))
    BY <1>1, <1>4
  <1>7. CASE idle = <<>>
    <2>1. fit = {}
      BY <1>2, <1>3, <1>7
    <2>2. idle' = <<>>
      BY <1>2, <1>6, <1>7
    <2>3. QED
      BY <1>1, <1>5, <1>7, <2>1, <2>2
  <1>8. CASE idle # <<>>
    <2>1. fit # {}
      <3>1. 1 \in 1 .. Len(idle)
        BY <1>2, <1>8
      <3>2. QED
        BY <1>2, <1>3, <3>1
    <2>2. idle' \in Seq(Conns) /\ Len(idle') = Len(idle) - 1
          /\ \A i \in 1 .. Len(idle) - 1 : idle'[i] = idle[i + 1]
      BY <1>2, <1>6, <1>8
    <2>3. QED
      BY <1>1, <1>4, <1>5, <1>8, <2>1, <2>2
  <1>9. QED
    BY <1>7, <1>8

\* getConnection: a connection changes hands, or there is none to take.
LEMMA GetKeeps ==
  ASSUME PoolInv, NEW u \in Users, GetConnection(u)
  PROVE  PoolInv'
  <1> USE DEF PoolInv
  <1>1. /\ doing[u] = "out" /\ To(u, "delete") /\ UNCHANGED <<alive, conn, total, invalid>>
        /\ \/ idle = <<>> /\ idle' = idle /\ held' = [held EXCEPT ![u] = 0]
           \/ /\ idle # <<>> /\ held' = [held EXCEPT ![u] = idle[1]]
              /\ idle' \in Seq(Conns) /\ Len(idle') = Len(idle) - 1
              /\ \A i \in 1 .. Len(idle) - 1 : idle'[i] = idle[i + 1]
    BY GetFacts
  <1>2. held[u] = 0 /\ Len(idle) \in Nat /\ DOMAIN idle = 1 .. Len(idle) /\ idle \in Seq(Conns)
    BY <1>1 DEF Places, PoolTypes
  <1>3. doing' = [doing EXCEPT ![u] = "delete"]
    BY <1>1 DEF To
  <1>4. CASE idle = <<>>
    <2>1. idle' = idle /\ held' = held
      BY <1>1, <1>2, <1>4 DEF PoolTypes
    <2>2. PoolTypes'
      BY <1>1, <1>3, <2>1 DEF PoolTypes
    <2>3. Owners'
      BY <1>1, <2>1 DEF Owners
    <2>a. Places'
      BY <1>1, <1>2, <1>3, <2>1 DEF Places, PoolTypes
    <2>4. Quality'
      BY <1>1, <1>2, <1>3, <2>1 DEF Quality, Good, PoolTypes
    <2>5. Counts'
      <3>1. held' = [held EXCEPT ![u] = 0]
        BY <1>1, <1>4
      <3>2. Len(idle') = 0
        BY <1>4, <2>1
      <3>3. Moved(u, "delete", 0)
        BY <1>1, <3>1, Moves
      <3>4. QED
        BY <1>1, <1>2, <2>1, <3>2, <3>3 DEF Moved, Counts
    <2>6. QED
      BY <2>2, <2>3, <2>a, <2>4, <2>5
  <1>5. CASE idle # <<>>
    <2>1. /\ held' = [held EXCEPT ![u] = idle[1]]
          /\ idle' \in Seq(Conns) /\ Len(idle') = Len(idle) - 1
          /\ \A i \in 1 .. Len(idle) - 1 : idle'[i] = idle[i + 1]
      BY <1>1, <1>5
    <2>2. Len(idle) > 0 /\ DOMAIN idle' = 1 .. Len(idle) - 1 /\ idle[1] \in Conns
      BY <1>2, <1>5, <2>1
    <2>3. idle[1] \in Nat \ {0}
      BY <2>2, PoolAssumption
    <2>4. PoolTypes'
      BY <1>1, <1>3, <2>1, <2>2 DEF PoolTypes
    <2>5. Places'
      BY <1>1, <1>3, <2>1, <2>3 DEF Places, PoolTypes
    <2>6. /\ held'[u] = idle[1] /\ \A v \in Users \ {u} : held'[v] = held[v]
          /\ \A i \in DOMAIN idle' : i + 1 \in DOMAIN idle /\ idle'[i] = idle[i + 1]
          /\ 1 \in DOMAIN idle
      BY <1>2, <2>1, <2>2 DEF PoolTypes
    <2>7. Owners'
      <3>1. IsInjective(idle')
        BY <1>2, <2>2, <2>6 DEF Owners, IsInjective
      <3>2. \A i \in DOMAIN idle' : idle'[i] \in alive /\ idle'[i] # idle[1]
        BY <1>2, <2>2, <2>6 DEF Owners, IsInjective
      <3>3. \A v \in Users : held'[v] # 0 => held'[v] \in alive /\ \A i \in DOMAIN idle' : idle'[i] # held'[v]
        BY <2>6, <3>2 DEF Owners
      <3>4. \A v, w \in Users : held'[v] = held'[w] /\ held'[v] # 0 => v = w
        BY <2>6 DEF Owners
      <3>5. ASSUME NEW c \in alive
            PROVE  (\E i \in DOMAIN idle' : idle'[i] = c) \/ \E v \in Users : held'[v] = c
        <4>1. CASE c = idle[1]
          BY <2>6, <4>1
        <4>2. ASSUME NEW i \in DOMAIN idle, idle[i] = c, c # idle[1]
              PROVE  \E j \in DOMAIN idle' : idle'[j] = c
          <5>1. i - 1 \in DOMAIN idle' /\ (i - 1) + 1 = i
            BY <1>2, <2>2, <4>2
          <5>2. idle'[i - 1] = c
            BY <2>6, <4>2, <5>1
          <5>3. QED
            BY <5>1, <5>2
        <4>3. ASSUME NEW v \in Users, held[v] = c PROVE held'[v] = c
          <5>1. c # 0
            BY PoolAssumption DEF PoolTypes
          <5>2. QED
            BY <1>2, <2>6, <4>3, <5>1
        <4>4. QED
          BY <4>1, <4>2, <4>3 DEF Owners
      <3>6. QED
        BY <1>1, <3>1, <3>2, <3>3, <3>4, <3>5 DEF Owners
    <2>8. Quality'
      <3>1. Good(conn[idle[1]])
        BY <2>6 DEF Quality
      <3>2. \A i \in DOMAIN idle' : Good(conn[idle'[i]])
        BY <2>6 DEF Quality
      <3>3. \A v \in Users : held'[v] # 0 /\ doing'[v] \in {"delete", "subtract", "count", "request", "push"}
              => Good(conn[held'[v]])
        BY <1>3, <2>6, <3>1 DEF Quality, PoolTypes
      <3>4. QED
        BY <1>1, <3>2, <3>3 DEF Quality
    <2>9. Counts'
      <3>0. doing[u] = "out" /\ held[u] = 0 /\ idle[1] # 0
        BY <1>1, <1>2, <2>3
      <3>1. Moved(u, "delete", idle[1])
        BY <1>1, <2>1, <2>3, Moves
      <3>2. /\ Cardinality(In("count")') = Cardinality(In("count"))
            /\ Cardinality(In("decrement")') = Cardinality(In("decrement"))
            /\ Cardinality(Holders') = Cardinality(Holders) + 1
            /\ Cardinality(Outside') = Cardinality(Outside) - 1
            /\ Cardinality(Outside) \in Nat /\ Cardinality(Holders) \in Nat
        BY <3>0, <3>1 DEF Moved
      <3>3. QED
        BY <1>1, <1>2, <2>1, <3>2 DEF Counts
    <2>10. QED
      BY <2>4, <2>5, <2>7, <2>8, <2>9
  <1>6. QED
    BY <1>4, <1>5

\* Nothing to delete or to subtract, and a connect that fails: the user moves on
\* and nothing else changes.
LEMMA WalkKeeps ==
  ASSUME PoolInv, NEW u \in Users,
         DeleteInvalid(u) \/ SubtractInvalid(u) \/ ConnectFails(u)
  PROVE  PoolInv'
  <1> USE DEF PoolInv
  <1>0. invalid[u] = {}
    BY DEF Places
  <1>1. UNCHANGED <<idle, alive, conn, total, held, invalid>>
    <2>1. CASE DeleteInvalid(u)
      <3>1. conn' = [c \in Conns |-> conn[c]] /\ alive' = alive /\ UNCHANGED <<idle, total, held, invalid>>
        BY <1>0, <2>1 DEF DeleteInvalid
      <3>2. conn' = conn
        BY <3>1 DEF PoolTypes
      <3>3. QED
        BY <3>1, <3>2
    <2>2. CASE SubtractInvalid(u)
      <3>1. total' = total - 0
        BY <1>0, <2>2, FS_EmptySet DEF SubtractInvalid
      <3>2. total' = total
        BY <3>1 DEF Counts
      <3>3. invalid' = invalid
        BY <1>0, <2>2 DEF SubtractInvalid, PoolTypes
      <3>4. QED
        BY <2>2, <3>2, <3>3 DEF SubtractInvalid
    <2>3. CASE ConnectFails(u)
      BY <2>3 DEF ConnectFails
    <2>4. QED
      BY <2>1, <2>2, <2>3
  <1>2. PICK place \in {"subtract", "connect", "request", "out"} :
          /\ To(u, place)
          /\ \/ doing[u] = "delete" /\ place = "subtract"
             \/ doing[u] = "subtract" /\ place = "connect" /\ held[u] = 0
             \/ doing[u] = "subtract" /\ place = "request" /\ held[u] # 0
             \/ doing[u] = "connect" /\ place = "out"
    BY DEF DeleteInvalid, SubtractInvalid, ConnectFails
  <1>3. doing' = [doing EXCEPT ![u] = place]
    BY <1>2 DEF To
  <1>4. PoolTypes'
    BY <1>1, <1>3 DEF PoolTypes
  <1>5. Places'
    BY <1>1, <1>2, <1>3 DEF Places, PoolTypes
  <1>6. Owners'
    BY <1>1 DEF Owners
  <1>7. Quality'
    BY <1>1, <1>2, <1>3 DEF Quality, Good, PoolTypes
  <1>8. Counts'
    <2>0. held[u] \in Conns \cup {0} /\ held' = [held EXCEPT ![u] = held[u]]
      BY <1>1 DEF PoolTypes
    <2>1. held[u] \in Nat
      BY <2>0, PoolAssumption
    <2>2. Moved(u, place, held[u])
      BY <1>2, <2>0, <2>1, Moves
    <2>3. /\ Cardinality(In("count")') = Cardinality(In("count"))
          /\ Cardinality(In("decrement")') = Cardinality(In("decrement"))
          /\ Cardinality(Holders') = Cardinality(Holders)
          /\ Cardinality(Outside') >= Cardinality(Outside)
          /\ Cardinality(Outside) \in Nat /\ Cardinality(Holders) \in Nat
          /\ Cardinality(Outside') \in Nat
      BY <1>2, <2>2 DEF Moved
    <2>4. Len(idle) \in Nat
      BY DEF PoolTypes
    <2>5. QED
      BY <1>1, <2>3, <2>4 DEF Counts
  <1>9. QED
    BY <1>4, <1>5, <1>6, <1>7, <1>8

\* A new connection, in the hands of the user that made it.
LEMMA NewKeeps ==
  ASSUME PoolInv, NEW u \in Users, NewConnection(u)
  PROVE  PoolInv'
  <1> USE DEF PoolInv
  <1>1. PICK c \in Conns \ alive :
          /\ alive' = alive \cup {c}
          /\ conn' = [conn EXCEPT ![c] = [requests |-> 0, up |-> TRUE]]
          /\ held' = [held EXCEPT ![u] = c]
    <2> DEFINE S == Conns \ alive
               m == CHOOSE x \in S : \A y \in S : x <= y
    <2>1. S # {} /\ S \subseteq Nat
      BY PoolAssumption DEF NewConnection, PoolTypes
    <2>2. PICK x \in S : \A y \in S : ~(<<y, x>> \in OpToRel(<, Nat))
      BY <2>1, NatLessThanWellFounded, WFMin
    <2>3. \A y \in S : x <= y
      <3> SUFFICES ASSUME NEW y \in S PROVE x <= y
        OBVIOUS
      <3>1. ~(y < x)
        BY <2>1, <2>2 DEF OpToRel
      <3>2. QED
        BY <2>1, <3>1
    <2>4. m \in S
      BY <2>3
    <2>5. /\ alive' = alive \cup {m}
          /\ conn' = [conn EXCEPT ![m] = [requests |-> 0, up |-> TRUE]]
          /\ held' = [held EXCEPT ![u] = m]
      BY DEF NewConnection
    <2> HIDE DEF m
    <2>6. QED
      BY <2>4, <2>5
  <1>2. doing[u] = "connect" /\ To(u, "count") /\ UNCHANGED <<idle, total, invalid>>
    BY DEF NewConnection
  <1>3. doing' = [doing EXCEPT ![u] = "count"]
    BY <1>2 DEF To
  <1>4. held[u] = 0 /\ c \in Nat \ {0}
    BY <1>2, PoolAssumption DEF Places
  <1>5. PoolTypes'
    <2>1. [requests |-> 0, up |-> TRUE] \in [requests : 0 .. MaxRequest, up : BOOLEAN]
      BY PoolAssumption
    <2>2. conn' \in [Conns -> [requests : 0 .. MaxRequest, up : BOOLEAN]]
      BY <1>1, <2>1 DEF PoolTypes
    <2>3. QED
      BY <1>1, <1>2, <1>3, <2>2 DEF PoolTypes
  <1>6. Places'
    BY <1>1, <1>2, <1>3, <1>4 DEF Places, PoolTypes
  <1>7. /\ held'[u] = c /\ \A v \in Users \ {u} : held'[v] = held[v]
        /\ \A v \in Users : held[v] # c
        /\ \A i \in DOMAIN idle : idle[i] # c
    BY <1>1, <1>4 DEF PoolTypes, Owners
  <1>8. Owners'
    <2>1. IsInjective(idle') /\ \A i \in DOMAIN idle' : idle'[i] \in alive'
      BY <1>1, <1>2 DEF Owners
    <2>2. \A v \in Users : held'[v] # 0 =>
            held'[v] \in alive' /\ \A i \in DOMAIN idle' : idle'[i] # held'[v]
      BY <1>1, <1>2, <1>7 DEF Owners
    <2>3. \A v, w \in Users : held'[v] = held'[w] /\ held'[v] # 0 => v = w
      BY <1>7 DEF Owners
    <2>4. ASSUME NEW d \in alive'
          PROVE  (\E i \in DOMAIN idle' : idle'[i] = d) \/ \E v \in Users : held'[v] = d
      <3>1. CASE d = c
        BY <1>7, <3>1
      <3>2. CASE d # c
        <4>1. d \in alive /\ d # 0
          BY <1>1, <3>2, PoolAssumption DEF PoolTypes
        <4>2. QED
          BY <1>2, <1>4, <1>7, <4>1 DEF Owners
      <3>3. QED
        BY <3>1, <3>2
    <2>5. QED
      BY <2>1, <2>2, <2>3, <2>4 DEF Owners
  <1>9. Quality'
    <2>1. /\ conn'[c] = [requests |-> 0, up |-> TRUE]
          /\ \A d \in Conns \ {c} : conn'[d] = conn[d]
      BY <1>1 DEF PoolTypes
    <2>2. Good(conn'[c])
      BY <2>1, PoolAssumption DEF Good
    <2>3. \A i \in DOMAIN idle : idle[i] \in Conns
      BY DEF PoolTypes
    <2>4. \A i \in DOMAIN idle' : Good(conn'[idle'[i]])
      BY <1>2, <1>7, <2>1, <2>3 DEF Quality
    <2>5. ASSUME NEW v \in Users, held'[v] # 0,
                 doing'[v] \in {"delete", "subtract", "count", "request", "push"}
          PROVE  Good(conn'[held'[v]])
      <3>1. CASE v = u
        BY <1>7, <2>2, <3>1
      <3>2. CASE v # u
        <4>1. held'[v] = held[v] /\ doing'[v] = doing[v] /\ held[v] \in Conns \ {c}
          BY <1>3, <1>7, <2>5, <3>2 DEF PoolTypes
        <4>2. Good(conn[held[v]])
          BY <2>5, <4>1 DEF Quality
        <4>3. QED
          BY <2>1, <4>1, <4>2
      <3>3. QED
        BY <3>1, <3>2
    <2>6. QED
      BY <2>4, <2>5 DEF Quality
  <1>10. Counts'
    <2>1. Moved(u, "count", c)
      BY <1>1, <1>2, <1>4, Moves
    <2>2. /\ Cardinality(In("count")') = Cardinality(In("count")) + 1
          /\ Cardinality(In("decrement")') = Cardinality(In("decrement"))
          /\ Cardinality(Holders') = Cardinality(Holders) + 1
          /\ Cardinality(Outside') = Cardinality(Outside)
          /\ Cardinality(In("count")) \in Nat /\ Cardinality(In("decrement")) \in Nat
          /\ Cardinality(Outside) \in Nat /\ Cardinality(Holders) \in Nat
      BY <1>2, <1>4, <2>1 DEF Moved
    <2>3. IsFiniteSet(alive') /\ Cardinality(alive') = Cardinality(alive) + 1
          /\ Cardinality(alive) \in Nat
      BY <1>1, FS_AddElement, FS_CardinalityType DEF Counts
    <2>4. Len(idle) \in Nat
      BY DEF PoolTypes
    <2>5. /\ total \in Int /\ Len(idle) <= Cardinality(Outside)
          /\ total + Cardinality(In("count")) = Cardinality(alive) + Cardinality(In("decrement"))
          /\ Cardinality(alive) = Len(idle) + Cardinality(Holders)
      BY DEF Counts
    <2>6. total' = total /\ Len(idle') = Len(idle)
      BY <1>2
    <2>7. total' \in Int /\ Len(idle') <= Cardinality(Outside')
      BY <2>2, <2>5, <2>6
    <2>8. total' + Cardinality(In("count")') = Cardinality(alive') + Cardinality(In("decrement")')
      BY <2>2, <2>3, <2>5, <2>6, SMTT(30)
    <2>9. Cardinality(alive') = Len(idle') + Cardinality(Holders')
      BY <2>2, <2>3, <2>4, <2>5, <2>6
    <2>10. QED
      BY <2>3, <2>7, <2>8, <2>9 DEF Counts
  <1>11. QED
    BY <1>5, <1>6, <1>8, <1>9, <1>10

\* The new connection is counted.
LEMMA CountKeeps ==
  ASSUME PoolInv, NEW u \in Users, CountNew(u)
  PROVE  PoolInv'
  <1> USE DEF PoolInv
  <1>1. doing[u] = "count" /\ To(u, "request") /\ total' = total + 1
        /\ UNCHANGED <<idle, alive, conn, held, invalid>>
    BY DEF CountNew
  <1>2. doing' = [doing EXCEPT ![u] = "request"]
    BY <1>1 DEF To
  <1>3. PoolTypes'
    BY <1>1, <1>2 DEF PoolTypes
  <1>4. Places'
    BY <1>1, <1>2 DEF Places, PoolTypes
  <1>5. Owners'
    BY <1>1 DEF Owners
  <1>6. Quality'
    BY <1>1, <1>2 DEF Quality, Good, PoolTypes
  <1>7. Counts'
    <2>0. held[u] \in Conns \cup {0} /\ held' = [held EXCEPT ![u] = held[u]]
      BY <1>1 DEF PoolTypes
    <2>1. held[u] \in Nat
      BY <2>0, PoolAssumption
    <2>2. Moved(u, "request", held[u])
      BY <1>1, <2>0, <2>1, Moves
    <2>3. /\ Cardinality(In("count")') = Cardinality(In("count")) - 1
          /\ Cardinality(In("decrement")') = Cardinality(In("decrement"))
          /\ Cardinality(Holders') = Cardinality(Holders)
          /\ Cardinality(Outside') = Cardinality(Outside)
          /\ Cardinality(In("count")) \in Nat /\ Cardinality(Outside) \in Nat
      BY <1>1, <2>2 DEF Moved
    <2>4. total' \in Int /\ Len(idle') <= Cardinality(Outside')
      BY <1>1, <2>3 DEF Counts
    <2>5. total' + Cardinality(In("count")') = Cardinality(alive') + Cardinality(In("decrement")')
      BY <1>1, <2>3 DEF Counts
    <2>6. QED
      BY <1>1, <2>3, <2>4, <2>5 DEF Counts
  <1>8. QED
    BY <1>3, <1>4, <1>5, <1>6, <1>7

\* A request changes nothing but whether its connection is up.
LEMMA RequestKeeps ==
  ASSUME PoolInv, NEW u \in Users, DoRequest(u)
  PROVE  PoolInv'
  <1> USE DEF PoolInv
  <1>1. PICK ok \in BOOLEAN : conn' = [conn EXCEPT ![held[u]].up = ok]
    BY DEF DoRequest
  <1>2. doing[u] = "request" /\ To(u, "release") /\ UNCHANGED <<idle, alive, total, held, invalid>>
    BY DEF DoRequest
  <1>3. doing' = [doing EXCEPT ![u] = "release"]
    BY <1>2 DEF To
  <1>4. held[u] # 0 /\ held[u] \in Conns
    BY <1>2 DEF Places, PoolTypes
  <1>5. \A c \in Conns \ {held[u]} : conn'[c] = conn[c]
    BY <1>1 DEF PoolTypes
  <1>6. PoolTypes'
    <2>1. conn' \in [Conns -> [requests : 0 .. MaxRequest, up : BOOLEAN]]
      BY <1>1 DEF PoolTypes
    <2>2. QED
      BY <1>2, <1>3, <2>1 DEF PoolTypes
  <1>7. Places'
    BY <1>2, <1>3 DEF Places, PoolTypes
  <1>8. Owners'
    BY <1>2 DEF Owners
  <1>9. Quality'
    <2>1. ASSUME NEW i \in DOMAIN idle PROVE Good(conn'[idle[i]])
      <3>1. idle[i] \in Conns \ {held[u]}
        BY <1>4 DEF Owners, PoolTypes
      <3>2. QED
        BY <1>5, <3>1 DEF Quality
    <2>2. ASSUME NEW v \in Users, held[v] # 0,
                 doing'[v] \in {"delete", "subtract", "count", "request", "push"}
          PROVE  Good(conn'[held[v]])
      <3>1. v # u /\ doing'[v] = doing[v]
        BY <1>3, <2>2 DEF PoolTypes
      <3>2. held[v] \in Conns \ {held[u]}
        BY <1>4, <2>2, <3>1 DEF Owners, PoolTypes
      <3>3. QED
        BY <1>5, <2>2, <3>1, <3>2 DEF Quality
    <2>3. QED
      BY <1>2, <2>1, <2>2 DEF Quality
  <1>10. Counts'
    <2>0. held' = [held EXCEPT ![u] = held[u]]
      BY <1>2 DEF PoolTypes
    <2>1. held[u] \in Nat
      BY <1>4, PoolAssumption
    <2>2. Moved(u, "release", held[u])
      BY <1>2, <2>0, <2>1, Moves
    <2>3. /\ Cardinality(In("count")') = Cardinality(In("count"))
          /\ Cardinality(In("decrement")') = Cardinality(In("decrement"))
          /\ Cardinality(Holders') = Cardinality(Holders)
          /\ Cardinality(Outside') = Cardinality(Outside)
      BY <1>2, <2>2 DEF Moved
    <2>4. QED
      BY <1>2, <2>3 DEF Counts
  <1>11. QED
    BY <1>6, <1>7, <1>8, <1>9, <1>10

\* ReleasePtr deletes the connection.
LEMMA DeleteKeeps ==
  ASSUME PoolInv, NEW u \in Users, doing[u] = "release", To(u, "decrement"),
         alive' = alive \ {held[u]}, conn' = [conn EXCEPT ![held[u]] = NoConn],
         held' = [held EXCEPT ![u] = 0], UNCHANGED <<idle, total, invalid>>
  PROVE  PoolInv'
  <1> USE DEF PoolInv
  <1>1. doing' = [doing EXCEPT ![u] = "decrement"]
    BY DEF To
  <1>2. held[u] # 0 /\ held[u] \in Conns /\ held[u] \in alive
    BY DEF Places, PoolTypes, Owners
  <1>3. /\ held'[u] = 0 /\ \A v \in Users \ {u} : held'[v] = held[v]
        /\ \A v \in Users : held'[v] # held[u]
        /\ \A i \in DOMAIN idle : idle[i] # held[u]
    BY <1>2 DEF PoolTypes, Owners
  <1>4. \A c \in Conns \ {held[u]} : conn'[c] = conn[c]
    BY DEF PoolTypes
  <1>5. PoolTypes'
    <2>1. NoConn \in [requests : 0 .. MaxRequest, up : BOOLEAN]
      BY PoolAssumption DEF NoConn
    <2>2. conn' \in [Conns -> [requests : 0 .. MaxRequest, up : BOOLEAN]]
      BY <2>1 DEF PoolTypes
    <2>3. QED
      BY <1>1, <2>2 DEF PoolTypes
  <1>6. Places'
    BY <1>1 DEF Places, PoolTypes
  <1>7. Owners'
    <2>1. IsInjective(idle') /\ \A i \in DOMAIN idle' : idle'[i] \in alive'
      BY <1>3 DEF Owners
    <2>2. \A v \in Users : held'[v] # 0 =>
            held'[v] \in alive' /\ \A i \in DOMAIN idle' : idle'[i] # held'[v]
      BY <1>3 DEF Owners
    <2>3. \A v, w \in Users : held'[v] = held'[w] /\ held'[v] # 0 => v = w
      BY <1>3 DEF Owners
    <2>4. \A c \in alive' : (\E i \in DOMAIN idle' : idle'[i] = c) \/ \E v \in Users : held'[v] = c
      BY <1>3 DEF Owners
    <2>5. QED
      BY <2>1, <2>2, <2>3, <2>4 DEF Owners
  <1>8. Quality'
    <2>1. ASSUME NEW i \in DOMAIN idle PROVE Good(conn'[idle[i]])
      <3>1. idle[i] \in Conns \ {held[u]}
        BY <1>3 DEF PoolTypes
      <3>2. QED
        BY <1>4, <3>1 DEF Quality
    <2>2. ASSUME NEW v \in Users, held'[v] # 0,
                 doing'[v] \in {"delete", "subtract", "count", "request", "push"}
          PROVE  Good(conn'[held'[v]])
      <3>1. v # u /\ doing'[v] = doing[v] /\ held'[v] = held[v]
        BY <1>1, <1>3, <2>2 DEF PoolTypes
      <3>2. held[v] \in Conns \ {held[u]}
        BY <1>3, <2>2, <3>1 DEF PoolTypes
      <3>3. Good(conn[held[v]])
        BY <2>2, <3>1 DEF Quality
      <3>4. QED
        BY <1>4, <3>1, <3>2, <3>3
    <2>3. QED
      BY <2>1, <2>2 DEF Quality
  <1>9. Counts'
    <2>1. Moved(u, "decrement", 0)
      BY Moves
    <2>2. /\ Cardinality(In("count")') = Cardinality(In("count"))
          /\ Cardinality(In("decrement")') = Cardinality(In("decrement")) + 1
          /\ Cardinality(Holders') = Cardinality(Holders) - 1
          /\ Cardinality(Outside') = Cardinality(Outside) + 1
          /\ Cardinality(In("count")) \in Nat /\ Cardinality(In("decrement")) \in Nat
          /\ Cardinality(Outside) \in Nat /\ Cardinality(Holders) \in Nat
      BY <1>2, <2>1 DEF Moved
    <2>3. IsFiniteSet(alive') /\ Cardinality(alive') = Cardinality(alive) - 1
          /\ Cardinality(alive) \in Nat
      BY <1>2, FS_RemoveElement, FS_CardinalityType DEF Counts
    <2>4. Len(idle) \in Nat /\ Len(idle') = Len(idle) /\ total' = total
      BY DEF PoolTypes
    <2>5. total' \in Int /\ Len(idle') <= Cardinality(Outside')
      BY <2>2, <2>4 DEF Counts
    <2>6. total' + Cardinality(In("count")') = Cardinality(alive') + Cardinality(In("decrement")')
      BY <2>2, <2>3, <2>4 DEF Counts
    <2>7. Cardinality(alive') = Len(idle') + Cardinality(Holders')
      BY <2>2, <2>3, <2>4 DEF Counts
    <2>8. QED
      BY <2>3, <2>5, <2>6, <2>7 DEF Counts
  <1>10. QED
    BY <1>5, <1>6, <1>7, <1>8, <1>9

\* ReleasePtr: a connection that is not deleted is good for another request.
LEMMA ReleaseKeeps ==
  ASSUME PoolInv, NEW u \in Users, Release(u)
  PROVE  PoolInv'
  <1> USE DEF PoolInv
  <1>1. doing[u] = "release" /\ UNCHANGED <<idle, total, invalid>>
    BY DEF Release
  <1>2. held[u] # 0 /\ held[u] \in Conns
    BY <1>1 DEF Places, PoolTypes
  <1>3. CASE To(u, "decrement") /\ alive' = alive \ {held[u]}
             /\ conn' = [conn EXCEPT ![held[u]] = NoConn] /\ held' = [held EXCEPT ![u] = 0]
    BY <1>1, <1>3, DeleteKeeps
  <1>4. CASE /\ conn[held[u]].up /\ ~(conn[held[u]].requests + 1 >= MaxRequest)
             /\ To(u, "push") /\ conn' = [conn EXCEPT ![held[u]].requests = conn[held[u]].requests + 1]
             /\ UNCHANGED <<alive, held>>
    <2>1. doing' = [doing EXCEPT ![u] = "push"]
      BY <1>4 DEF To
    <2>2. \A c \in Conns \ {held[u]} : conn'[c] = conn[c]
      BY <1>4 DEF PoolTypes
    <2>3. conn[held[u]].requests \in Nat /\ conn[held[u]].requests + 1 < MaxRequest
      BY <1>2, <1>4, PoolAssumption DEF PoolTypes
    <2>4. PoolTypes'
      <3>1. conn[held[u]].requests + 1 \in 0 .. MaxRequest
        BY <2>3, PoolAssumption
      <3>2. conn' \in [Conns -> [requests : 0 .. MaxRequest, up : BOOLEAN]]
        BY <1>4, <3>1, ZenonT(60) DEF PoolTypes
      <3>3. QED
        BY <1>1, <1>4, <2>1, <3>2 DEF PoolTypes
    <2>5. Places'
      BY <1>1, <1>2, <1>4, <2>1 DEF Places, PoolTypes
    <2>6. Owners'
      BY <1>1, <1>4 DEF Owners
    <2>7. Quality'
      <3>1. Good(conn'[held[u]])
        <4>1. conn'[held[u]].up = conn[held[u]].up
              /\ conn'[held[u]].requests = conn[held[u]].requests + 1
          BY <1>2, <1>4 DEF PoolTypes
        <4>2. QED
          BY <1>4, <2>3, <4>1 DEF Good
      <3>2. ASSUME NEW i \in DOMAIN idle PROVE Good(conn'[idle[i]])
        <4>1. idle[i] \in Conns \ {held[u]}
          BY <1>2 DEF Owners, PoolTypes
        <4>2. QED
          BY <2>2, <4>1 DEF Quality
      <3>3. ASSUME NEW v \in Users, held[v] # 0, v # u,
                   doing'[v] \in {"delete", "subtract", "count", "request", "push"}
            PROVE  Good(conn'[held[v]])
        <4>1. doing'[v] = doing[v]
          BY <2>1, <3>3 DEF PoolTypes
        <4>2. held[v] \in Conns \ {held[u]}
          BY <1>2, <3>3 DEF Owners, PoolTypes
        <4>3. QED
          BY <2>2, <3>3, <4>1, <4>2 DEF Quality
      <3>4. QED
        BY <1>1, <1>4, <3>1, <3>2, <3>3 DEF Quality
    <2>8. Counts'
      <3>0. held' = [held EXCEPT ![u] = held[u]]
        BY <1>4 DEF PoolTypes
      <3>1. held[u] \in Nat
        BY <1>2, PoolAssumption
      <3>2. Moved(u, "push", held[u])
        BY <1>4, <3>0, <3>1, Moves
      <3>3. /\ Cardinality(In("count")') = Cardinality(In("count"))
            /\ Cardinality(In("decrement")') = Cardinality(In("decrement"))
            /\ Cardinality(Holders') = Cardinality(Holders)
            /\ Cardinality(Outside') = Cardinality(Outside)
        BY <1>1, <3>2 DEF Moved
      <3>4. QED
        BY <1>1, <1>4, <3>3 DEF Counts
    <2>9. QED
      BY <2>4, <2>5, <2>6, <2>7, <2>8
  <1>5. QED
    BY <1>3, <1>4 DEF Release

\* The deleted connection leaves the count.
LEMMA DecrementKeeps ==
  ASSUME PoolInv, NEW u \in Users, Decrement(u)
  PROVE  PoolInv'
  <1> USE DEF PoolInv
  <1>1. doing[u] = "decrement" /\ To(u, "out") /\ total' = total - 1
        /\ UNCHANGED <<idle, alive, conn, held, invalid>>
    BY DEF Decrement
  <1>2. doing' = [doing EXCEPT ![u] = "out"]
    BY <1>1 DEF To
  <1>3. PoolTypes'
    BY <1>1, <1>2 DEF PoolTypes
  <1>4. Places'
    BY <1>1, <1>2 DEF Places, PoolTypes
  <1>5. Owners'
    BY <1>1 DEF Owners
  <1>6. Quality'
    BY <1>1, <1>2 DEF Quality, Good, PoolTypes
  <1>7. Counts'
    <2>0. held[u] = 0 /\ held' = [held EXCEPT ![u] = 0]
      BY <1>1 DEF PoolTypes, Places
    <2>1. To(u, "out") /\ 0 \in Nat /\ held' = [held EXCEPT ![u] = 0] /\ PoolTypes
      BY <1>1, <2>0
    <2>2. Moved(u, "out", 0)
      BY ONLY <2>1, u \in Users, Moves
    <2>3. /\ Cardinality(In("count")') = Cardinality(In("count"))
          /\ Cardinality(In("decrement")') = Cardinality(In("decrement")) - 1
          /\ Cardinality(Holders') = Cardinality(Holders)
          /\ Cardinality(Outside') = Cardinality(Outside)
          /\ Cardinality(In("count")) \in Nat /\ Cardinality(In("decrement")) \in Nat
      BY <1>1, <2>0, <2>2 DEF Moved
    <2>4. total' \in Int /\ Len(idle') <= Cardinality(Outside')
      BY <1>1, <2>3 DEF Counts
    <2>5. Cardinality(alive) \in Nat
      BY FS_CardinalityType DEF Counts
    <2>6. total' + Cardinality(In("count")') = Cardinality(alive') + Cardinality(In("decrement")')
      BY <1>1, <2>3, <2>5 DEF Counts
    <2>7. QED
      BY <1>1, <2>3, <2>4, <2>6 DEF Counts
  <1>8. QED
    BY <1>3, <1>4, <1>5, <1>6, <1>7

\* A connection goes back to the end of m_conns.
LEMMA PushKeeps ==
  ASSUME PoolInv, NEW u \in Users, PushBack(u)
  PROVE  PoolInv'
  <1> USE DEF PoolInv
  <1>1. /\ doing[u] = "push" /\ To(u, "out") /\ held' = [held EXCEPT ![u] = 0]
        /\ idle' = Append(idle, held[u]) /\ UNCHANGED <<alive, conn, total, invalid>>
    BY DEF PushBack
  <1>2. doing' = [doing EXCEPT ![u] = "out"]
    BY <1>1 DEF To
  <1>3. held[u] # 0 /\ held[u] \in Conns /\ held[u] \in alive
    BY <1>1 DEF Places, PoolTypes, Owners
  <1>4. /\ idle \in Seq(Conns) /\ Len(idle) \in Nat /\ DOMAIN idle = 1 .. Len(idle)
        /\ idle' \in Seq(Conns) /\ Len(idle') = Len(idle) + 1
        /\ DOMAIN idle' = 1 .. Len(idle) + 1 /\ idle'[Len(idle) + 1] = held[u]
        /\ \A i \in DOMAIN idle : idle'[i] = idle[i]
    BY <1>1, <1>3 DEF PoolTypes
  <1>5. \A i \in DOMAIN idle' : i \in DOMAIN idle \/ i = Len(idle) + 1
    BY <1>4
  <1>6. /\ held'[u] = 0 /\ \A v \in Users \ {u} : held'[v] = held[v]
        /\ \A v \in Users : held'[v] # held[u]
        /\ \A i \in DOMAIN idle : idle[i] # held[u]
    BY <1>1, <1>3 DEF PoolTypes, Owners
  <1>7. PoolTypes'
    BY <1>1, <1>2, <1>4 DEF PoolTypes
  <1>8. Places'
    BY <1>1, <1>2 DEF Places, PoolTypes
  <1>9. Owners'
    <2>1. IsInjective(idle')
      BY <1>4, <1>5, <1>6 DEF Owners, IsInjective
    <2>2. \A i \in DOMAIN idle' : idle'[i] \in alive'
      BY <1>1, <1>3, <1>4, <1>5 DEF Owners
    <2>3. \A v \in Users : held'[v] # 0 =>
            held'[v] \in alive' /\ \A i \in DOMAIN idle' : idle'[i] # held'[v]
      BY <1>1, <1>4, <1>5, <1>6 DEF Owners
    <2>4. \A v, w \in Users : held'[v] = held'[w] /\ held'[v] # 0 => v = w
      BY <1>6 DEF Owners
    <2>5. Len(idle) + 1 \in DOMAIN idle' /\ \A i \in DOMAIN idle : i \in DOMAIN idle'
      BY <1>4
    <2>6. \A c \in alive' : (\E i \in DOMAIN idle' : idle'[i] = c) \/ \E v \in Users : held'[v] = c
      BY <1>1, <1>4, <1>6, <2>5 DEF Owners
    <2>7. QED
      BY <2>1, <2>2, <2>3, <2>4, <2>6 DEF Owners
  <1>10. Quality'
    <2>1. Good(conn[held[u]])
      BY <1>1, <1>3 DEF Quality
    <2>2. \A i \in DOMAIN idle' : Good(conn[idle'[i]])
      BY <1>4, <1>5, <2>1 DEF Quality
    <2>3. \A v \in Users : held'[v] # 0 /\ doing'[v] \in {"delete", "subtract", "count", "request", "push"}
            => Good(conn[held'[v]])
      BY <1>2, <1>6 DEF Quality, PoolTypes
    <2>4. QED
      BY <1>1, <2>2, <2>3 DEF Quality
  <1>11. Counts'
    <2>1. Moved(u, "out", 0)
      BY <1>1, Moves
    <2>2. /\ Cardinality(In("count")') = Cardinality(In("count"))
          /\ Cardinality(In("decrement")') = Cardinality(In("decrement"))
          /\ Cardinality(Holders') = Cardinality(Holders) - 1
          /\ Cardinality(Outside') = Cardinality(Outside) + 1
          /\ Cardinality(Outside) \in Nat /\ Cardinality(Holders) \in Nat
      BY <1>1, <1>3, <2>1 DEF Moved
    <2>3. Len(idle') <= Cardinality(Outside')
      BY <1>4, <2>2 DEF Counts
    <2>4. Cardinality(alive') = Len(idle') + Cardinality(Holders')
      BY <1>1, <1>4, <2>2 DEF Counts
    <2>5. QED
      BY <1>1, <2>2, <2>3, <2>4 DEF Counts
  <1>12. QED
    BY <1>7, <1>8, <1>9, <1>10, <1>11

\* No step of a user breaks the invariant.
LEMMA PoolStep == PoolInv /\ [PoolNext]_poolVars => PoolInv'
  <1> SUFFICES ASSUME PoolInv, [PoolNext]_poolVars PROVE PoolInv'
    OBVIOUS
  <1>1. CASE UNCHANGED poolVars
    BY <1>1 DEF poolVars, PoolInv, PoolTypes, Places, Owners, Quality, Counts, Good, In, Holders, Outside
  <1>2. CASE PoolNext
    <2>1. PICK u \in Users :
            \/ GetConnection(u) \/ DeleteInvalid(u) \/ SubtractInvalid(u) \/ ConnectFails(u)
            \/ NewConnection(u) \/ CountNew(u) \/ DoRequest(u) \/ Release(u) \/ Decrement(u)
            \/ PushBack(u)
      BY <1>2 DEF PoolNext
    <2>2. QED
      BY <2>1, GetKeeps, WalkKeeps, NewKeeps, CountKeeps, RequestKeeps, ReleaseKeeps,
         DecrementKeeps, PushKeeps
  <1>3. QED
    BY <1>1, <1>2

-----------------------------------------------------------------------------
(***************************************************************************)
(* No connection is lost and none is in two hands, and m_total counts what *)
(* exists, whatever the users' steps between the mutex and the counter.    *)
(***************************************************************************)
THEOREM ConnectionsCounted == PoolSpec => []PoolCount
  <1>1. PoolInv => PoolCount
    <2> SUFFICES ASSUME PoolInv PROVE PoolCount
      OBVIOUS
    <2> USE DEF PoolInv
    <2>1. Range(idle) \subseteq alive
      BY DEF Owners, Range
    <2>2. ASSUME NEW c \in alive
          PROVE  Cardinality({u \in Users : held[u] = c \/ (doing[u] = "delete" /\ c \in invalid[u])})
                   = (IF c \in Range(idle) THEN 0 ELSE 1)
      <3> DEFINE hands == {u \in Users : held[u] = c \/ (doing[u] = "delete" /\ c \in invalid[u])}
      <3>1. c # 0 /\ hands = {u \in Users : held[u] = c}
        BY PoolAssumption DEF Places, PoolTypes
      <3>2. CASE c \in Range(idle)
        <4>1. hands = {}
          BY <3>1, <3>2 DEF Owners, Range
        <4>2. QED
          BY <3>2, <4>1, FS_EmptySet
      <3>3. CASE c \notin Range(idle)
        <4>1. PICK u \in Users : held[u] = c
          BY <3>3 DEF Owners, Range
        <4>2. hands = {u}
          BY <3>1, <4>1 DEF Owners
        <4>3. QED
          BY <3>3, <4>2, FS_Singleton
      <3>4. QED
        BY <3>2, <3>3
    <2>3. {p \in In("subtract") \X Conns : p[2] \in invalid[p[1]]} = {}
      BY DEF In, Places
    <2>4. Cardinality({p \in In("subtract") \X Conns : p[2] \in invalid[p[1]]}) = 0
      BY <2>3, FS_EmptySet
    <2>5. Cardinality(alive) \in Nat /\ Cardinality(In("decrement")) \in Nat
      <3>1. IsFiniteSet(In("decrement"))
        BY PoolAssumption, FS_Subset DEF In
      <3>2. QED
        BY <3>1, FS_CardinalityType DEF Counts
    <2>6. total + Cardinality(In("count"))
            = Cardinality(alive) + Cardinality(In("decrement"))
                + Cardinality({p \in In("subtract") \X Conns : p[2] \in invalid[p[1]]})
      BY <2>4, <2>5 DEF Counts
    <2>7. IsInjective(idle)
      BY DEF Owners
    <2>8. QED
      BY <2>1, <2>2, <2>6, <2>7 DEF PoolCount
  <1>2. QED
    BY <1>1, PoolInitial, PoolStep, PTL DEF PoolSpec

(***************************************************************************)
(* If a connection may serve a request at all, getConnection only ever     *)
(* hands out a connection that is up and has requests left, and there are  *)
(* never more connections than users although m_maxSize bounds nothing.    *)
(***************************************************************************)
THEOREM ConnectionsGood ==
  ASSUME MaxRequest > 0
  PROVE  PoolSpec => []PoolReuse
  <1>1. PoolInv => PoolReuse
    <2> SUFFICES ASSUME PoolInv PROVE PoolReuse
      OBVIOUS
    <2> USE DEF PoolInv
    <2>1. ASSUME NEW u \in Users
          PROVE  /\ invalid[u] = {}
                 /\ doing[u] = "request" => conn[held[u]].up /\ conn[held[u]].requests < MaxRequest
      <3>1. MaxRequest # 0
        BY PoolAssumption
      <3>2. QED
        BY <3>1 DEF Places, Quality, Good
    <2>2. Cardinality(alive) + Cardinality(Connecting) <= Cardinality(Users)
      <3>1. /\ Holders \in SUBSET Users /\ Connecting \in SUBSET Users /\ Outside \in SUBSET Users
            /\ Holders \cap Connecting = {}
            /\ (Holders \cup Connecting) \cap Outside = {}
        BY DEF Holders, Connecting, Outside, Places
      <3>2. /\ IsFiniteSet(Users) /\ IsFiniteSet(Holders) /\ IsFiniteSet(Connecting)
            /\ IsFiniteSet(Outside) /\ IsFiniteSet(Holders \cup Connecting)
        BY <3>1, PoolAssumption, FS_Subset, FS_Union
      <3>3. Cardinality(Holders \cup Connecting) = Cardinality(Holders) + Cardinality(Connecting) - 0
        BY <3>1, <3>2, FS_Union, FS_EmptySet
      <3>4. Cardinality((Holders \cup Connecting) \cup Outside)
              = Cardinality(Holders \cup Connecting) + Cardinality(Outside) - 0
        BY <3>1, <3>2, FS_Union, FS_EmptySet
      <3>5. Cardinality((Holders \cup Connecting) \cup Outside) <= Cardinality(Users)
        <4>1. (Holders \cup Connecting) \cup Outside \in SUBSET Users
          BY <3>1
        <4>2. QED
          BY <3>2, <4>1, FS_Subset
      <3>6. /\ Cardinality(Holders) \in Nat /\ Cardinality(Connecting) \in Nat
            /\ Cardinality(Outside) \in Nat /\ Cardinality(Users) \in Nat /\ Len(idle) \in Nat
        BY <3>2, FS_CardinalityType DEF PoolTypes
      <3>7. QED
        BY <3>3, <3>4, <3>5, <3>6 DEF Counts
    <2>3. QED
      BY <2>1, <2>2 DEF PoolReuse
  <1>2. QED
    BY <1>1, PoolInitial, PoolStep, PTL DEF PoolSpec
===============================================================================
