------------------------------ MODULE ByteProofs ------------------------------
(***************************************************************************)
(* ByteArray implements Tape, for blocks of any size and bytes of any      *)
(* kind: the arithmetic of positions, blocks and offsets is proved once    *)
(* and for all, the loop over the blocks by induction on its turns.        *)
(***************************************************************************)
EXTENDS ByteArray, Integers, SequenceTheorems, WellFoundedInduction, TLAPS

-----------------------------------------------------------------------------
(***************************************************************************)
(* Numbers.                                                                *)
(***************************************************************************)

\* A set of naturals with 0 and with the successor of each of its members has
\* them all.
LEMMA Induction ==
  ASSUME NEW P \in SUBSET Nat, 0 \in P, \A n \in P : n + 1 \in P
  PROVE  \A n \in Nat : n \in P
  <1> SUFFICES ASSUME Nat \ P # {} PROVE FALSE
    OBVIOUS
  <1>1. PICK x \in Nat \ P : \A y \in Nat \ P : ~(<<y, x>> \in OpToRel(<, Nat))
    BY NatLessThanWellFounded, WFMin
  <1>2. x # 0 /\ x - 1 \in Nat /\ x - 1 < x
    OBVIOUS
  <1>3. x - 1 \in P
    BY <1>1, <1>2 DEF OpToRel
  <1>4. (x - 1) + 1 \in P
    BY <1>3
  <1>5. QED
    BY <1>2, <1>4

\* The block of a position, from 0, and the offset in it.
Quot(p) == p \div BaseSize
Rest(p) == p % BaseSize

\* Division by the size of a block.
LEMMA Division ==
  ASSUME NEW p \in Nat
  PROVE  /\ Quot(p) \in Nat /\ Rest(p) \in 0 .. BaseSize - 1
         /\ p = Quot(p) * BaseSize + Rest(p)
  BY ByteArrayAssumption DEF Quot, Rest

\* A later block begins behind the end of an earlier one.
LEMMA BlockOrder ==
  ASSUME NEW q \in Nat, NEW k \in Nat, q < k
  PROVE  q * BaseSize + BaseSize <= k * BaseSize
  <1> DEFINE d == k - (q + 1)
  <1>1. d \in Nat /\ k = q + 1 + d
    OBVIOUS
  <1>2. d * BaseSize >= 0
    BY <1>1, ByteArrayAssumption
  <1>3. k * BaseSize = q * BaseSize + BaseSize + d * BaseSize
    BY <1>1, ByteArrayAssumption
  <1>4. q * BaseSize \in Nat /\ k * BaseSize \in Nat
    BY ByteArrayAssumption
  <1> HIDE DEF d
  <1>5. QED
    BY <1>1, <1>2, <1>3, <1>4, ByteArrayAssumption

\* Block and offset are unique.
LEMMA Unique ==
  ASSUME NEW q \in Nat, NEW r \in 0 .. BaseSize - 1, NEW k \in Nat, NEW s \in 0 .. BaseSize - 1,
         q * BaseSize + r = k * BaseSize + s
  PROVE  q = k /\ r = s
  <1>1. ~ q < k
    BY BlockOrder, ByteArrayAssumption
  <1>2. ~ k < q
    BY BlockOrder, ByteArrayAssumption
  <1>3. QED
    BY <1>1, <1>2, ByteArrayAssumption

\* So offset r of block q is the position q * BaseSize + r.
LEMMA Position ==
  ASSUME NEW q \in Nat, NEW r \in 0 .. BaseSize - 1
  PROVE  /\ q * BaseSize + r \in Nat
         /\ Quot(q * BaseSize + r) = q /\ Rest(q * BaseSize + r) = r
  <1>1. PICK p \in Nat : p = q * BaseSize + r
    BY ByteArrayAssumption
  <1>2. /\ Quot(p) \in Nat /\ Rest(p) \in 0 .. BaseSize - 1
        /\ Quot(p) * BaseSize + Rest(p) = q * BaseSize + r
    BY <1>1, Division
  <1>3. Quot(p) = q /\ Rest(p) = r
    BY <1>2, Unique
  <1>4. QED
    BY <1>1, <1>3

(***************************************************************************)
(* Cells.  Byte i of the array, from 1, is in cell Cell(i).                *)
(***************************************************************************)
Cell(i) == <<(i - 1) \div BaseSize + 1, ((i - 1) % BaseSize) + 1>>

\* Byte j of block c, both from 1, is byte (c - 1) * BaseSize + j of the array.
LEMMA CellAt ==
  ASSUME NEW c \in Nat \ {0}, NEW j \in 1 .. BaseSize
  PROVE  /\ (c - 1) * BaseSize + j \in Nat \ {0}
         /\ Cell((c - 1) * BaseSize + j) = <<c, j>>
  <1>1. c - 1 \in Nat /\ j - 1 \in 0 .. BaseSize - 1
    BY ByteArrayAssumption
  <1>2. PICK p \in Nat : p = (c - 1) * BaseSize + (j - 1)
    BY <1>1, ByteArrayAssumption
  <1>3. p \div BaseSize = c - 1 /\ p % BaseSize = j - 1
    BY <1>1, <1>2, Position DEF Quot, Rest
  <1>4. (c - 1) * BaseSize + j = p + 1
    BY <1>1, <1>2, ByteArrayAssumption
  <1>5. Cell(p + 1) = <<c, j>>
    BY <1>3 DEF Cell
  <1>6. QED
    BY <1>4, <1>5

\* Every byte has a cell, and its own one.
LEMMA CellFacts ==
  ASSUME NEW i \in Nat \ {0}
  PROVE  /\ Cell(i) \in (Nat \ {0}) \X (1 .. BaseSize)
         /\ i = (Cell(i)[1] - 1) * BaseSize + Cell(i)[2]
  <1>1. i - 1 \in Nat
    OBVIOUS
  <1>2. /\ (i - 1) \div BaseSize \in Nat /\ (i - 1) % BaseSize \in 0 .. BaseSize - 1
        /\ i - 1 = ((i - 1) \div BaseSize) * BaseSize + ((i - 1) % BaseSize)
    BY <1>1, Division DEF Quot, Rest
  <1>3. PICK q \in Nat, r \in 0 .. BaseSize - 1 :
          Cell(i) = <<q + 1, r + 1>> /\ i - 1 = q * BaseSize + r
    BY <1>2 DEF Cell
  <1>4. i = ((q + 1) - 1) * BaseSize + (r + 1)
    BY <1>3, ByteArrayAssumption
  <1>5. QED
    BY <1>3, <1>4, ByteArrayAssumption

\* ... so no cell has two bytes.
LEMMA CellUnique ==
  ASSUME NEW i \in Nat \ {0}, NEW k \in Nat \ {0}, Cell(i) = Cell(k)
  PROVE  i = k
  BY CellFacts

\* A byte within the blocks is in one of them.
LEMMA CellWithin ==
  ASSUME NEW i \in Nat \ {0}, NEW n \in Nat, i <= n * BaseSize
  PROVE  Cell(i)[1] \in 1 .. n
  <1>1. PICK q \in Nat, r \in 1 .. BaseSize : Cell(i) = <<q + 1, r>> /\ i = q * BaseSize + r
    <2>1. PICK c \in Nat \ {0}, r \in 1 .. BaseSize :
            Cell(i) = <<c, r>> /\ i = (c - 1) * BaseSize + r
      BY CellFacts
    <2>2. c - 1 \in Nat /\ (c - 1) + 1 = c
      OBVIOUS
    <2>3. QED
      BY <2>1, <2>2
  <1>2. ~ n <= q
    <2> SUFFICES ASSUME n <= q PROVE FALSE
      OBVIOUS
    <2>1. n * BaseSize <= q * BaseSize
      <3>1. CASE n = q
        BY <3>1, ByteArrayAssumption
      <3>2. CASE n < q
        BY <3>2, BlockOrder, ByteArrayAssumption
      <3>3. QED
        BY <3>1, <3>2
    <2>2. q * BaseSize \in Nat /\ n * BaseSize \in Nat
      BY ByteArrayAssumption
    <2>3. QED
      BY <1>1, <2>1, <2>2
  <1>3. QED
    BY <1>1, <1>2

(***************************************************************************)
(* The block of a position, from 1; NULL behind the last of n blocks.      *)
(***************************************************************************)
BlockAt(n, p) == IF p = n * BaseSize THEN 0 ELSE Quot(p) + 1

\* An offset of a block gives back the block.
LEMMA BlockAtOffset ==
  ASSUME NEW n \in Nat, NEW c \in 1 .. n, NEW r \in 0 .. BaseSize - 1
  PROVE  BlockAt(n, (c - 1) * BaseSize + r) = c
  <1>1. c - 1 \in Nat
    OBVIOUS
  <1>2. Quot((c - 1) * BaseSize + r) = c - 1
    BY <1>1, Position
  <1>3. (c - 1) * BaseSize + r # n * BaseSize
    <2>1. 0 \in 0 .. BaseSize - 1 /\ n * BaseSize + 0 = n * BaseSize
      BY ByteArrayAssumption
    <2>2. (c - 1) * BaseSize + r = n * BaseSize + 0 => c - 1 = n
      BY <1>1, <2>1, Unique
    <2>3. QED
      BY <2>1, <2>2
  <1>4. QED
    BY <1>2, <1>3 DEF BlockAt

\* Its end gives the next one.
LEMMA BlockAtEnd ==
  ASSUME NEW n \in Nat, NEW c \in 1 .. n
  PROVE  BlockAt(n, (c - 1) * BaseSize + BaseSize) = IF c < n THEN c + 1 ELSE 0
  <1>1. (c - 1) * BaseSize + BaseSize = c * BaseSize
    BY ByteArrayAssumption
  <1>2. CASE c = n
    BY <1>1, <1>2 DEF BlockAt
  <1>3. CASE c < n
    <2>1. c + 1 \in 1 .. n /\ 0 \in 0 .. BaseSize - 1
      BY <1>3, ByteArrayAssumption
    <2>2. BlockAt(n, ((c + 1) - 1) * BaseSize + 0) = c + 1
      BY <2>1, BlockAtOffset
    <2>3. ((c + 1) - 1) * BaseSize + 0 = c * BaseSize
      BY ByteArrayAssumption
    <2>4. QED
      BY <1>1, <1>3, <2>2, <2>3
  <1>4. QED
    BY <1>2, <1>3

\* setPosition finds the block of the position.
LEMMA BlockOfIs ==
  ASSUME NEW S, NEW b \in Seq(S), Len(b) > 0, NEW v \in Nat, v <= Len(b) * BaseSize
  PROVE  BlockOf(b, v) = BlockAt(Len(b), v)
  <1>0. Len(b) \in Nat /\ Len(b) * BaseSize \in Nat
    BY ByteArrayAssumption
  <1>1. CASE v = 0
    <2>1. v # 1 * BaseSize /\ 0 \in 0 .. BaseSize - 1 /\ 1 \in 1 .. Len(b)
          /\ (1 - 1) * BaseSize + 0 = 0
      BY <1>0, <1>1, ByteArrayAssumption
    <2>2. BlockAt(Len(b), 0) = 1
      BY <1>0, <2>1, BlockAtOffset
    <2>3. QED
      BY <1>1, <2>1, <2>2 DEF BlockOf
  <1>2. CASE v # 0
    <2>0. v \in Nat \ {0}
      BY <1>2
    <2>1. PICK c \in Nat \ {0}, j \in 1 .. BaseSize :
            Cell(v) = <<c, j>> /\ v = (c - 1) * BaseSize + j
      <3>1. Cell(v) \in (Nat \ {0}) \X (1 .. BaseSize)
            /\ v = (Cell(v)[1] - 1) * BaseSize + Cell(v)[2]
        BY <2>0, CellFacts
      <3>2. QED
        BY <3>1
    <2>2. c \in 1 .. Len(b)
      BY <1>0, <1>2, <2>1, CellWithin
    <2>3. (v + BaseSize - 1) \div BaseSize = c
      <3>1. v + BaseSize - 1 = c * BaseSize + (j - 1)
        BY <2>1, ByteArrayAssumption
      <3>2. j - 1 \in 0 .. BaseSize - 1
        BY ByteArrayAssumption
      <3>3. QED
        BY <3>1, <3>2, Position DEF Quot
    <2>4. c * BaseSize = (c - 1) * BaseSize + BaseSize
      BY ByteArrayAssumption
    <2>5. CASE j = BaseSize
      BY <1>0, <1>2, <2>1, <2>2, <2>3, <2>4, <2>5, BlockAtEnd DEF BlockOf, NextOf
    <2>6. CASE j # BaseSize
      <3>1. j \in 0 .. BaseSize - 1
        BY <2>6, ByteArrayAssumption
      <3>2. v # c * BaseSize
        BY <2>1, <2>4, <2>6, ByteArrayAssumption
      <3>3. QED
        BY <1>0, <1>2, <2>1, <2>2, <2>3, <3>1, <3>2, BlockAtOffset DEF BlockOf
    <2>7. QED
      BY <2>5, <2>6
  <1>3. QED
    BY <1>1, <1>2

-----------------------------------------------------------------------------
(***************************************************************************)
(* The loop.                                                               *)
(***************************************************************************)

\* The state of the loop after each of its turns.
Turns(b, start, n, turn) ==
  turn = [i \in 0 .. n |-> IF i = 0 THEN start ELSE WalkStep(b, turn[i - 1])]

\* The recursion has a solution, by induction on the number of turns.
LEMMA TurnsExist ==
  ASSUME NEW b, NEW start
  PROVE  \A n \in Nat : \E turn : Turns(b, start, n, turn)
  <1> DEFINE P == {n \in Nat : \E turn : Turns(b, start, n, turn)}
  <1>1. 0 \in P
    <2> DEFINE g == [i \in 0 .. 0 |-> start]
    <2>1. g = [i \in 0 .. 0 |-> IF i = 0 THEN start ELSE WalkStep(b, g[i - 1])]
      OBVIOUS
    <2> HIDE DEF g
    <2>2. Turns(b, start, 0, g)
      BY <2>1 DEF Turns
    <2>3. QED
      BY <2>2
  <1>2. ASSUME NEW n \in P PROVE n + 1 \in P
    <2>1. PICK g : Turns(b, start, n, g)
      OBVIOUS
    <2> DEFINE h == [i \in 0 .. n + 1 |-> IF i = n + 1 THEN WalkStep(b, g[n]) ELSE g[i]]
               h2 == [i \in 0 .. n + 1 |-> IF i = 0 THEN start ELSE WalkStep(b, h[i - 1])]
    <2>2. ASSUME NEW i \in 0 .. n + 1 PROVE h[i] = h2[i]
      BY <2>1 DEF Turns
    <2>3. h = h2
      BY <2>2
    <2> HIDE DEF h
    <2>4. Turns(b, start, n + 1, h)
      BY <2>3 DEF Turns
    <2>5. QED
      BY <2>4
  <1>3. \A n \in Nat : n \in P
    <2> HIDE DEF P
    <2>1. P \in SUBSET Nat
      BY DEF P
    <2>2. QED
      BY <1>1, <1>2, <2>1, Induction
  <1>4. QED
    BY <1>3

\* Walk is the state after n turns.
LEMMA WalkIsTurn ==
  ASSUME NEW b, NEW c, NEW npos, NEW n \in Nat
  PROVE  \E turn : Turns(b, WalkStart(c, npos, n), n, turn) /\ Walk(b, c, npos, n) = turn[n]
  <1> DEFINE T == CHOOSE turn : turn = [i \in 0 .. n |->
                    IF i = 0 THEN WalkStart(c, npos, n) ELSE WalkStep(b, turn[i - 1])]
  <1>1. \E turn : turn = [i \in 0 .. n |->
                    IF i = 0 THEN WalkStart(c, npos, n) ELSE WalkStep(b, turn[i - 1])]
    <2>1. PICK turn : Turns(b, WalkStart(c, npos, n), n, turn)
      BY TurnsExist
    <2>2. QED
      BY <2>1 DEF Turns
  <1>2. T = [i \in 0 .. n |-> IF i = 0 THEN WalkStart(c, npos, n) ELSE WalkStep(b, T[i - 1])]
    BY <1>1
  <1>3. Walk(b, c, npos, n) = T[n]
    BY DEF Walk
  <1> HIDE DEF T
  <1>4. QED
    BY <1>2, <1>3 DEF Turns

\* The cells of n bytes behind position p.
Run(p, n) == [j \in 1 .. n |-> Cell(p + j)]

\* A run is a sequence of cells.
LEMMA RunIsSeq ==
  ASSUME NEW p \in Nat, NEW n \in Nat
  PROVE  Run(p, n) \in Seq(Nat \X Nat) /\ Len(Run(p, n)) = n
  <1>1. ASSUME NEW j \in 1 .. n PROVE Cell(p + j) \in Nat \X Nat
    <2>1. p + j \in Nat \ {0}
      OBVIOUS
    <2>2. Cell(p + j) \in (Nat \ {0}) \X (1 .. BaseSize)
      BY <2>1, CellFacts
    <2>3. QED
      BY <2>2, ByteArrayAssumption
  <1>2. Run(p, n) \in [1 .. n -> Nat \X Nat]
    BY <1>1 DEF Run
  <1>3. QED
    BY <1>2

\* Runs that follow each other make one.
LEMMA RunConcat ==
  ASSUME NEW p \in Nat, NEW a \in Nat, NEW n \in Nat
  PROVE  Run(p, a) \o Run(p + a, n) = Run(p, a + n)
  <1> DEFINE s == Run(p, a) \o Run(p + a, n)
             t == Run(p, a + n)
  <1>1. /\ Run(p, a) \in Seq(Nat \X Nat) /\ Len(Run(p, a)) = a
        /\ Run(p + a, n) \in Seq(Nat \X Nat) /\ Len(Run(p + a, n)) = n
        /\ t \in Seq(Nat \X Nat) /\ Len(t) = a + n
    <2>1. p + a \in Nat /\ a + n \in Nat
      OBVIOUS
    <2>2. Run(p, a) \in Seq(Nat \X Nat) /\ Len(Run(p, a)) = a
      BY RunIsSeq
    <2>3. Run(p + a, n) \in Seq(Nat \X Nat) /\ Len(Run(p + a, n)) = n
      BY <2>1, RunIsSeq
    <2>4. t \in Seq(Nat \X Nat) /\ Len(t) = a + n
      BY <2>1, RunIsSeq
    <2>5. QED
      BY <2>2, <2>3, <2>4
  <1>2. /\ s \in Seq(Nat \X Nat) /\ Len(s) = a + n
        /\ \A i \in 1 .. a + n : s[i] = IF i <= a THEN Run(p, a)[i] ELSE Run(p + a, n)[i - a]
    <2> HIDE DEF t
    <2>1. PICK x \in Seq(Nat \X Nat), y \in Seq(Nat \X Nat) : x = Run(p, a) /\ y = Run(p + a, n)
      BY <1>1
    <2>2. /\ x \o y \in Seq(Nat \X Nat) /\ Len(x \o y) = Len(x) + Len(y)
          /\ \A i \in 1 .. Len(x) + Len(y) : (x \o y)[i] = IF i <= Len(x) THEN x[i] ELSE y[i - Len(x)]
      BY ConcatProperties
    <2>3. QED
      BY <1>1, <2>1, <2>2
  <1>3. ASSUME NEW i \in 1 .. a + n PROVE s[i] = t[i]
    <2>1. CASE i <= a
      BY <1>2, <2>1 DEF Run
    <2>2. CASE ~ i <= a
      <3>1. i - a \in 1 .. n /\ (p + a) + (i - a) = p + i
        BY <2>2
      <3>2. Run(p + a, n)[i - a] = Cell(p + i)
        BY <3>1 DEF Run
      <3>3. t[i] = Cell(p + i)
        BY DEF Run
      <3>4. QED
        BY <1>2, <2>2, <3>2, <3>3
    <2>3. QED
      BY <2>1, <2>2
  <1> HIDE DEF s, t
  <1>4. s = t
    BY <1>1, <1>2, <1>3, SeqEqual
  <1>5. QED
    BY <1>4 DEF s, t

\* The bytes of one block.
LEMMA CellsAreRun ==
  ASSUME NEW c \in Nat \ {0}, NEW from \in 0 .. BaseSize - 1, NEW n \in Nat, from + n <= BaseSize
  PROVE  Cells(c, from, n) = Run((c - 1) * BaseSize + from, n)
  <1>1. ASSUME NEW j \in 1 .. n
        PROVE  <<c, from + j>> = Cell(((c - 1) * BaseSize + from) + j)
    <2>1. from + j \in 1 .. BaseSize
      BY ByteArrayAssumption
    <2>2. ((c - 1) * BaseSize + from) + j = (c - 1) * BaseSize + (from + j)
      BY ByteArrayAssumption
    <2>3. QED
      BY <2>1, <2>2, CellAt
  <1>2. QED
    BY <1>1 DEF Cells, Run

(***************************************************************************)
(* The loop over the blocks b, for n bytes from position p.  It is over    *)
(* when the cells are those of the run; after i turns at least i bytes are *)
(* done, and the rest begins at the offset of the current block.           *)
(***************************************************************************)
State(cells, cur, npos, left) ==
  [cells |-> cells, cur |-> cur, npos |-> npos, left |-> left, null |-> FALSE]

LoopOver(b, p, n, st) ==
  \E npos \in Nat : st = State(Run(p, n), BlockAt(Len(b), p + n), npos, 0)

LoopAt(b, p, n, i, st) ==
  \E cur \in 1 .. Len(b), npos \in 0 .. BaseSize - 1, a \in Nat, left \in Nat \ {0} :
     /\ i <= a /\ a + left = n
     /\ (cur - 1) * BaseSize + npos = p + a
     /\ st = State(Run(p, a), cur, npos, left)

\* The loop begins, within the blocks.
LEMMA WalkBegins ==
  ASSUME NEW S, NEW b \in Seq(S), NEW c \in 1 .. Len(b), NEW npos \in 0 .. BaseSize - 1,
         NEW n \in Nat, NEW p \in Nat, p = (c - 1) * BaseSize + npos
  PROVE  \/ LoopOver(b, p, n, WalkStart(c, npos, n))
         \/ LoopAt(b, p, n, 0, WalkStart(c, npos, n))
  <1>1. Run(p, 0) = <<>>
    BY RunIsSeq
  <1>2. WalkStart(c, npos, n) = State(Run(p, 0), c, npos, n)
    <2>1. (c = 0) = FALSE
      OBVIOUS
    <2>2. QED
      BY <1>1, <2>1, Zenon DEF WalkStart, State
  <1>3. CASE n = 0
    <2>1. BlockAt(Len(b), (c - 1) * BaseSize + npos) = c
      BY BlockAtOffset
    <2>2. p + n = (c - 1) * BaseSize + npos /\ npos \in Nat
      BY <1>3
    <2>3. QED
      BY <1>2, <1>3, <2>1, <2>2 DEF LoopOver
  <1>4. CASE n > 0
    <2>1. n \in Nat \ {0} /\ 0 \in Nat /\ 0 <= 0 /\ 0 + n = n /\ (c - 1) * BaseSize + npos = p + 0
      BY <1>4, ByteArrayAssumption
    <2>2. QED
      BY <1>2, <2>1 DEF LoopAt
  <1>5. QED
    BY <1>3, <1>4

\* A turn whose bytes all lie in the current block.
LEMMA WalkStepLast ==
  ASSUME NEW b, NEW cells, NEW cur, NEW npos \in Nat, NEW left \in Nat \ {0},
         BaseSize - npos >= left,
         NEW last, last = IF npos + left = BaseSize THEN NextOf(b, cur) ELSE cur
  PROVE  WalkStep(b, State(cells, cur, npos, left))
           = State(cells \o Cells(cur, npos, left), last, npos, 0)
  <1> DEFINE st == State(cells, cur, npos, left)
  <1> USE DEF State
  <1>1. st.cells = cells /\ st.cur = cur /\ st.npos = npos /\ st.left = left /\ ~ st.null
    OBVIOUS
  <1>2. WalkStep(b, st) = [st EXCEPT !.cells = cells \o Cells(cur, npos, left), !.left = 0,
                                     !.cur = last]
    BY <1>1 DEF WalkStep
  <1>3. QED
    BY <1>2

\* A turn that uses up the current block.
LEMMA WalkStepNext ==
  ASSUME NEW b, NEW cells, NEW cur, NEW npos \in Nat, NEW left \in Nat \ {0},
         NEW ncap, ncap = BaseSize - npos, ncap < left, NextOf(b, cur) # 0
  PROVE  WalkStep(b, State(cells, cur, npos, left))
           = State(cells \o Cells(cur, npos, ncap), NextOf(b, cur), 0, left - ncap)
  <1> DEFINE st == State(cells, cur, npos, left)
  <1> USE DEF State
  <1>1. st.cells = cells /\ st.cur = cur /\ st.npos = npos /\ st.left = left /\ ~ st.null
    OBVIOUS
  <1>2. WalkStep(b, st) = [st EXCEPT !.cells = cells \o Cells(cur, npos, ncap), !.left = left - ncap,
                    !.cur = NextOf(b, cur), !.npos = 0, !.null = NextOf(b, cur) = 0]
    BY <1>1, ByteArrayAssumption DEF WalkStep
  <1>3. (NextOf(b, cur) = 0) = FALSE
    OBVIOUS
  <1>4. WalkStep(b, st) = [st EXCEPT !.cells = cells \o Cells(cur, npos, ncap), !.left = left - ncap,
                    !.cur = NextOf(b, cur), !.npos = 0, !.null = FALSE]
    BY <1>2, <1>3, Zenon
  <1>5. QED
    BY <1>4

\* When the loop is over it stays so.
LEMMA WalkStays ==
  ASSUME NEW b, NEW p, NEW n, NEW st, LoopOver(b, p, n, st)
  PROVE  WalkStep(b, st) = st
  BY DEF LoopOver, State, WalkStep

\* A turn goes on, to the next block, or ends the loop: the next block exists as
\* long as bytes are left.
LEMMA WalkGoesOn ==
  ASSUME NEW S, NEW b \in Seq(S), NEW p \in Nat, NEW n \in Nat, p + n <= Len(b) * BaseSize,
         NEW i \in Nat, NEW st, LoopAt(b, p, n, i, st)
  PROVE  LoopOver(b, p, n, WalkStep(b, st)) \/ LoopAt(b, p, n, i + 1, WalkStep(b, st))
  <1>1. PICK cur \in 1 .. Len(b), npos \in 0 .. BaseSize - 1, a \in Nat, left \in Nat \ {0} :
          /\ i <= a /\ a + left = n
          /\ (cur - 1) * BaseSize + npos = p + a
          /\ st = State(Run(p, a), cur, npos, left)
    BY DEF LoopAt
  <1>2. PICK ncap \in 1 .. BaseSize : ncap = BaseSize - npos
    BY ByteArrayAssumption
  <1>3. /\ (cur - 1) * BaseSize + BaseSize = cur * BaseSize /\ cur * BaseSize \in Nat
        /\ cur \in Nat \ {0} /\ Len(b) \in Nat /\ npos \in Nat
    BY ByteArrayAssumption
  <1>4. ASSUME NEW k \in Nat, npos + k <= BaseSize
        PROVE  Run(p, a) \o Cells(cur, npos, k) = Run(p, a + k)
    <2>1. Cells(cur, npos, k) = Run((cur - 1) * BaseSize + npos, k)
      BY <1>3, <1>4, CellsAreRun
    <2>2. Run(p, a) \o Run(p + a, k) = Run(p, a + k)
      BY ONLY p \in Nat, a \in Nat, k \in Nat, RunConcat, ZenonT(60)
    <2>3. QED
      BY <1>1, <2>1, <2>2
  <1>5. CASE ncap >= left
    <2>1. PICK last : last = IF npos + left = BaseSize THEN NextOf(b, cur) ELSE cur
      OBVIOUS
    <2>2. npos + left \in 1 .. BaseSize
      BY <1>2, <1>5, ByteArrayAssumption
    <2>3. WalkStep(b, st) = State(Run(p, n), last, npos, 0)
      <3>1. WalkStep(b, State(Run(p, a), cur, npos, left))
              = State(Run(p, a) \o Cells(cur, npos, left), last, npos, 0)
        BY <1>2, <1>3, <1>5, <2>1, WalkStepLast
      <3>2. left \in Nat /\ npos + left <= BaseSize
        BY <2>2
      <3>3. Run(p, a) \o Cells(cur, npos, left) = Run(p, a + left)
        BY <1>4, <3>2
      <3>4. QED
        BY <1>1, <2>1, <3>1, <3>3
    <2>4. p + n = (cur - 1) * BaseSize + (npos + left)
      BY <1>1, <1>3, ByteArrayAssumption
    <2>5. last = BlockAt(Len(b), p + n)
      <3>1. CASE npos + left = BaseSize
        BY <1>3, <2>1, <2>4, <3>1, BlockAtEnd DEF NextOf
      <3>2. CASE npos + left # BaseSize
        <4>1. npos + left \in 0 .. BaseSize - 1
          BY <2>2, <3>2, ByteArrayAssumption
        <4>2. QED
          BY <1>3, <2>1, <2>4, <3>2, <4>1, BlockAtOffset
      <3>3. QED
        BY <3>1, <3>2
    <2>6. QED
      BY <1>3, <2>3, <2>5 DEF LoopOver
  <1>6. CASE ncap < left
    <2>1. cur * BaseSize = p + (a + ncap)
      BY <1>1, <1>2, <1>3, ByteArrayAssumption
    <2>2. cur + 1 \in 1 .. Len(b)
      <3>1. cur * BaseSize < p + n
        BY <1>1, <1>3, <1>6, <2>1
      <3>2. cur # Len(b)
        BY <1>3, <3>1
      <3>3. QED
        BY <1>3, <3>2
    <2>3. NextOf(b, cur) = cur + 1 /\ cur + 1 # 0
      BY <1>3, <2>2 DEF NextOf
    <2>4. PICK rest \in Nat \ {0} : rest = left - ncap
      BY <1>6
    <2>5. PICK d \in Nat : d = a + ncap
      OBVIOUS
    <2>6. WalkStep(b, st) = State(Run(p, d), cur + 1, 0, rest)
      <3>1. WalkStep(b, State(Run(p, a), cur, npos, left))
              = State(Run(p, a) \o Cells(cur, npos, ncap), NextOf(b, cur), 0, left - ncap)
        BY <1>2, <1>3, <1>6, <2>3, WalkStepNext
      <3>2. ncap \in Nat /\ npos + ncap <= BaseSize
        BY <1>2, ByteArrayAssumption
      <3>3. Run(p, a) \o Cells(cur, npos, ncap) = Run(p, d)
        BY <1>4, <2>5, <3>2
      <3>4. QED
        BY <1>1, <2>3, <2>4, <3>1, <3>3
    <2>7. i + 1 <= d /\ d + rest = n /\ 0 \in 0 .. BaseSize - 1
      BY <1>1, <1>6, <2>4, <2>5, ByteArrayAssumption
    <2>8. ((cur + 1) - 1) * BaseSize + 0 = p + d
      <3>1. (cur + 1) - 1 = cur
        BY <1>3
      <3>2. QED
        BY <1>3, <2>1, <2>5, <3>1
    <2>9. LoopAt(b, p, n, i + 1, WalkStep(b, st))
      BY <2>2, <2>6, <2>7, <2>8 DEF LoopAt
    <2>10. QED
      BY <2>9
  <1>7. QED
    BY <1>2, <1>5, <1>6

\* So the cells of n bytes within the blocks are those of a run, and the loop ends
\* in the block of the position behind them.
LEMMA WalkResult ==
  ASSUME NEW S, NEW b \in Seq(S), NEW c \in 1 .. Len(b), NEW npos \in 0 .. BaseSize - 1,
         NEW n \in Nat, NEW p \in Nat, p = (c - 1) * BaseSize + npos, p + n <= Len(b) * BaseSize
  PROVE  /\ ~ Walk(b, c, npos, n).null
         /\ Walk(b, c, npos, n).cells = Run(p, n)
         /\ Walk(b, c, npos, n).cur = BlockAt(Len(b), p + n)
  <1>1. PICK turn : Turns(b, WalkStart(c, npos, n), n, turn) /\ Walk(b, c, npos, n) = turn[n]
    BY ONLY n \in Nat, WalkIsTurn
  <1> DEFINE P == {i \in Nat : i <= n =>
                     LoopOver(b, p, n, turn[i]) \/ LoopAt(b, p, n, i, turn[i])}
  <1>2. 0 \in P
    <2>1. turn[0] = WalkStart(c, npos, n)
      BY <1>1 DEF Turns
    <2>2. QED
      BY <2>1, WalkBegins
  <1>3. ASSUME NEW i \in P PROVE i + 1 \in P
    <2> SUFFICES ASSUME i + 1 <= n
                 PROVE  LoopOver(b, p, n, turn[i + 1]) \/ LoopAt(b, p, n, i + 1, turn[i + 1])
      OBVIOUS
    <2>1. turn[i + 1] = WalkStep(b, turn[i])
      BY <1>1 DEF Turns
    <2>2. LoopOver(b, p, n, turn[i]) \/ LoopAt(b, p, n, i, turn[i])
      OBVIOUS
    <2>3. QED
      BY <2>1, <2>2, WalkStays, WalkGoesOn
  <1>4. n \in P
    <2>1. P \in SUBSET Nat
      OBVIOUS
    <2> HIDE DEF P
    <2>2. QED
      BY <1>2, <1>3, <2>1, Induction
  <1>5. LoopOver(b, p, n, turn[n])
    <2>1. ~ LoopAt(b, p, n, n, turn[n])
      BY DEF LoopAt
    <2>2. QED
      BY <1>4, <2>1
  <1>6. QED
    BY <1>1, <1>5 DEF LoopOver, State

\* From NULL the loop does nothing but fail.
LEMMA WalkNull ==
  ASSUME NEW b, NEW npos, NEW n \in Nat
  PROVE  Walk(b, 0, npos, n).null
  <1>1. PICK turn : Turns(b, WalkStart(0, npos, n), n, turn) /\ Walk(b, 0, npos, n) = turn[n]
    BY WalkIsTurn
  <1> DEFINE P == {i \in Nat : i <= n => turn[i].null}
  <1>2. 0 \in P
    <2>1. turn[0] = WalkStart(0, npos, n)
      BY <1>1 DEF Turns
    <2>2. WalkStart(0, npos, n).null
      BY DEF WalkStart
    <2>3. QED
      BY <2>1, <2>2
  <1>3. ASSUME NEW i \in P PROVE i + 1 \in P
    <2> SUFFICES ASSUME i + 1 <= n PROVE turn[i + 1].null
      OBVIOUS
    <2>1. turn[i + 1] = WalkStep(b, turn[i]) /\ turn[i].null
      BY <1>1 DEF Turns
    <2>2. QED
      BY <2>1 DEF WalkStep
  <1>4. n \in P
    <2>1. P \in SUBSET Nat
      OBVIOUS
    <2> HIDE DEF P
    <2>2. QED
      BY <1>2, <1>3, <2>1, Induction
  <1>5. QED
    BY <1>1, <1>4

-----------------------------------------------------------------------------
(***************************************************************************)
(* What the operators of ByteArray do to the bytes.                        *)
(***************************************************************************)

Block == [1 .. BaseSize -> Byte]

\* Byte i of the blocks b, both from 1.
ByteAt(b, i) == b[Cell(i)[1]][Cell(i)[2]]

\* The block of a position within n blocks.
LEMMA BlockAtFacts ==
  ASSUME NEW n \in Nat, NEW p \in Nat, p <= n * BaseSize
  PROVE  /\ BlockAt(n, p) \in 0 .. n
         /\ p # n * BaseSize =>
              /\ BlockAt(n, p) \in 1 .. n /\ Rest(p) \in 0 .. BaseSize - 1
              /\ p = (BlockAt(n, p) - 1) * BaseSize + Rest(p)
  <1>1. CASE p = n * BaseSize
    BY <1>1 DEF BlockAt
  <1>2. CASE p # n * BaseSize
    <2>1. BlockAt(n, p) = Quot(p) + 1
      BY <1>2 DEF BlockAt
    <2>2. p + 1 \in Nat \ {0} /\ p + 1 <= n * BaseSize /\ (p + 1) - 1 = p
      BY <1>2, ByteArrayAssumption
    <2>3. Cell(p + 1)[1] = Quot(p) + 1
      BY <2>2 DEF Cell, Quot
    <2>4. Quot(p) + 1 \in 1 .. n
      BY <2>2, <2>3, CellWithin
    <2>5. Quot(p) \in Nat /\ Rest(p) \in 0 .. BaseSize - 1 /\ p = Quot(p) * BaseSize + Rest(p)
      BY Division
    <2>6. (Quot(p) + 1) - 1 = Quot(p)
      BY <2>5
    <2>7. QED
      BY <2>1, <2>4, <2>5, <2>6
  <1>3. QED
    BY <1>1, <1>2

\* The loop from the block of position p, for k bytes that exist.
LEMMA WalkFrom ==
  ASSUME NEW S, NEW b \in Seq(S), NEW p \in Nat, NEW k \in Nat,
         p # Len(b) * BaseSize, p + k <= Len(b) * BaseSize,
         NEW w, w = Walk(b, BlockAt(Len(b), p), p % BaseSize, k)
  PROVE  ~ w.null /\ w.cells = Run(p, k) /\ w.cur = BlockAt(Len(b), p + k)
  <1>1. Len(b) \in Nat /\ p <= Len(b) * BaseSize
    BY ByteArrayAssumption
  <1>2. PICK c \in 1 .. Len(b), r \in 0 .. BaseSize - 1 :
          c = BlockAt(Len(b), p) /\ r = p % BaseSize /\ p = (c - 1) * BaseSize + r
    BY <1>1, BlockAtFacts DEF Rest
  <1>3. /\ ~ Walk(b, c, r, k).null /\ Walk(b, c, r, k).cells = Run(p, k)
        /\ Walk(b, c, r, k).cur = BlockAt(Len(b), p + k)
    BY <1>2, WalkResult
  <1>4. QED
    BY <1>2, <1>3

\* The k bytes behind position p.
Part(b, p, k) == [i \in 1 .. k |-> ByteAt(b, p + i)]

\* The bytes of a run.
LEMMA AtRun ==
  ASSUME NEW b, NEW p \in Nat, NEW k \in Nat
  PROVE  At(b, Run(p, k)) = Part(b, p, k)
  BY DEF At, Run, ByteAt, Part

\* The first cells of a run.
LEMMA RunPrefix ==
  ASSUME NEW p \in Nat, NEW n \in Nat, NEW k \in 0 .. n
  PROVE  SubSeq(Run(p, n), 1, k) = Run(p, k)
  <1>0. k \in Nat
    OBVIOUS
  <1>1. /\ Run(p, n) \in Seq(Nat \X Nat) /\ Len(Run(p, n)) = n
        /\ Run(p, k) \in Seq(Nat \X Nat) /\ Len(Run(p, k)) = k
    BY <1>0, RunIsSeq
  <1>2. PICK s \in Seq(Nat \X Nat) : s = Run(p, n) /\ Len(s) = n
    BY <1>1
  <1>3. \A i \in 1 .. k : s[i] = Run(p, k)[i]
    BY <1>2 DEF Run
  <1>4. PICK t : t = SubSeq(s, 1, k)
    OBVIOUS
  <1>5. t \in Seq(Nat \X Nat) /\ Len(t) = k /\ \A i \in 1 .. k : t[i] = s[i]
    BY <1>2, <1>4
  <1>6. t = Run(p, k)
    BY <1>1, <1>3, <1>5, SeqEqual
  <1>7. QED
    BY <1>2, <1>4, <1>6

\* The blocks c are the blocks b with the bytes written behind position p.
Written(b, p, bytes, c) ==
  /\ c \in Seq(Block) /\ Len(c) = Len(b)
  /\ \A i \in 1 .. Len(b) * BaseSize :
       ByteAt(c, i) = IF i > p /\ i <= p + Len(bytes) THEN bytes[i - p] ELSE ByteAt(b, i)

\* Put writes the bytes of a run and no others.
LEMMA PutRun ==
  ASSUME NEW b \in Seq(Block), NEW p \in Nat, NEW bytes \in Seq(Byte),
         p + Len(bytes) <= Len(b) * BaseSize,
         NEW c, c = Put(b, Run(p, Len(bytes)), bytes)
  PROVE  Written(b, p, bytes, c)
  <1> DEFINE n == Len(bytes)
             Hit(k, j) == {i \in 1 .. n : Cell(p + i) = <<k, j>>}
             New(k, j) == IF Hit(k, j) # {} THEN bytes[CHOOSE i \in 1 .. n : Cell(p + i) = <<k, j>>]
                          ELSE b[k][j]
  <1>0. n \in Nat /\ Len(b) \in Nat /\ DOMAIN b = 1 .. Len(b)
    OBVIOUS
  <1>1. c = [k \in 1 .. Len(b) |-> [j \in 1 .. BaseSize |-> New(k, j)]]
    <2> DEFINE r == Run(p, n)
               OldIf(k, j) == IF \E i \in DOMAIN r : r[i] = <<k, j>>
                              THEN bytes[CHOOSE i \in DOMAIN r : r[i] = <<k, j>>] ELSE b[k][j]
    <2>1. DOMAIN r = 1 .. n /\ \A i \in 1 .. n : r[i] = Cell(p + i)
      BY DEF Run
    <2>2. c = [k \in DOMAIN b |-> [j \in 1 .. BaseSize |-> OldIf(k, j)]]
      BY DEF Put
    <2> HIDE DEF r
    <2>3. ASSUME NEW k, NEW j PROVE OldIf(k, j) = New(k, j)
      <3>1. (\E i \in DOMAIN r : r[i] = <<k, j>>) <=> Hit(k, j) # {}
        BY <2>1
      <3>2. (CHOOSE i \in DOMAIN r : r[i] = <<k, j>>) = (CHOOSE i \in 1 .. n : Cell(p + i) = <<k, j>>)
        BY <2>1
      <3>3. QED
        BY <3>1, <3>2
    <2> HIDE DEF OldIf, New
    <2>4. QED
      BY <1>0, <2>2, <2>3
  <1>2. ASSUME NEW k, NEW j, Hit(k, j) # {}
        PROVE  (CHOOSE i \in 1 .. n : Cell(p + i) = <<k, j>>) \in Hit(k, j)
    BY <1>2
  <1>3. ASSUME NEW k \in 1 .. Len(b), NEW j \in 1 .. BaseSize PROVE New(k, j) \in Byte
    <2>0. b[k] \in Block
      BY <1>0
    <2>1. b[k][j] \in Byte
      BY <2>0 DEF Block
    <2>2. \A i \in 1 .. n : bytes[i] \in Byte
      OBVIOUS
    <2>3. QED
      BY <1>2, <2>1, <2>2
  <1>4. c \in Seq(Block) /\ Len(c) = Len(b)
    BY <1>0, <1>1, <1>3 DEF Block
  <1>5. ASSUME NEW i \in 1 .. Len(b) * BaseSize
        PROVE  ByteAt(c, i) = IF i > p /\ i <= p + n THEN bytes[i - p] ELSE ByteAt(b, i)
    <2>1. i \in Nat \ {0} /\ i <= Len(b) * BaseSize
      BY <1>0, ByteArrayAssumption
    <2>2. PICK k \in 1 .. Len(b), j \in 1 .. BaseSize : Cell(i) = <<k, j>>
      BY <1>0, <2>1, CellFacts, CellWithin
    <2>3. ByteAt(c, i) = New(k, j) /\ ByteAt(b, i) = b[k][j]
      BY <1>1, <2>2 DEF ByteAt
    <2>4. \A m \in 1 .. n : p + m \in Nat \ {0} /\ (Cell(p + m) = <<k, j>> <=> p + m = i)
      <3> SUFFICES ASSUME NEW m \in 1 .. n
                   PROVE  p + m \in Nat \ {0} /\ (Cell(p + m) = <<k, j>> <=> p + m = i)
        OBVIOUS
      <3>1. p + m \in Nat \ {0}
        BY <1>0
      <3>2. Cell(p + m) = Cell(i) => p + m = i
        BY <2>1, <3>1, CellUnique
      <3>3. QED
        BY <2>2, <3>1, <3>2
    <2>5. CASE i > p /\ i <= p + n
      <3>1. i - p \in 1 .. n /\ p + (i - p) = i
        BY <1>0, <2>1, <2>5
      <3>2. i - p \in Hit(k, j)
        BY <2>4, <3>1
      <3>3. PICK m \in Hit(k, j) : m = CHOOSE x \in 1 .. n : Cell(p + x) = <<k, j>>
        BY <1>2, <3>2
      <3>4. m = i - p
        BY <2>4, <3>1
      <3>5. QED
        BY <2>3, <2>5, <3>2, <3>3, <3>4
    <2>6. CASE ~ (i > p /\ i <= p + n)
      <3>1. Hit(k, j) = {}
        BY <1>0, <2>1, <2>4, <2>6
      <3>2. QED
        BY <2>3, <2>6, <3>1
    <2>7. QED
      BY <2>5, <2>6
  <1>6. QED
    BY <1>4, <1>5 DEF Written

-----------------------------------------------------------------------------
(***************************************************************************)
(* The bytes of an array, of which sz count.                               *)
(***************************************************************************)
BytesOf(b, sz) == [i \in 1 .. sz |-> ByteAt(b, i)]

\* A byte within the blocks is a byte.
LEMMA ByteAtIsByte ==
  ASSUME NEW b \in Seq(Block), NEW i \in Nat \ {0}, i <= Len(b) * BaseSize
  PROVE  ByteAt(b, i) \in Byte
  <1>1. Len(b) \in Nat /\ DOMAIN b = 1 .. Len(b)
    OBVIOUS
  <1>2. PICK k \in 1 .. Len(b), j \in 1 .. BaseSize : Cell(i) = <<k, j>>
    BY <1>1, CellFacts, CellWithin
  <1>3. b[k] \in Block
    BY <1>1
  <1>4. b[k][j] \in Byte
    BY <1>3 DEF Block
  <1>5. ByteAt(b, i) = b[k][j]
    BY <1>2 DEF ByteAt
  <1>6. QED
    BY <1>4, <1>5

\* They are a sequence of bytes.
LEMMA DataIsSeq ==
  ASSUME NEW b \in Seq(Block), NEW sz \in Nat, sz <= Len(b) * BaseSize
  PROVE  /\ BytesOf(b, sz) \in Seq(Byte) /\ Len(BytesOf(b, sz)) = sz
         /\ \A i \in 1 .. sz : BytesOf(b, sz)[i] = ByteAt(b, i)
  <1>1. Len(b) * BaseSize \in Nat
    BY ByteArrayAssumption
  <1>2. \A i \in 1 .. sz : ByteAt(b, i) \in Byte
    BY <1>1, ByteAtIsByte
  <1>3. QED
    BY <1>2 DEF BytesOf

\* A part of them, as Tape reads it.
Slice(b, sz, p, k) == SubSeq(BytesOf(b, sz), p + 1, p + k)

\* It is the k bytes behind position p.
LEMMA DataPart ==
  ASSUME NEW b \in Seq(Block), NEW sz \in Nat, sz <= Len(b) * BaseSize,
         NEW p \in Nat, NEW k \in Nat, p + k <= sz
  PROVE  Slice(b, sz, p, k) = Part(b, p, k)
  <1>1. PICK s \in Seq(Byte) :
          s = BytesOf(b, sz) /\ Len(s) = sz /\ \A i \in 1 .. sz : s[i] = ByteAt(b, i)
    BY DataIsSeq
  <1>2. PICK t : t = SubSeq(s, p + 1, p + k)
    OBVIOUS
  <1>3. t \in Seq(Byte) /\ Len(t) = k /\ \A i \in 1 .. k : t[i] = s[p + i]
    <2>1. p + 1 \in 1 .. Len(s) + 1 /\ p + k \in p .. Len(s)
      BY <1>1
    <2>2. t \in Seq(Byte)
      BY <1>2, <2>1
    <2>3. Len(t) = k
      BY <1>2, <2>1
    <2>4. \A i \in 1 .. k : t[i] = s[p + i]
      BY <1>2, <2>1
    <2>5. QED
      BY <2>2, <2>3, <2>4
  <1>4. \A i \in 1 .. k : t[i] = ByteAt(b, p + i)
    BY <1>1, <1>3
  <1>5. t = Part(b, p, k)
    BY <1>3, <1>4 DEF Part
  <1>6. QED
    BY <1>1, <1>2, <1>5 DEF Slice

(***************************************************************************)
(* The invariant: the current block is the block of the position.          *)
(***************************************************************************)
ByteInv ==
  /\ ByteTypes /\ Len(blocks) > 0 /\ m_position \in Nat /\ m_size \in Nat
  /\ m_cur = BlockAt(Len(blocks), m_position)

\* addCapacity keeps the bytes, makes room for n more and leaves the current
\* block the one of the position.
LEMMA RoomMade ==
  ASSUME ByteInv, NEW n \in Nat, NEW cap, cap = AddCapacity(n)
  PROVE  /\ cap.blocks \in Seq(Block) /\ Len(cap.blocks) >= Len(blocks)
         /\ cap.capacity = BaseSize * Len(cap.blocks) /\ m_position + n <= cap.capacity
         /\ cap.cur = BlockAt(Len(cap.blocks), m_position)
         /\ \A i \in 1 .. m_capacity : ByteAt(cap.blocks, i) = ByteAt(blocks, i)
  <1>0. /\ blocks \in Seq(Block) /\ Len(blocks) \in Nat /\ m_capacity = BaseSize * Len(blocks)
        /\ m_position \in Nat /\ m_position <= m_capacity /\ m_capacity \in Nat
    BY ByteArrayAssumption DEF ByteInv, ByteTypes, Block
  <1>1. CASE n = 0 \/ getCapacity >= n
    <2>1. cap.blocks = blocks /\ cap.cur = m_cur /\ cap.capacity = m_capacity
      BY <1>1 DEF AddCapacity
    <2>2. m_position + n <= m_capacity
      BY <1>0, <1>1 DEF getCapacity
    <2>3. QED
      BY <1>0, <2>1, <2>2 DEF ByteInv
  <1>2. CASE ~ (n = 0 \/ getCapacity >= n)
    <2>1. PICK free \in Nat : free = getCapacity /\ free < n /\ m_capacity = m_position + free
      BY <1>0, <1>2 DEF getCapacity
    <2>2. PICK count : count = (n - free + BaseSize - 1) \div BaseSize
      OBVIOUS
    <2>3. count \in Nat \ {0} /\ count * BaseSize >= n - free
      <3>1. PICK d \in Nat : d = n - free - 1
        BY <2>1
      <3>2. d + BaseSize \in Nat /\ n - free + BaseSize - 1 = d + BaseSize
        BY <2>1, <3>1, ByteArrayAssumption
      <3>3. PICK q \in Nat, r \in 0 .. BaseSize - 1 :
              q = (d + BaseSize) \div BaseSize /\ d + BaseSize = q * BaseSize + r
        BY <3>2, Division DEF Quot, Rest
      <3>4. q # 0
        BY <3>1, <3>3, ByteArrayAssumption
      <3>5. q * BaseSize \in Nat /\ q * BaseSize >= d + 1
        BY <3>3, ByteArrayAssumption
      <3>6. QED
        BY <2>1, <2>2, <3>1, <3>2, <3>3, <3>4, <3>5
    <2>4. PICK more : more = [i \in 1 .. count |-> FreshBlock]
      OBVIOUS
    <2>5. more \in Seq(Block) /\ Len(more) = count
      BY <2>3, <2>4, ByteArrayAssumption DEF FreshBlock, Block
    <2>6. /\ cap.blocks = blocks \o more /\ cap.capacity = m_capacity + count * BaseSize
          /\ cap.cur = IF free = 0 THEN Len(blocks) + 1 ELSE m_cur
      <3>1. AddCapacity(n) = [blocks |-> blocks \o more,
                              cur |-> IF free = 0 THEN Len(blocks) + 1 ELSE m_cur,
                              capacity |-> m_capacity + count * BaseSize]
        BY <1>2, <2>1, <2>2, <2>4 DEF AddCapacity
      <3>2. QED
        BY <3>1
    <2>7. PICK nb \in Seq(Block) : nb = blocks \o more /\ Len(nb) = Len(blocks) + count
                                 /\ \A i \in 1 .. Len(blocks) : nb[i] = blocks[i]
      <3>1. /\ blocks \o more \in Seq(Block) /\ Len(blocks \o more) = Len(blocks) + Len(more)
            /\ \A i \in 1 .. Len(blocks) + Len(more) :
                 (blocks \o more)[i] = IF i <= Len(blocks) THEN blocks[i] ELSE more[i - Len(blocks)]
        BY <1>0, <2>5, ConcatProperties
      <3>2. \A i \in 1 .. Len(blocks) : i \in 1 .. Len(blocks) + Len(more)
        BY <1>0, <2>3, <2>5
      <3>3. \A i \in 1 .. Len(blocks) : (blocks \o more)[i] = blocks[i]
        BY <1>0, <3>1, <3>2
      <3>4. Len(blocks \o more) = Len(blocks) + count
        BY <2>5, <3>1
      <3>5. QED
        BY <3>1, <3>3, <3>4, Zenon
    <2>8. /\ Len(blocks) * BaseSize \in Nat /\ count * BaseSize \in Nat
          /\ BaseSize * Len(nb) = m_capacity + count * BaseSize
          /\ BaseSize * Len(nb) = Len(nb) * BaseSize
          /\ BaseSize * Len(blocks) = Len(blocks) * BaseSize
      BY <1>0, <2>3, <2>7, ByteArrayAssumption
    <2>9. m_position + n <= m_capacity + count * BaseSize
      BY <1>0, <2>1, <2>3, <2>8
    <2>10. cap.cur = BlockAt(Len(nb), m_position)
      <3>1. m_position # Len(nb) * BaseSize
        BY <1>0, <2>1, <2>3, <2>8, <2>9
      <3>2. BlockAt(Len(nb), m_position) = Quot(m_position) + 1
        BY <3>1 DEF BlockAt
      <3>3. CASE free = 0
        <4>1. m_position = Len(blocks) * BaseSize + 0 /\ 0 \in 0 .. BaseSize - 1
          BY <1>0, <2>1, <2>8, <3>3, ByteArrayAssumption
        <4>2. Quot(m_position) = Len(blocks)
          BY <1>0, <4>1, Position
        <4>3. QED
          BY <2>6, <3>2, <3>3, <4>2
      <3>4. CASE free # 0
        <4>1. m_position # Len(blocks) * BaseSize
          BY <1>0, <2>1, <2>8, <3>4
        <4>2. m_cur = Quot(m_position) + 1
          BY <4>1 DEF ByteInv, BlockAt
        <4>3. QED
          BY <2>6, <3>2, <3>4, <4>2
      <3>5. QED
        BY <3>3, <3>4
    <2>11. ASSUME NEW i \in 1 .. m_capacity PROVE ByteAt(nb, i) = ByteAt(blocks, i)
      <3>1. i \in Nat \ {0} /\ i <= Len(blocks) * BaseSize
        BY <1>0, <2>8
      <3>2. Cell(i)[1] \in 1 .. Len(blocks)
        BY <1>0, <3>1, CellWithin
      <3>3. QED
        BY <2>7, <3>2 DEF ByteAt
    <2>12. QED
      BY <2>3, <2>6, <2>7, <2>8, <2>9, <2>10, <2>11
  <1>3. QED
    BY <1>1, <1>2

\* The facts of the invariant that the steps below use.
LEMMA ByteInvFacts ==
  ASSUME ByteInv
  PROVE  /\ blocks \in Seq(Block) /\ Len(blocks) \in Nat \ {0}
         /\ m_position \in Nat /\ m_size \in Nat /\ m_capacity \in Nat
         /\ m_position <= m_size /\ m_size <= m_capacity
         /\ m_capacity = Len(blocks) * BaseSize
         /\ m_cur = BlockAt(Len(blocks), m_position)
         /\ crashed \in BOOLEAN
         /\ Contents = BytesOf(blocks, m_size) /\ Contents \in Seq(Byte) /\ Len(Contents) = m_size
  <1>1. /\ blocks \in Seq(Block) /\ Len(blocks) > 0 /\ m_position \in Nat /\ m_size \in Nat
        /\ m_position <= m_size /\ m_size <= m_capacity /\ m_capacity = BaseSize * Len(blocks)
        /\ m_cur = BlockAt(Len(blocks), m_position) /\ crashed \in BOOLEAN
    BY DEF ByteInv, ByteTypes, Block
  <1>2. Len(blocks) \in Nat \ {0} /\ m_capacity \in Nat /\ m_capacity = Len(blocks) * BaseSize
    BY <1>1, ByteArrayAssumption
  <1>3. Contents = BytesOf(blocks, m_size)
    BY DEF Contents, BytesOf, ByteAt, Cell
  <1>4. Contents \in Seq(Byte) /\ Len(Contents) = m_size
    BY <1>1, <1>2, <1>3, DataIsSeq
  <1>5. QED
    BY <1>1, <1>2, <1>3, <1>4

\* The invariant of the next state, from what a step assigns.
LEMMA ByteInvNext ==
  ASSUME NEW b \in Seq(Block), Len(b) > 0, NEW p \in Nat, NEW sz \in Nat,
         p <= sz, sz <= Len(b) * BaseSize,
         blocks' = b, m_position' = p, m_size' = sz, m_capacity' = Len(b) * BaseSize,
         m_cur' = BlockAt(Len(b), p), crashed' \in BOOLEAN
  PROVE  ByteInv' /\ Contents' = BytesOf(b, sz)
  <1>1. Len(b) \in Nat /\ Len(b) * BaseSize = BaseSize * Len(b)
    BY ByteArrayAssumption
  <1>2. BlockAt(Len(b), p) \in 0 .. Len(b)
    <2>1. p <= Len(b) * BaseSize
      BY <1>1, ByteArrayAssumption
    <2>2. QED
      BY <1>1, <2>1, BlockAtFacts
  <1>3. ByteTypes'
    BY <1>1, <1>2 DEF ByteTypes, Block
  <1>4. ByteInv'
    BY <1>3 DEF ByteInv
  <1>5. Contents' = BytesOf(b, sz)
    BY DEF Contents, BytesOf, ByteAt, Cell
  <1>6. QED
    BY <1>4, <1>5

\* A write puts bytes over the tape: WriteBytes and ReadFromSocket.
LEMMA WriteStep ==
  ASSUME ByteInv, ~ crashed, NEW n \in Nat, NEW bytes \in Seq(Byte), Len(bytes) <= n,
         NEW cap, cap = AddCapacity(n),
         blocks' = Put(cap.blocks, Run(m_position, Len(bytes)), bytes),
         m_capacity' = cap.capacity,
         m_position' = m_position + Len(bytes),
         m_cur' = BlockAt(Len(cap.blocks), m_position + Len(bytes)),
         m_size' = IF m_position + Len(bytes) > m_size THEN m_position + Len(bytes) ELSE m_size,
         done' = [op |-> "write", bytes |-> bytes], crashed' = crashed
  PROVE  ByteInv' /\ Abstract!Next
  <1>1. /\ blocks \in Seq(Block) /\ m_position \in Nat /\ m_size \in Nat /\ m_capacity \in Nat
        /\ m_position <= m_size /\ m_size <= m_capacity /\ m_capacity = Len(blocks) * BaseSize
        /\ Len(blocks) \in Nat \ {0}
        /\ Contents = BytesOf(blocks, m_size) /\ Len(Contents) = m_size
    BY ByteInvFacts
  <1>2. PICK b \in Seq(Block) :
          /\ b = cap.blocks /\ Len(b) >= Len(blocks) /\ cap.capacity = Len(b) * BaseSize
          /\ m_position + n <= Len(b) * BaseSize
          /\ \A i \in 1 .. m_capacity : ByteAt(b, i) = ByteAt(blocks, i)
    <2>1. /\ cap.blocks \in Seq(Block) /\ Len(cap.blocks) >= Len(blocks)
          /\ cap.capacity = BaseSize * Len(cap.blocks) /\ m_position + n <= cap.capacity
          /\ \A i \in 1 .. m_capacity : ByteAt(cap.blocks, i) = ByteAt(blocks, i)
      BY RoomMade
    <2>2. BaseSize * Len(cap.blocks) = Len(cap.blocks) * BaseSize
      BY <2>1, ByteArrayAssumption
    <2>3. QED
      BY <2>1, <2>2
  <1>3. PICK k \in Nat : k = Len(bytes) /\ k <= n
    OBVIOUS
  <1>4. PICK total \in Nat : total = Len(b) * BaseSize /\ m_position + k <= total
                          /\ m_capacity <= total
    <2>1. Len(b) * BaseSize \in Nat /\ Len(blocks) * BaseSize <= Len(b) * BaseSize
      <3>1. Len(b) \in Nat /\ Len(blocks) \in Nat
        BY <1>1
      <3>2. Len(b) * BaseSize \in Nat /\ Len(blocks) * BaseSize \in Nat
        BY <3>1, ByteArrayAssumption
      <3>3. CASE Len(b) = Len(blocks)
        BY <3>2, <3>3
      <3>4. CASE Len(blocks) < Len(b)
        BY <3>1, <3>2, <3>4, BlockOrder, ByteArrayAssumption
      <3>5. QED
        BY <1>2, <3>1, <3>3, <3>4
    <2>2. QED
      BY <1>1, <1>2, <1>3, <2>1
  <1>5. PICK c \in Seq(Block) :
          /\ c = blocks' /\ Len(c) = Len(b)
          /\ \A i \in 1 .. total :
               ByteAt(c, i) = IF i > m_position /\ i <= m_position + k
                              THEN bytes[i - m_position] ELSE ByteAt(b, i)
    <2>1. m_position + Len(bytes) <= Len(b) * BaseSize /\ m_position \in Nat
      BY <1>1, <1>3, <1>4
    <2>2. PICK c : c = Put(b, Run(m_position, Len(bytes)), bytes) /\ c = blocks'
      BY <1>2
    <2>3. Written(b, m_position, bytes, c)
      BY <2>1, <2>2, PutRun
    <2>4. QED
      BY <1>3, <1>4, <2>2, <2>3 DEF Written
  <1>6. PICK sz \in Nat : /\ sz = IF m_position + k > m_size THEN m_position + k ELSE m_size
                        /\ sz <= total /\ m_position + k <= sz
    BY <1>1, <1>3, <1>4
  <1>7. ByteInv' /\ Contents' = BytesOf(c, sz)
    <2>1. /\ Len(c) > 0 /\ m_position + k \in Nat /\ sz <= Len(c) * BaseSize
          /\ m_capacity' = Len(c) * BaseSize /\ m_position' = m_position + k /\ m_size' = sz
          /\ m_cur' = BlockAt(Len(c), m_position + k) /\ crashed' \in BOOLEAN
      BY <1>1, <1>2, <1>3, <1>4, <1>5, <1>6, ByteInvFacts
    <2>2. QED
      BY <1>5, <1>6, <2>1, ByteInvNext
  <1>8. BytesOf(c, sz) = Abstract!Over(bytes, m_position)
    <2>1. ASSUME NEW i \in 1 .. sz
          PROVE  ByteAt(c, i) = IF i > m_position /\ i <= m_position + k
                                THEN bytes[i - m_position] ELSE Contents[i]
      <3>1. i \in 1 .. total
        BY <1>6
      <3>2. CASE i > m_position /\ i <= m_position + k
        BY <1>5, <3>1, <3>2
      <3>3. CASE ~ (i > m_position /\ i <= m_position + k)
        <4>1. i \in 1 .. m_size /\ i \in 1 .. m_capacity
          BY <1>1, <1>3, <1>6, <3>3
        <4>2. Contents[i] = ByteAt(blocks, i)
          BY <1>1, <4>1 DEF BytesOf
        <4>3. QED
          BY <1>2, <1>5, <3>1, <3>3, <4>1, <4>2
      <3>4. QED
        BY <3>2, <3>3
    <2>2. Abstract!Over(bytes, m_position)
            = [i \in 1 .. sz |-> IF i > m_position /\ i <= m_position + k
                                 THEN bytes[i - m_position] ELSE Contents[i]]
      BY <1>1, <1>3, <1>6 DEF Abstract!Over
    <2>3. QED
      BY <2>1, <2>2 DEF BytesOf
  <1>9. done'.op = "write" /\ done'.bytes = bytes
    OBVIOUS
  <1>10. Abstract!Write
    BY <1>3, <1>7, <1>8, <1>9 DEF Abstract!Write
  <1>11. crashed = FALSE /\ crashed' = FALSE
    BY ByteInvFacts
  <1>12. QED
    BY <1>7, <1>10, <1>11 DEF Abstract!Next

\* A read takes the next bytes of the tape: ReadBytes and WriteToSocket.
LEMMA ReadStep ==
  ASSUME ByteInv, ~ crashed, NEW k \in Nat, m_position + k <= m_size,
         done' = [op |-> "read", bytes |-> At(blocks, Run(m_position, k))],
         m_position' = m_position + k, m_cur' = BlockAt(Len(blocks), m_position + k),
         UNCHANGED <<blocks, m_size, m_capacity, crashed>>
  PROVE  ByteInv' /\ Abstract!Next
  <1>1. /\ blocks \in Seq(Block) /\ m_position \in Nat /\ m_size \in Nat /\ m_capacity \in Nat
        /\ m_position <= m_size /\ m_size <= m_capacity /\ m_capacity = Len(blocks) * BaseSize
        /\ Len(blocks) \in Nat \ {0} /\ crashed \in BOOLEAN
        /\ Contents = BytesOf(blocks, m_size) /\ Len(Contents) = m_size
    BY ByteInvFacts
  <1>2. ByteInv' /\ Contents' = BytesOf(blocks, m_size)
    <2>1. /\ Len(blocks) > 0 /\ m_position + k \in Nat /\ m_size <= Len(blocks) * BaseSize
          /\ m_capacity' = Len(blocks) * BaseSize /\ crashed' \in BOOLEAN
      BY <1>1
    <2>2. QED
      BY <1>1, <2>1, ByteInvNext
  <1>3. PICK out : out = Part(blocks, m_position, k) /\ done' = [op |-> "read", bytes |-> out]
    BY <1>1, AtRun
  <1>4. Len(out) = k
    <2>1. m_size <= Len(blocks) * BaseSize /\ m_position + k <= Len(blocks) * BaseSize
      BY <1>1
    <2>2. ASSUME NEW i \in 1 .. k PROVE ByteAt(blocks, m_position + i) \in Byte
      <3>1. m_position + i \in Nat \ {0} /\ m_position + i <= Len(blocks) * BaseSize
        BY <1>1, <2>1
      <3>2. QED
        BY <1>1, <3>1, ByteAtIsByte
    <2>3. QED
      BY <1>3, <2>2 DEF Part
  <1>5. out = SubSeq(Contents, m_position + 1, m_position + k)
    <2>1. m_size <= Len(blocks) * BaseSize
      BY <1>1
    <2>2. Slice(blocks, m_size, m_position, k) = Part(blocks, m_position, k)
      BY <1>1, <2>1, DataPart
    <2>3. QED
      BY <1>1, <1>3, <2>2 DEF Slice
  <1>6. done'.op = "read" /\ done'.bytes = out
    BY <1>3
  <1>7. Abstract!Read
    BY <1>1, <1>2, <1>4, <1>5, <1>6 DEF Abstract!Read
  <1>8. crashed = FALSE /\ crashed' = FALSE
    BY <1>1
  <1>9. QED
    BY <1>2, <1>7, <1>8 DEF Abstract!Next

\* An operation that is refused leaves the tape.
LEMMA RefuseStep ==
  ASSUME ByteInv, ~ crashed, Refused
  PROVE  ByteInv' /\ Abstract!Next
  <1>1. UNCHANGED <<blocks, m_cur, m_position, m_size, m_capacity, crashed>>
    BY DEF Refused
  <1>2. ByteInv' /\ Contents' = Contents
    BY <1>1 DEF ByteInv, ByteTypes, BlockAt, Contents
  <1>3. Abstract!Refuse
    BY <1>1, <1>2 DEF Refused, Abstract!Refuse
  <1>4. crashed = FALSE /\ crashed' = FALSE
    BY <1>1, ByteInvFacts
  <1>5. QED
    BY <1>2, <1>3, <1>4 DEF Abstract!Next

\* NULL is the block only of the end of the last block, where the data end as well.
LEMMA CrashStep ==
  ASSUME ByteInv, m_position = m_capacity, Crashes("read", 0)
  PROVE  ByteInv' /\ Abstract!Crash
  <1>1. /\ crashed' = TRUE
        /\ UNCHANGED <<blocks, m_cur, m_position, m_size, m_capacity>>
        /\ done' = [op |-> "read", bytes |-> <<>>]
    BY DEF Crashes
  <1>2. ByteInv' /\ Contents' = Contents
    BY <1>1 DEF ByteInv, ByteTypes, BlockAt, Contents
  <1>3. m_position = Len(Contents)
    BY ByteInvFacts
  <1>4. QED
    BY <1>1, <1>2, <1>3 DEF Abstract!Crash

\* The loop from the position, through bytes that are there.
LEMMA WalkHere ==
  ASSUME ByteInv, NEW k \in Nat, m_position + k <= m_capacity, m_position # m_capacity,
         NEW w, w = Walk(blocks, m_cur, Offset, k)
  PROVE  ~ w.null /\ w.cells = Run(m_position, k) /\ w.cur = BlockAt(Len(blocks), m_position + k)
  <1>1. /\ blocks \in Seq(Block) /\ m_position \in Nat /\ m_capacity = Len(blocks) * BaseSize
        /\ m_cur = BlockAt(Len(blocks), m_position)
    BY ByteInvFacts
  <1>2. w = Walk(blocks, BlockAt(Len(blocks), m_position), m_position % BaseSize, k)
    BY <1>1 DEF Offset
  <1>3. m_position # Len(blocks) * BaseSize /\ m_position + k <= Len(blocks) * BaseSize
    BY <1>1
  <1>4. QED
    BY <1>1, <1>2, <1>3, WalkFrom

\* The loop from the position, through room that was made for n > 0 bytes.
LEMMA WalkRoom ==
  ASSUME ByteInv, NEW n \in Nat \ {0}, NEW cap, cap = AddCapacity(n),
         NEW w, w = Walk(cap.blocks, cap.cur, Offset, n)
  PROVE  /\ ~ w.null /\ w.cells = Run(m_position, n)
         /\ w.cur = BlockAt(Len(cap.blocks), m_position + n)
  <1>1. /\ cap.blocks \in Seq(Block)
        /\ cap.capacity = BaseSize * Len(cap.blocks) /\ m_position + n <= cap.capacity
        /\ cap.cur = BlockAt(Len(cap.blocks), m_position)
    BY RoomMade
  <1>2. m_position \in Nat
    BY ByteInvFacts
  <1>3. PICK b \in Seq(Block) :
          b = cap.blocks /\ m_position + n <= Len(b) * BaseSize /\ m_position # Len(b) * BaseSize
    <2>1. /\ BaseSize * Len(cap.blocks) = Len(cap.blocks) * BaseSize
          /\ BaseSize * Len(cap.blocks) \in Nat
      BY <1>1, ByteArrayAssumption
    <2>2. QED
      BY <1>1, <1>2, <2>1
  <1>4. w = Walk(b, BlockAt(Len(b), m_position), m_position % BaseSize, n)
    BY <1>1, <1>3 DEF Offset
  <1>5. /\ ~ w.null /\ w.cells = Run(m_position, n)
        /\ w.cur = BlockAt(Len(b), m_position + n)
    BY <1>2, <1>3, <1>4, WalkFrom
  <1>6. QED
    BY <1>3, <1>5

-----------------------------------------------------------------------------
(***************************************************************************)
(* The operations, one lemma each.                                         *)
(***************************************************************************)
Goal == ByteInv' /\ (Abstract!Next \/ Abstract!Crash)

\* write never meets NULL: addCapacity has made room.
LEMMA WriteBytesStep ==
  ASSUME ByteInv, NEW bytes \in Seq(Byte), WriteBytes(bytes)
  PROVE  Goal
  <1>1. PICK n \in Nat : n = Len(bytes)
    OBVIOUS
  <1>2. PICK cap : cap = AddCapacity(n)
    OBVIOUS
  <1>3. PICK w : w = Walk(cap.blocks, cap.cur, Offset, n)
    OBVIOUS
  <1>4. /\ ~ crashed
        /\ \/ n = 0 /\ Refused
           \/ n > 0 /\ w.null /\ Crashes("write", n)
           \/ /\ n > 0 /\ ~ w.null
              /\ blocks' = Put(cap.blocks, w.cells, bytes)
              /\ m_cur' = w.cur /\ m_capacity' = cap.capacity
              /\ m_position' = m_position + n
              /\ m_size' = IF m_position' > m_size THEN m_position' ELSE m_size
              /\ done' = [op |-> "write", bytes |-> bytes] /\ UNCHANGED crashed
    BY <1>1, <1>2, <1>3 DEF WriteBytes
  <1>5. CASE n = 0 /\ Refused
    BY <1>4, <1>5, RefuseStep DEF Goal
  <1>6. CASE n > 0
    <2>1. /\ ~ w.null /\ w.cells = Run(m_position, n)
          /\ w.cur = BlockAt(Len(cap.blocks), m_position + n)
      BY <1>2, <1>3, <1>6, WalkRoom
    <2>2. /\ blocks' = Put(cap.blocks, Run(m_position, n), bytes)
          /\ m_cur' = BlockAt(Len(cap.blocks), m_position + n) /\ m_capacity' = cap.capacity
          /\ m_position' = m_position + n
          /\ m_size' = IF m_position + n > m_size THEN m_position + n ELSE m_size
          /\ done' = [op |-> "write", bytes |-> bytes] /\ crashed' = crashed
      BY <1>4, <1>6, <2>1
    <2>3. ByteInv' /\ Abstract!Next
      BY <1>1, <1>2, <1>4, <2>2, WriteStep
    <2>4. QED
      BY <2>3 DEF Goal
  <1>7. QED
    BY <1>4, <1>5, <1>6

\* read crashes only where it reads no bytes behind the last one.
LEMMA ReadBytesStep ==
  ASSUME ByteInv, NEW n \in Nat, ReadBytes(n)
  PROVE  Goal
  <1>1. /\ m_position \in Nat /\ m_size \in Nat /\ m_capacity \in Nat
        /\ m_position <= m_size /\ m_size <= m_capacity
    BY ByteInvFacts
  <1>2. PICK w : w = Walk(blocks, m_cur, Offset, n)
    OBVIOUS
  <1>3. /\ ~ crashed
        /\ \/ n > getReadSize /\ Refused
           \/ n <= getReadSize /\ w.null /\ Crashes("read", n)
           \/ /\ n <= getReadSize /\ ~ w.null
              /\ done' = [op |-> "read", bytes |-> At(blocks, w.cells)]
              /\ m_cur' = w.cur /\ m_position' = m_position + n
              /\ UNCHANGED <<blocks, m_size, m_capacity, crashed>>
    BY <1>2 DEF ReadBytes
  <1>4. CASE Refused
    BY <1>3, <1>4, RefuseStep DEF Goal
  <1>5. CASE n <= getReadSize /\ w.null /\ Crashes("read", n)
    <2>1. m_position + n <= m_capacity
      BY <1>1, <1>5 DEF getReadSize
    <2>2. m_position = m_capacity
      BY <1>2, <1>5, <2>1, WalkHere
    <2>3. n = 0
      BY <1>1, <1>5, <2>2 DEF getReadSize
    <2>4. QED
      BY <1>5, <2>2, <2>3, CrashStep DEF Goal
  <1>6. CASE /\ n <= getReadSize /\ ~ w.null
             /\ done' = [op |-> "read", bytes |-> At(blocks, w.cells)]
             /\ m_cur' = w.cur /\ m_position' = m_position + n
             /\ UNCHANGED <<blocks, m_size, m_capacity, crashed>>
    <2>1. m_position + n <= m_size /\ m_position + n <= m_capacity
      BY <1>1, <1>6 DEF getReadSize
    <2>2. m_position # m_capacity
      <3> SUFFICES ASSUME m_position = m_capacity PROVE w.null
        BY <1>6
      <3>1. m_cur = 0
        BY ByteInvFacts DEF BlockAt
      <3>2. QED
        BY <1>2, <3>1, WalkNull
    <2>3. w.cells = Run(m_position, n) /\ w.cur = BlockAt(Len(blocks), m_position + n)
      BY <1>2, <2>1, <2>2, WalkHere
    <2>4. ByteInv' /\ Abstract!Next
      BY <1>3, <1>6, <2>1, <2>3, ReadStep
    <2>5. QED
      BY <2>4 DEF Goal
  <1>7. QED
    BY <1>3, <1>4, <1>5, <1>6

\* setPosition(v) keeps the bytes there are.
LEMMA SetPositionStep ==
  ASSUME ByteInv, NEW v \in Nat, SetPosition(v)
  PROVE  Goal
  <1>1. /\ blocks \in Seq(Block) /\ m_position \in Nat /\ m_size \in Nat /\ m_capacity \in Nat
        /\ m_position <= m_size /\ m_size <= m_capacity /\ m_capacity = Len(blocks) * BaseSize
        /\ Len(blocks) \in Nat \ {0} /\ crashed \in BOOLEAN
        /\ Contents = BytesOf(blocks, m_size) /\ Len(Contents) = m_size
    BY ByteInvFacts
  <1>2. ~ crashed /\ (Refused \/ v <= m_capacity)
    BY DEF SetPosition
  <1>3. CASE Refused
    BY <1>2, <1>3, RefuseStep DEF Goal
  <1>4. CASE ~ Refused
    <2>1. PICK sz \in Nat : sz = (IF v > m_size THEN v ELSE m_size) /\ v <= sz /\ m_size <= sz
                         /\ sz <= m_capacity
      BY <1>1, <1>2, <1>4
    <2>2. /\ m_position' = v /\ m_cur' = BlockOf(blocks, v) /\ m_size' = sz
          /\ done' = [op |-> "seek", bytes |-> <<>>] /\ UNCHANGED <<blocks, m_capacity, crashed>>
      BY <1>4, <2>1 DEF SetPosition
    <2>3. /\ v <= Len(blocks) * BaseSize /\ sz <= Len(blocks) * BaseSize /\ Len(blocks) > 0
          /\ m_size <= Len(blocks) * BaseSize
      BY <1>1, <1>2, <1>4, <2>1
    <2>4. BlockOf(blocks, v) = BlockAt(Len(blocks), v)
      BY <1>1, <2>3, BlockOfIs
    <2>5. ByteInv' /\ Contents' = BytesOf(blocks, sz)
      <3>1. /\ blocks' = blocks /\ m_capacity' = Len(blocks) * BaseSize /\ crashed' \in BOOLEAN
            /\ m_cur' = BlockAt(Len(blocks), v)
        BY <1>1, <2>2, <2>4
      <3>2. QED
        BY <1>1, <2>1, <2>2, <2>3, <3>1, ByteInvNext
    <2>6. PICK s \in Seq(Byte) : s = BytesOf(blocks, sz) /\ Len(s) = sz
      BY <1>1, <2>1, <2>3, DataIsSeq
    <2>7. SubSeq(s, 1, m_size) = Contents
      <3>0. 0 \in Nat /\ 0 + m_size <= sz
        BY <1>1, <2>1
      <3>1. Slice(blocks, sz, 0, m_size) = Part(blocks, 0, m_size)
        BY <1>1, <2>1, <2>3, <3>0, DataPart
      <3>2. Part(blocks, 0, m_size) = BytesOf(blocks, m_size)
        BY DEF BytesOf, Part
      <3>3. 0 + 1 = 1 /\ 0 + m_size = m_size
        BY <1>1
      <3>4. QED
        BY <1>1, <2>6, <3>1, <3>2, <3>3 DEF Slice
    <2>8. Abstract!Seek
      BY <1>1, <2>1, <2>2, <2>5, <2>6, <2>7 DEF Abstract!Seek
    <2>9. crashed = FALSE /\ crashed' = FALSE
      BY <1>1, <1>2, <2>2
    <2>10. QED
      BY <2>5, <2>8, <2>9 DEF Goal, Abstract!Next
  <1>5. QED
    BY <1>3, <1>4

\* clear keeps the first block, with no bytes.
LEMMA ClearStep ==
  ASSUME ByteInv, ClearBytes
  PROVE  Goal
  <1>1. blocks \in Seq(Block) /\ Len(blocks) \in Nat \ {0} /\ crashed \in BOOLEAN
    BY ByteInvFacts
  <1>2. /\ ~ crashed /\ blocks' = <<blocks[1]>> /\ m_cur' = 1
        /\ m_position' = 0 /\ m_size' = 0 /\ m_capacity' = BaseSize
        /\ done' = [op |-> "clear", bytes |-> <<>>] /\ UNCHANGED crashed
    BY DEF ClearBytes
  <1>3. PICK b \in Seq(Block) : b = <<blocks[1]>> /\ Len(b) = 1
    <2>1. PICK x \in Block : x = blocks[1]
      BY <1>1
    <2>2. <<x>> \in Seq(Block) /\ Len(<<x>>) = 1
      BY <2>1
    <2>3. QED
      BY <2>1, <2>2
  <1>4. BlockAt(1, 0) = 1
    <2>1. 1 \in 1 .. 1 /\ 0 \in 0 .. BaseSize - 1 /\ (1 - 1) * BaseSize + 0 = 0
      BY ByteArrayAssumption
    <2>2. QED
      BY <2>1, BlockAtOffset
  <1>5. ByteInv' /\ Contents' = BytesOf(b, 0)
    <2>1. /\ Len(b) > 0 /\ 0 <= Len(b) * BaseSize /\ m_capacity' = Len(b) * BaseSize
          /\ m_cur' = BlockAt(Len(b), 0) /\ crashed' \in BOOLEAN /\ blocks' = b
      BY <1>1, <1>2, <1>3, <1>4, ByteArrayAssumption
    <2>2. QED
      BY <1>2, <2>1, ByteInvNext
  <1>6. BytesOf(b, 0) = <<>>
    BY DEF BytesOf
  <1>7. Abstract!Clear
    BY <1>2, <1>5, <1>6 DEF Abstract!Clear
  <1>8. crashed = FALSE /\ crashed' = FALSE
    BY <1>1, <1>2
  <1>9. QED
    BY <1>5, <1>7, <1>8 DEF Goal, Abstract!Next

\* A read of a stream: room for n bytes, of which those that came are kept.
LEMMA ReadFromSocketStep ==
  ASSUME ByteInv, NEW n \in Nat \ {0}, NEW bytes \in Seq(Byte), ReadFromSocket(n, bytes)
  PROVE  Goal
  <1>1. PICK cap : cap = AddCapacity(n)
    OBVIOUS
  <1>2. PICK w : w = Walk(cap.blocks, cap.cur, Offset, n)
    OBVIOUS
  <1>3. PICK k \in Nat : k = Len(bytes)
    OBVIOUS
  <1>4. /\ ~ w.null /\ w.cells = Run(m_position, n)
    BY <1>1, <1>2, WalkRoom
  <1>5. /\ ~ crashed /\ k <= n
        /\ blocks' = Put(cap.blocks, SubSeq(w.cells, 1, k), bytes)
        /\ m_capacity' = cap.capacity /\ m_position' = m_position + k
        /\ m_cur' = IF bytes = <<>> THEN cap.cur ELSE BlockOf(cap.blocks, m_position + k)
        /\ m_size' = IF m_position + k > m_size THEN m_position + k ELSE m_size
        /\ done' = [op |-> "write", bytes |-> bytes] /\ crashed' = crashed
    BY <1>1, <1>2, <1>3, <1>4 DEF ReadFromSocket
  <1>6. SubSeq(w.cells, 1, k) = Run(m_position, k)
    <2>1. m_position \in Nat /\ k \in 0 .. n /\ n \in Nat
      BY <1>5, ByteInvFacts
    <2>2. QED
      BY <1>4, <2>1, RunPrefix
  <1>7. m_cur' = BlockAt(Len(cap.blocks), m_position + k)
    <2>1. /\ cap.blocks \in Seq(Block) /\ Len(cap.blocks) >= Len(blocks)
          /\ cap.capacity = BaseSize * Len(cap.blocks) /\ m_position + n <= cap.capacity
          /\ cap.cur = BlockAt(Len(cap.blocks), m_position)
      BY <1>1, RoomMade
    <2>2. m_position \in Nat /\ Len(blocks) \in Nat \ {0}
      BY ByteInvFacts
    <2>3. CASE bytes = <<>>
      <3>1. k = 0 /\ m_position + k = m_position
        BY <1>3, <2>2, <2>3
      <3>2. QED
        BY <1>5, <2>1, <2>3, <3>1
    <2>4. CASE bytes # <<>>
      <3>1. /\ m_position + k \in Nat /\ m_position + k <= Len(cap.blocks) * BaseSize
            /\ Len(cap.blocks) > 0
        <4>1. BaseSize * Len(cap.blocks) \in Nat
              /\ BaseSize * Len(cap.blocks) = Len(cap.blocks) * BaseSize
          BY <2>1, ByteArrayAssumption
        <4>2. QED
          BY <1>5, <2>1, <2>2, <4>1
      <3>2. BlockOf(cap.blocks, m_position + k) = BlockAt(Len(cap.blocks), m_position + k)
        BY <2>1, <3>1, BlockOfIs
      <3>3. QED
        BY <1>5, <2>4, <3>2
    <2>5. QED
      BY <2>3, <2>4
  <1>8. blocks' = Put(cap.blocks, Run(m_position, k), bytes)
    BY <1>5, <1>6
  <1>9. ByteInv' /\ Abstract!Next
    BY <1>1, <1>3, <1>5, <1>7, <1>8, WriteStep
  <1>10. QED
    BY <1>9 DEF Goal

\* A write to a stream takes the bytes that were sent.
LEMMA WriteToSocketStep ==
  ASSUME ByteInv, NEW n \in Nat, NEW k \in Nat \ {0}, WriteToSocket(n, k)
  PROVE  Goal
  <1>1. /\ blocks \in Seq(Block) /\ m_position \in Nat /\ m_size \in Nat /\ m_capacity \in Nat
        /\ m_position <= m_size /\ m_size <= m_capacity /\ m_capacity = Len(blocks) * BaseSize
        /\ Len(blocks) \in Nat \ {0}
    BY ByteInvFacts
  <1>2. PICK len : len = IF n > getReadSize THEN getReadSize ELSE n
    OBVIOUS
  <1>3. PICK w : w = Walk(blocks, m_cur, Offset, len)
    OBVIOUS
  <1>4. ~ crashed /\ k \in 1 .. len
    BY <1>2 DEF WriteToSocket
  <1>5. len \in Nat /\ k <= len /\ m_position + len <= m_size /\ m_position + k <= m_size
        /\ m_position + len <= m_capacity /\ m_position # m_capacity
    BY <1>1, <1>2, <1>4 DEF getReadSize
  <1>6. ~ w.null /\ w.cells = Run(m_position, len)
    BY <1>3, <1>5, WalkHere
  <1>7. /\ done' = [op |-> "read", bytes |-> At(blocks, SubSeq(w.cells, 1, k))]
        /\ m_position' = m_position + k /\ m_cur' = BlockOf(blocks, m_position + k)
        /\ UNCHANGED <<blocks, m_size, m_capacity, crashed>>
    BY <1>2, <1>3, <1>6 DEF WriteToSocket
  <1>8. SubSeq(w.cells, 1, k) = Run(m_position, k)
    <2>1. k \in 0 .. len
      BY <1>4, <1>5
    <2>2. QED
      BY <1>1, <1>5, <1>6, <2>1, RunPrefix
  <1>9. BlockOf(blocks, m_position + k) = BlockAt(Len(blocks), m_position + k)
    <2>1. /\ m_position + k \in Nat /\ m_position + k <= Len(blocks) * BaseSize
          /\ Len(blocks) > 0
      BY <1>1, <1>5
    <2>2. QED
      BY <1>1, <2>1, BlockOfIs
  <1>10. done' = [op |-> "read", bytes |-> At(blocks, Run(m_position, k))]
    BY <1>7, <1>8
  <1>11. ByteInv' /\ Abstract!Next
    BY <1>4, <1>5, <1>7, <1>9, <1>10, ReadStep
  <1>12. QED
    BY <1>11 DEF Goal

\* toString shows what is left and moves nothing.
LEMMA PeekStep ==
  ASSUME ByteInv, Peek
  PROVE  Goal
  <1>1. /\ blocks \in Seq(Block) /\ m_position \in Nat /\ m_size \in Nat /\ m_capacity \in Nat
        /\ m_position <= m_size /\ m_size <= m_capacity /\ m_capacity = Len(blocks) * BaseSize
        /\ Len(blocks) \in Nat \ {0} /\ crashed \in BOOLEAN
        /\ Contents = BytesOf(blocks, m_size) /\ Len(Contents) = m_size
    BY ByteInvFacts
  <1>2. PICK k \in Nat : k = getReadSize /\ m_position + k = m_size
    BY <1>1 DEF getReadSize
  <1>3. PICK w : w = Walk(blocks, m_cur, Offset, k)
    OBVIOUS
  <1>4. k > 0 => ~ w.null /\ w.cells = Run(m_position, k)
    <2> SUFFICES ASSUME k > 0 PROVE ~ w.null /\ w.cells = Run(m_position, k)
      OBVIOUS
    <2>1. m_position + k <= m_capacity /\ m_position # m_capacity
      BY <1>1, <1>2
    <2>2. QED
      BY <1>3, <2>1, WalkHere
  <1>5. /\ ~ crashed
        /\ done' = [op |-> "peek", bytes |-> IF k = 0 THEN <<>> ELSE At(blocks, w.cells)]
        /\ UNCHANGED <<blocks, m_cur, m_position, m_size, m_capacity, crashed>>
    BY <1>2, <1>3, <1>4 DEF Peek
  <1>6. (IF k = 0 THEN <<>> ELSE At(blocks, w.cells)) = Part(blocks, m_position, k)
    <2>1. CASE k = 0
      BY <2>1 DEF Part
    <2>2. CASE k # 0
      BY <1>1, <1>4, <2>2, AtRun
    <2>3. QED
      BY <2>1, <2>2
  <1>7. Part(blocks, m_position, k) = SubSeq(Contents, m_position + 1, m_size)
    <2>1. m_size <= Len(blocks) * BaseSize /\ m_position + k <= m_size
      BY <1>1, <1>2
    <2>2. Slice(blocks, m_size, m_position, k) = Part(blocks, m_position, k)
      BY <1>1, <2>1, DataPart
    <2>3. QED
      BY <1>1, <1>2, <2>2 DEF Slice
  <1>8. ByteInv' /\ Contents' = Contents
    BY <1>5 DEF ByteInv, ByteTypes, BlockAt, Contents
  <1>9. Abstract!Peek
    <2>1. done' = [op |-> "peek", bytes |-> SubSeq(Contents, m_position + 1, Len(Contents))]
      BY <1>1, <1>5, <1>6, <1>7
    <2>2. QED
      BY <1>5, <1>8, <2>1 DEF Abstract!Peek
  <1>10. crashed = FALSE /\ crashed' = FALSE
    BY <1>1, <1>5
  <1>11. QED
    BY <1>8, <1>9, <1>10 DEF Goal, Abstract!Next

\* What is written is a sequence of bytes.
LEMMA ByteStringsAreBytes ==
  ASSUME NEW bytes \in ByteStrings
  PROVE  bytes \in Seq(Byte)
  BY ByteArrayAssumption DEF ByteStrings, BoundedSeq, SeqOf

\* A step of the array keeps the invariant and is a step of the tape.
LEMMA ByteStep ==
  ASSUME ByteInv, [ByteNext]_byteVars
  PROVE  ByteInv' /\ [Abstract!Next \/ Abstract!Crash]_(Abstract!tapeVars)
  <1>1. CASE UNCHANGED byteVars
    <2>1. ByteInv' /\ Contents' = Contents
      BY <1>1 DEF byteVars, ByteInv, ByteTypes, BlockAt, Contents
    <2>2. UNCHANGED Abstract!tapeVars
      BY <1>1, <2>1 DEF byteVars, Abstract!tapeVars
    <2>3. QED
      BY <2>1, <2>2
  <1>2. CASE \E bytes \in ByteStrings : WriteBytes(bytes)
    BY <1>2, ByteStringsAreBytes, WriteBytesStep DEF Goal
  <1>3. CASE \E n \in 0 .. MaxLen : ReadBytes(n)
    <2>1. PICK n \in 0 .. MaxLen : ReadBytes(n)
      BY <1>3
    <2>2. QED
      BY <2>1, ReadBytesStep, ByteArrayAssumption DEF Goal
  <1>4. CASE \E v \in 0 .. MaxCapacity : SetPosition(v)
    <2>1. PICK v \in 0 .. MaxCapacity : SetPosition(v)
      BY <1>4
    <2>2. QED
      BY <2>1, SetPositionStep, ByteArrayAssumption DEF Goal
  <1>5. CASE \E n \in 1 .. MaxLen, bytes \in ByteStrings : ReadFromSocket(n, bytes)
    <2>1. PICK n \in 1 .. MaxLen, bytes \in ByteStrings : ReadFromSocket(n, bytes)
      BY <1>5
    <2>2. n \in Nat \ {0} /\ bytes \in Seq(Byte)
      BY ByteArrayAssumption, ByteStringsAreBytes
    <2>3. QED
      BY <2>1, <2>2, ReadFromSocketStep DEF Goal
  <1>6. CASE \E n \in 1 .. MaxLen : \E k \in 1 .. n : WriteToSocket(n, k)
    <2>1. PICK n \in 1 .. MaxLen : \E k \in 1 .. n : WriteToSocket(n, k)
      BY <1>6
    <2>2. PICK k \in 1 .. n : WriteToSocket(n, k)
      BY <2>1
    <2>3. n \in Nat /\ k \in Nat \ {0}
      BY ByteArrayAssumption
    <2>4. QED
      BY <2>2, <2>3, WriteToSocketStep DEF Goal
  <1>7. CASE Peek
    BY <1>7, PeekStep DEF Goal
  <1>8. CASE ClearBytes
    BY <1>8, ClearStep DEF Goal
  <1>9. QED
    BY <1>1, <1>2, <1>3, <1>4, <1>5, <1>6, <1>7, <1>8 DEF ByteNext

\* The empty array is the empty tape.
LEMMA ByteStart ==
  ASSUME ByteInit
  PROVE  ByteInv /\ Abstract!Init
  <1>1. FreshBlock \in Block
    BY ByteArrayAssumption DEF FreshBlock, Block
  <1>2. blocks \in Seq(Block) /\ Len(blocks) = 1
    BY <1>1 DEF ByteInit
  <1>3. BlockAt(1, 0) = 1
    <2>1. 1 \in 1 .. 1 /\ 0 \in 0 .. BaseSize - 1 /\ (1 - 1) * BaseSize + 0 = 0
      BY ByteArrayAssumption
    <2>2. QED
      BY <2>1, BlockAtOffset
  <1>4. ByteInv
    <2>1. m_capacity = BaseSize * Len(blocks) /\ m_cur \in 0 .. Len(blocks)
      BY <1>2, ByteArrayAssumption DEF ByteInit
    <2>2. m_position <= m_size /\ m_size <= m_capacity
      BY ByteArrayAssumption DEF ByteInit
    <2>3. crashed \in BOOLEAN
      BY DEF ByteInit
    <2>4. ByteTypes
      BY <1>2, <2>1, <2>2, <2>3 DEF ByteTypes, Block
    <2>5. QED
      BY <1>2, <1>3, <2>4 DEF ByteInit, ByteInv
  <1>5. Contents = <<>>
    BY DEF ByteInit, Contents
  <1>6. QED
    BY <1>4, <1>5 DEF ByteInit, Abstract!Init

\* The current block of a ByteArray is always the block of its position, and its
\* size is between the position and the capacity (bytearray.h).
THEOREM ByteInvAlways == ByteSpec => []ByteInv
  <1>1. ByteInit => ByteInv
    BY ByteStart
  <1>2. ByteInv /\ [ByteNext]_byteVars => ByteInv'
    BY ByteStep
  <1>3. QED
    BY <1>1, <1>2, PTL DEF ByteSpec

\* The blocks implement one sequence of bytes, for every size of a block, every
\* set of bytes and every bound: each step of ByteArray is a step of Tape, and
\* NULL is followed only by a read of no bytes at the end of the data.
THEOREM ByteArrayImplementsTape == ByteSpec => TapeSpec
  <1>1. ByteInit => Abstract!Init
    BY ByteStart
  <1>2. ByteInv /\ [ByteNext]_byteVars => [Abstract!Next \/ Abstract!Crash]_(Abstract!tapeVars)
    BY ByteStep
  <1>3. QED
    BY <1>1, <1>2, ByteInvAlways, PTL DEF ByteSpec, TapeSpec, Abstract!Spec
=============================================================================
