----------------------------- MODULE ByteArray -----------------------------
(***************************************************************************)
(* ByteArray: a list of blocks of m_baseSize bytes, with m_position,       *)
(* m_size, m_capacity and m_cur, the block of the position - NULL when the *)
(* position is behind the last block.                                      *)
(***************************************************************************)
EXTENDS Naturals, SequencesExt

CONSTANTS BaseSize,   \* m_baseSize
          Byte,       \* the values of a byte
          MaxCapacity,\* blocks are added up to this many bytes
          MaxLen      \* bytes handled by one operation

ASSUME ByteArrayAssumption ==
  BaseSize \in Nat \ {0} /\ 0 \in Byte /\ MaxCapacity \in Nat /\ MaxLen \in Nat

VARIABLES
  blocks,      \* the list from m_root, each a sequence of BaseSize bytes
  m_cur,       \* the index of the current block, 0 for NULL
  m_position,
  m_size,
  m_capacity,
  done,        \* the last operation and its bytes
  crashed      \* a NULL m_cur was dereferenced

byteVars == <<blocks, m_cur, m_position, m_size, m_capacity, done, crashed>>

\* The bytes of a fresh block are not initialised; 0 stands for them.
FreshBlock == [i \in 1 .. BaseSize |-> 0]
NextOf(b, c) == IF c < Len(b) THEN c + 1 ELSE 0

ByteInit ==
  /\ blocks = <<FreshBlock>> /\ m_cur = 1
  /\ m_position = 0 /\ m_size = 0 /\ m_capacity = BaseSize
  /\ done = [op |-> "none", bytes |-> <<>>] /\ crashed = FALSE

getReadSize == m_size - m_position
getCapacity == m_capacity - m_position

\* Variant: m_cur is not repaired when it was NULL.
AddCapacityOnly(n) ==
  IF n = 0 \/ getCapacity >= n
  THEN [blocks |-> blocks, cur |-> m_cur, capacity |-> m_capacity]
  ELSE LET count == (n - getCapacity + BaseSize - 1) \div BaseSize
       IN  [blocks |-> blocks \o [i \in 1 .. count |-> FreshBlock],
            cur |-> m_cur, capacity |-> m_capacity + count * BaseSize]

\* addCapacity: the blocks, the current block and the capacity after it.
AddCapacity(n) ==
  IF n = 0 \/ getCapacity >= n
  THEN [blocks |-> blocks, cur |-> m_cur, capacity |-> m_capacity]
  ELSE LET count == (n - getCapacity + BaseSize - 1) \div BaseSize
       IN  [blocks |-> blocks \o [i \in 1 .. count |-> FreshBlock],
            cur |-> IF getCapacity = 0 THEN Len(blocks) + 1 ELSE m_cur,
            capacity |-> m_capacity + count * BaseSize]

(***************************************************************************)
(* The loop that write, read and the getBuffers functions share: from      *)
(* block c and offset npos, the cells of the next n bytes, block by block, *)
(* and the block where the loop ends.                                      *)
(***************************************************************************)
Cells(c, from, n) == [i \in 1 .. n |-> <<c, from + i>>]

\* One turn of the loop: the rest lies in this block, or the block is used up.
WalkStep(b, st) ==
  LET ncap == BaseSize - st.npos
  IN  IF st.left = 0 \/ st.null THEN st
      ELSE IF ncap >= st.left
      THEN [st EXCEPT !.cells = @ \o Cells(st.cur, st.npos, st.left), !.left = 0,
                      !.cur = IF st.npos + st.left = BaseSize THEN NextOf(b, @) ELSE @]
      ELSE [st EXCEPT !.cells = @ \o Cells(st.cur, st.npos, ncap), !.left = @ - ncap,
                      !.cur = NextOf(b, @), !.npos = 0, !.null = NextOf(b, st.cur) = 0]

\* Every turn handles a byte, so n turns are enough.
WalkStart(c, npos, n) == [cells |-> <<>>, cur |-> c, npos |-> npos, left |-> n, null |-> c = 0]
Walk(b, c, npos, n) ==
  LET turn[i \in 0 .. n] ==
        IF i = 0 THEN WalkStart(c, npos, n) ELSE WalkStep(b, turn[i - 1])
  IN  turn[n]

At(b, cells) == [i \in DOMAIN cells |-> b[cells[i][1]][cells[i][2]]]
Put(b, cells, bytes) ==
  [k \in DOMAIN b |-> [j \in 1 .. BaseSize |->
     IF \E i \in DOMAIN cells : cells[i] = <<k, j>>
     THEN bytes[CHOOSE i \in DOMAIN cells : cells[i] = <<k, j>>] ELSE b[k][j]]]

Offset == m_position % BaseSize

Refused ==
  /\ done' = [op |-> "refuse", bytes |-> <<>>]
  /\ UNCHANGED <<blocks, m_cur, m_position, m_size, m_capacity, crashed>>

\* NULL is dereferenced by an operation on n bytes; done names it, its bytes unknown.
Crashes(op, n) ==
  /\ crashed' = TRUE /\ done' = [op |-> op, bytes |-> [i \in 1 .. n |-> 0]]
  /\ UNCHANGED <<blocks, m_cur, m_position, m_size, m_capacity>>

-----------------------------------------------------------------------------
WriteBytes(bytes) ==
  LET n == Len(bytes)
      cap == AddCapacity(n)
      w == Walk(cap.blocks, cap.cur, Offset, n)
  IN  /\ ~ crashed /\ m_position + n <= MaxCapacity
      /\ \/ n = 0 /\ Refused
         \/ n > 0 /\ w.null /\ Crashes("write", n)
         \/ /\ n > 0 /\ ~ w.null
            /\ blocks' = Put(cap.blocks, w.cells, bytes)
            /\ m_cur' = w.cur /\ m_capacity' = cap.capacity
            /\ m_position' = m_position + n
            /\ m_size' = IF m_position' > m_size THEN m_position' ELSE m_size
            /\ done' = [op |-> "write", bytes |-> bytes] /\ UNCHANGED crashed

\* read: m_cur->size is evaluated before the loop, also for no bytes.
ReadBytes(n) ==
  LET w == Walk(blocks, m_cur, Offset, n)
  IN  /\ ~ crashed
      /\ \/ n > getReadSize /\ Refused
         \/ n <= getReadSize /\ w.null /\ Crashes("read", n)
         \/ /\ n <= getReadSize /\ ~ w.null
            /\ done' = [op |-> "read", bytes |-> At(blocks, w.cells)]
            /\ m_cur' = w.cur /\ m_position' = m_position + n
            /\ UNCHANGED <<blocks, m_size, m_capacity, crashed>>

\* toString: read(buf, size, m_position) leaves the members alone.
Peek ==
  LET w == Walk(blocks, m_cur, Offset, getReadSize)
  IN  /\ ~ crashed
      /\ \/ getReadSize > 0 /\ w.null /\ Crashes("peek", getReadSize)
         \/ /\ getReadSize > 0 => ~ w.null
            /\ done' = [op |-> "peek", bytes |-> IF getReadSize = 0 THEN <<>> ELSE At(blocks, w.cells)]
            /\ UNCHANGED <<blocks, m_cur, m_position, m_size, m_capacity, crashed>>

\* setPosition(v): the block is looked for from m_root.
BlockOf(b, v) ==
  LET k == IF v = 0 THEN 1 ELSE (v + BaseSize - 1) \div BaseSize
  IN  IF v = k * BaseSize THEN NextOf(b, k) ELSE k

\* Variant: the position is not compared with the capacity.
SetAnyPosition(v) ==
  /\ ~ crashed
  /\ m_position' = v /\ m_cur' = BlockOf(blocks, v)
  /\ m_size' = IF v > m_size THEN v ELSE m_size
  /\ done' = [op |-> "seek", bytes |-> <<>>]
  /\ UNCHANGED <<blocks, m_capacity, crashed>>

SetPosition(v) ==
  /\ ~ crashed
  /\ \/ v > m_capacity /\ Refused
     \/ /\ v <= m_capacity
        /\ m_position' = v /\ m_cur' = BlockOf(blocks, v)
        /\ m_size' = IF v > m_size THEN v ELSE m_size
        /\ done' = [op |-> "seek", bytes |-> <<>>]
        /\ UNCHANGED <<blocks, m_capacity, crashed>>

ClearBytes ==
  /\ ~ crashed
  /\ blocks' = <<blocks[1]>> /\ m_cur' = 1
  /\ m_position' = 0 /\ m_size' = 0 /\ m_capacity' = BaseSize
  /\ done' = [op |-> "clear", bytes |-> <<>>] /\ UNCHANGED crashed

\* SocketStream::read: getWriteBuffers for n bytes, recv of some or none, setPosition.
ReadFromSocket(n, bytes) ==
  LET cap == AddCapacity(n)
      w == Walk(cap.blocks, cap.cur, Offset, n)
      v == m_position + Len(bytes)
  IN  /\ ~ crashed /\ Len(bytes) <= n /\ m_position + n <= MaxCapacity
      /\ \/ w.null /\ Crashes("write", n)
         \/ /\ ~ w.null
            /\ blocks' = Put(cap.blocks, SubSeq(w.cells, 1, Len(bytes)), bytes)
            /\ m_capacity' = cap.capacity
            /\ m_position' = v
            /\ m_cur' = IF bytes = <<>> THEN cap.cur ELSE BlockOf(cap.blocks, v)
            /\ m_size' = IF v > m_size THEN v ELSE m_size
            /\ done' = [op |-> "write", bytes |-> bytes] /\ UNCHANGED crashed

\* SocketStream::write: getReadBuffers for at most n bytes, send of k, setPosition.
WriteToSocket(n, k) ==
  LET len == IF n > getReadSize THEN getReadSize ELSE n
      w == Walk(blocks, m_cur, Offset, len)
  IN  /\ ~ crashed /\ k \in 1 .. len
      /\ \/ w.null /\ Crashes("read", len)
         \/ /\ ~ w.null
            /\ done' = [op |-> "read", bytes |-> At(blocks, SubSeq(w.cells, 1, k))]
            /\ m_position' = m_position + k /\ m_cur' = BlockOf(blocks, m_position + k)
            /\ UNCHANGED <<blocks, m_size, m_capacity, crashed>>

\* What an application writes or a peer sends.
ByteStrings == BoundedSeq(Byte \ {0}, MaxLen)

ByteNext ==
  \/ \E bytes \in ByteStrings : WriteBytes(bytes)
  \/ \E n \in 0 .. MaxLen : ReadBytes(n)
  \/ \E v \in 0 .. MaxCapacity : SetPosition(v)
  \/ \E n \in 1 .. MaxLen, bytes \in ByteStrings : ReadFromSocket(n, bytes)
  \/ \E n \in 1 .. MaxLen : \E k \in 1 .. n : WriteToSocket(n, k)
  \/ Peek \/ ClearBytes

\* The array by itself; a run of MCServices plays it as one scene.
ByteSpec == ByteInit /\ [][ByteNext]_byteVars

-----------------------------------------------------------------------------
ByteTypes ==
  /\ blocks \in Seq([1 .. BaseSize -> Byte]) /\ m_cur \in 0 .. Len(blocks)
  /\ m_position <= m_size /\ m_size <= m_capacity /\ m_capacity = BaseSize * Len(blocks)
  /\ crashed \in BOOLEAN

Contents == [i \in 1 .. m_size |-> blocks[(i - 1) \div BaseSize + 1][((i - 1) % BaseSize) + 1]]
Abstract == INSTANCE Tape WITH data <- Contents, pos <- m_position, io <- done, fault <- crashed

(***************************************************************************)
(* The blocks implement one sequence of bytes: what is read back is what   *)
(* was written, wherever the ends of the blocks are, and NULL is followed  *)
(* only by a read of no bytes at the end.                                  *)
(***************************************************************************)
TapeSpec == Abstract!Spec
=============================================================================
