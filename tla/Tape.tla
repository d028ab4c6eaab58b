-------------------------------- MODULE Tape --------------------------------
(***************************************************************************)
(* What bytearray.h promises of a ByteArray: a sequence of bytes with one  *)
(* position for reading and writing.  Nothing is said of blocks.           *)
(***************************************************************************)
EXTENDS Naturals, Sequences

VARIABLES data,   \* the bytes, getSize() of them
          pos,    \* getPosition()
          io,     \* the last operation and the bytes that went in or came out
          fault   \* the program has crashed

tapeVars == <<data, pos, io, fault>>

\* The bytes b written over data from position p on.
Over(b, p) ==
  [i \in 1 .. (IF p + Len(b) > Len(data) THEN p + Len(b) ELSE Len(data)) |->
     IF i > p /\ i <= p + Len(b) THEN b[i - p] ELSE data[i]]

Init == data = <<>> /\ pos = 0 /\ io = [op |-> "none", bytes |-> <<>>] /\ fault = FALSE

\* write, and read(ByteArray) of a stream: @post m_position += size.
Write ==
  /\ io'.op = "write"
  /\ data' = Over(io'.bytes, pos) /\ pos' = pos + Len(io'.bytes)

\* read, and write(ByteArray) of a stream: the next bytes, in order.
Read ==
  /\ io'.op = "read" /\ pos + Len(io'.bytes) <= Len(data)
  /\ io'.bytes = SubSeq(data, pos + 1, pos + Len(io'.bytes))
  /\ pos' = pos + Len(io'.bytes) /\ data' = data

\* toString: all that is left, without moving.
Peek ==
  /\ io' = [op |-> "peek", bytes |-> SubSeq(data, pos + 1, Len(data))]
  /\ UNCHANGED <<data, pos>>

\* setPosition may go past the end, over bytes nobody has written.
Seek ==
  /\ io' = [op |-> "seek", bytes |-> <<>>]
  /\ Len(data') = (IF pos' > Len(data) THEN pos' ELSE Len(data))
  /\ SubSeq(data', 1, Len(data)) = data

Clear == io' = [op |-> "clear", bytes |-> <<>>] /\ data' = <<>> /\ pos' = 0

\* An operation that throws out_of_range, or has nothing to do, changes nothing.
Refuse == io' = [op |-> "refuse", bytes |-> <<>>] /\ UNCHANGED <<data, pos>>

Next == ~ fault /\ fault' = FALSE /\ (Write \/ Read \/ Peek \/ Seek \/ Clear \/ Refuse)

\* Only a read of no bytes, and only at the end of the data, may crash.  This is no
\* promise of bytearray.h, by which such a read does nothing; it is what is left of it.
Crash ==
  /\ io' = [op |-> "read", bytes |-> <<>>] /\ pos = Len(data)
  /\ fault' = TRUE /\ UNCHANGED <<data, pos>>

Spec == Init /\ [][Next \/ Crash]_tapeVars
=============================================================================
