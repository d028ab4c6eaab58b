----------------------------- MODULE WebSocket -----------------------------
(***************************************************************************)
(* WSRecvMessage: frames are collected into messages, with control frames  *)
(* in between, for a server (handleClient of WSServer) or a client.        *)
(*                                                                         *)
(* A byte is the set of its bits.  The payload of the k-th frame is that   *)
(* many bytes {k}; masked, they are on the wire as WSSendMessage writes    *)
(* them.  A frame is 2 bytes of head, 4 of mask if it is masked, and its   *)
(* payload.  A read that fails is in HttpSession; here the stream is       *)
(* intact until it ends.  Payloads are shorter than 126 bytes, and sizes   *)
(* far below the width of length, so that cur_len + length is their sum.   *)
(***************************************************************************)
EXTENDS Naturals, SequencesExt

CONSTANTS MaxSize,     \* websocket.message.max_size
          MaxPayload,  \* bytes in a frame, or in what is taken for one
          MaxFrames    \* frames the peer sends

ASSUME WsAssumption == MaxSize \in Nat /\ MaxPayload \in Nat /\ MaxFrames \in Nat

VARIABLES
  client,    \* WSRecvMessage's argument
  opcode,    \* its locals: the opcode, 0 for none yet, and the data, with cur_len bytes
  data,
  wsPhase,   \* "recv", "handle", "closed"
  given,     \* the message that was returned
  stray,     \* bytes in the stream before the head of the next frame
  midst,     \* the peer has sent some, but not all frames of a message
  sent,      \* history: the data frames sent since the last message was handed on
  masked,    \* history: every frame so far was masked
  unread,    \* history: a control frame has left bytes in the stream
  count      \* frames sent

wsVars == <<client, opcode, data, wsPhase, given, stray, midst, sent, masked, unread,
            count>>

Data == {"CONTINUE", "TEXT", "BIN"}
Control == {"PING", "PONG", "CLOSE"}
Frame == [op : Data \cup Control, fin : BOOLEAN, mask : BOOLEAN, payload : 0 .. MaxPayload]
Nothing == [op |-> "CONTINUE", data |-> <<>>]

WsInit ==
  /\ client \in BOOLEAN
  /\ opcode = "CONTINUE" /\ data = <<>> /\ wsPhase = "recv" /\ given = Nothing
  /\ stray = 0 /\ midst = FALSE /\ sent = <<>> /\ masked = TRUE /\ unread = FALSE /\ count = 0

Xor(a, b) == (a \ b) \cup (b \ a)
Key == [j \in 0 .. 3 |-> {j}]

\* What the k-th frame says, and how it is written.
Payload(f, k) == [i \in 1 .. f.payload |-> {k}]
Wire(f, k) == [i \in 1 .. f.payload |->
                 IF f.mask THEN Xor(Payload(f, k)[i], Key[(i - 1) % 4]) ELSE Payload(f, k)[i]]

\* data[cur_len + i] ^= mask[i % 4].
Unmask(f, bytes) ==
  [i \in 1 .. f.payload |-> IF f.mask THEN Xor(bytes[i], Key[(i - 1) % 4]) ELSE bytes[i]]

\* The bytes of a frame behind its head.
Trailer(f) == (IF f.mask THEN 4 ELSE 0) + f.payload

\* The next frame of a peer that keeps to the protocol: fragments of one message at
\* a time.
Sends(f) ==
  /\ wsPhase = "recv" /\ count < MaxFrames /\ count' = count + 1
  /\ masked' = (masked /\ f.mask)
  /\ \/ f.op \in Control /\ f.fin /\ UNCHANGED <<midst, sent>>
     \/ /\ f.op \in Data /\ (f.op = "CONTINUE" <=> midst)
        /\ midst' = ~ f.fin
        /\ sent' = Append(sent, [op |-> f.op, data |-> Payload(f, count')])

CloseStream ==
  /\ wsPhase' = "closed" /\ opcode' = "CONTINUE" /\ data' = <<>>
  /\ UNCHANGED <<client, given>>

\* PING, answered by WSPong; PONG; any other opcode.
ControlHead(f) ==
  \/ f.op = "PING" /\ CloseStream
  \/ UNCHANGED <<client, opcode, data, wsPhase, given>>

\* A data frame is refused: not masked, too long, or empty - readFixSize
\* returns 0 for it.
Refusing(f) ==
  \/ ~ client /\ ~ f.mask
  \/ Len(data) + f.payload >= MaxSize
  \/ f.payload = 0

\* Variant: the opcode of the last frame.
OpcodeLast(f) == f.op

OpcodeAfter(f) == IF opcode = "CONTINUE" THEN f.op ELSE opcode

\* bytes: what the payload is once it is unmasked.
DataHead(f, bytes) ==
  \/ Refusing(f) /\ CloseStream
  \/ /\ ~ Refusing(f)
     /\ data' = data \o bytes /\ opcode' = OpcodeAfter(f)
     /\ IF f.fin THEN wsPhase' = "handle" /\ given' = [op |-> opcode', data |-> data']
        ELSE UNCHANGED <<wsPhase, given>>
     /\ UNCHANGED client

\* Of a control frame neither the mask nor the payload is read.
RecvControl(f) ==
  /\ stray = 0 /\ f.op \in Control /\ Sends(f)
  /\ ControlHead(f)
  /\ stray' = Trailer(f)
  /\ unread' = (unread \/ Trailer(f) > 0)

RecvData(f) ==
  /\ stray = 0 /\ f.op \in Data /\ Sends(f)
  /\ DataHead(f, Unmask(f, Wire(f, count')))
  /\ UNCHANGED <<stray, unread>>

\* Behind such a control frame the next frame comes while bytes are left ...
SendBehind(f) ==
  /\ stray > 0 /\ Sends(f)
  /\ stray' = stray + 2 + Trailer(f)
  /\ UNCHANGED <<client, opcode, data, wsPhase, given, unread>>

\* ... which are read as a head, whatever they say, and as the mask and the
\* payload that go with it; {} stands for a byte of no payload.
RecvStray(f) ==
  /\ wsPhase = "recv" /\ stray >= 2
  /\ \/ f.op \in Control /\ ControlHead(f) /\ stray' = stray - 2
     \/ /\ f.op \in Data /\ (Refusing(f) \/ stray >= 2 + Trailer(f))
        /\ DataHead(f, [i \in 1 .. f.payload |-> {}])
        /\ stray' = IF Refusing(f) THEN stray ELSE stray - (2 + Trailer(f))
  /\ UNCHANGED <<midst, sent, masked, unread, count>>

\* handle(), then the next recvMessage, or the end when handle() says so.
HandleMessage ==
  /\ wsPhase = "handle"
  /\ wsPhase' \in {"recv", "closed"}
  /\ opcode' = "CONTINUE" /\ data' = <<>> /\ given' = Nothing /\ sent' = <<>>
  /\ UNCHANGED <<client, stray, midst, masked, unread, count>>

StreamEnds ==
  /\ wsPhase = "recv" /\ CloseStream
  /\ UNCHANGED <<stray, midst, sent, masked, unread, count>>

WsNext ==
  \/ HandleMessage \/ StreamEnds
  \/ \E f \in Frame : RecvControl(f) \/ RecvData(f) \/ SendBehind(f) \/ RecvStray(f)

\* The socket by itself.
WsSpec == WsInit /\ [][WsNext]_wsVars

-----------------------------------------------------------------------------
WsTypes ==
  /\ client \in BOOLEAN /\ opcode \in Data /\ (data # <<>> => Len(data) < MaxSize)
  /\ wsPhase \in {"recv", "handle", "closed"} /\ stray \in Nat /\ midst \in BOOLEAN
  /\ masked \in BOOLEAN /\ unread \in BOOLEAN /\ count \in 0 .. MaxFrames

SentMessage == [op |-> sent[1].op, data |-> FlattenSeq([i \in DOMAIN sent |-> sent[i].data])]

(***************************************************************************)
(* A message is handed on as it was sent, whether its frames are masked or *)
(* not: the opcode of its first frame and the bytes of all its frames in   *)
(* order.  What is collected so far always belongs to the message that is  *)
(* being sent, and collecting ends with its last frame.  This allows for   *)
(* control frames in between, if they have neither mask nor payload, as    *)
(* WSPing and WSPong write them; any other one leaves bytes in the stream. *)
(***************************************************************************)
WsIntact ==
  ~ unread =>
    /\ wsPhase = "handle" => ~ midst /\ sent # <<>> /\ given = SentMessage
    /\ wsPhase = "recv" => IF midst THEN data = SentMessage.data ELSE sent = <<>> /\ data = <<>>

(***************************************************************************)
(* A server hands on the messages that were sent, with the opcode of their *)
(* first frame, by a client that masks all its frames.                     *)
(***************************************************************************)
MessageWasSent ==
  (~ client /\ masked /\ wsPhase = "handle") => sent # <<>> /\ given = SentMessage
=============================================================================
