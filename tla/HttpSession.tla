---------------------------- MODULE HttpSession ----------------------------
(***************************************************************************)
(* A server session: HttpServer::handleClient with recvRequest,            *)
(* sendResponse and the readFixSize and writeFixSize of Stream, over a     *)
(* socket that delivers the bytes of the requests in pieces.               *)
(*                                                                         *)
(* A request is HeadLen bytes of head, then BodyLen bytes of body.  Bytes  *)
(* LenFirst to LenLast of the head are its Content-Length line.            *)
(* http_parser_execute starts with its pointers at 0 on every call, so     *)
(* this header reaches the request only when one call sees all of it: when *)
(* a read ends inside, the name is cut or the length of the name is 0.     *)
(***************************************************************************)
EXTENDS Naturals

CONSTANTS HeadLen, LenFirst, LenLast, BodyLen,
          BuffSize,   \* GetHttpRequestBufferSize()
          Requests,   \* requests the peer sends
          MaxFails    \* reads and writes that return -1

ASSUME SessionAssumption ==
  /\ {HeadLen, LenFirst, LenLast, Requests, MaxFails} \subseteq Nat
  /\ 1 <= LenFirst /\ LenFirst <= LenLast /\ LenLast < HeadLen
  /\ BodyLen \in Nat \ {0} /\ BuffSize \in Nat \ {0}

VARIABLES
  sock,       \* "open", "eof" after the peer's FIN, "dead" when every call fails
  taken,      \* bytes read from the socket
  parsed,     \* bytes of the head the parser has seen
  seen,       \* Content-Length is among the headers of the request
  left,       \* readFixSize's and writeFixSize's left
  phase,      \* "head", "body", "send", "closed"
  astray,     \* recvRequest was called with the stream not at the next request
  delivered,  \* requests given to the servlets
  fails,      \* calls that returned -1
  spoilers    \* history: what has put the session out of step

sessionVars == <<sock, taken, parsed, seen, left, phase, astray, delivered, fails, spoilers>>

Size == HeadLen + BodyLen
SessionInit ==
  /\ sock = "open" /\ taken = 0 /\ parsed = 0 /\ seen = FALSE /\ left = 0
  /\ phase = "head" /\ astray = FALSE /\ delivered = 0 /\ fails = 0 /\ spoilers = {}

\* The request is complete: the servlet runs, and sendResponse begins.
Deliver ==
  /\ delivered' = delivered + 1
  /\ phase' = "send" /\ left' = 1

\* Variant: the body in the buffer is read again.
ReadHeadWhole(n) ==
  LET k == IF n > HeadLen - parsed THEN HeadLen - parsed ELSE n
      offset == n - k
      found == seen \/ (parsed < LenFirst /\ parsed + k >= LenLast)
      length == IF found THEN BodyLen ELSE 0
  IN  /\ phase = "head" /\ ~ astray /\ sock = "open"
      /\ n \in 1 .. BuffSize /\ taken + n <= Requests * Size
      /\ taken' = taken + n /\ parsed' = parsed + k /\ seen' = found
      /\ \/ parsed' < HeadLen /\ UNCHANGED <<left, phase, delivered, spoilers>>
         \/ /\ parsed' = HeadLen
            /\ spoilers' = spoilers \cup (IF ~ found THEN {"split"} ELSE {})
                                    \cup (IF offset > BodyLen THEN {"pipelined"} ELSE {})
            /\ IF length > offset
               THEN phase' = "body" /\ left' = length /\ UNCHANGED delivered
               ELSE Deliver
      /\ UNCHANGED <<sock, astray, fails>>

\* read and parser->execute.  When the head ends, the rest of the buffer is
\* taken for the body, as far as Content-Length goes; the rest is dropped.
ReadHead(n) ==
  LET k == IF n > HeadLen - parsed THEN HeadLen - parsed ELSE n
      offset == n - k
      found == seen \/ (parsed < LenFirst /\ parsed + k >= LenLast)
      length == IF found THEN BodyLen ELSE 0
  IN  /\ phase = "head" /\ ~ astray /\ sock = "open"
      /\ n \in 1 .. BuffSize /\ taken + n <= Requests * Size
      /\ taken' = taken + n /\ parsed' = parsed + k /\ seen' = found
      /\ \/ parsed' < HeadLen /\ UNCHANGED <<left, phase, delivered, spoilers>>
         \/ /\ parsed' = HeadLen
            /\ spoilers' = spoilers \cup (IF ~ found THEN {"split"} ELSE {})
                                    \cup (IF offset > BodyLen THEN {"pipelined"} ELSE {})
            /\ IF length > offset
               THEN phase' = "body" /\ left' = length - offset /\ UNCHANGED delivered
               ELSE Deliver
      /\ UNCHANGED <<sock, astray, fails>>

\* The same in the midst of a request or a body.  Of bytes that are no head the
\* parser makes anything: an error, a head that goes on, or one that ends in the
\* buffer, with any Content-Length (up to BodyLen).
ReadStray(n) ==
  /\ phase = "head" /\ astray /\ sock = "open"
  /\ n \in 1 .. BuffSize /\ taken + n <= Requests * Size
  /\ taken' = taken + n
  /\ \/ phase' \in {"head", "closed"} /\ UNCHANGED <<left, delivered>>
     \/ \E offset \in 0 .. n - 1, length \in 0 .. BodyLen :
          IF length > offset
          THEN phase' = "body" /\ left' = length - offset /\ UNCHANGED delivered
          ELSE Deliver
  /\ UNCHANGED <<sock, parsed, seen, astray, fails, spoilers>>

ReadBody(n) ==
  /\ phase = "body" /\ sock = "open"
  /\ n \in 1 .. left /\ taken + n <= Requests * Size
  /\ taken' = taken + n
  /\ IF n = left THEN Deliver ELSE left' = left - n /\ UNCHANGED <<phase, delivered>>
  /\ UNCHANGED <<sock, parsed, seen, astray, fails, spoilers>>

\* Variant: readFixSize reads on.
ReadEofHead ==
  /\ phase = "head" /\ sock = "eof"
  /\ phase' = "closed"
  /\ UNCHANGED <<sock, taken, parsed, seen, left, astray, delivered, fails, spoilers>>

\* read returns 0: both loops give up, and close() follows.
ReadEof ==
  /\ phase \in {"head", "body"} /\ sock = "eof"
  /\ phase' = "closed"
  /\ UNCHANGED <<sock, taken, parsed, seen, left, astray, delivered, fails, spoilers>>

\* read returns -1, a timeout or an error: recvRequest closes ...
ReadHeadFails ==
  /\ phase = "head" /\ (sock = "dead" \/ fails < MaxFails)
  /\ phase' = "closed" /\ fails' = IF sock = "dead" THEN fails ELSE fails + 1
  /\ UNCHANGED <<sock, taken, parsed, seen, left, astray, delivered, spoilers>>

\* ... but the size_t of readFixSize takes it for progress: one more byte to read.
ReadBodyFails ==
  /\ phase = "body" /\ fails < MaxFails /\ fails' = fails + 1
  /\ left' = left + 1
  /\ spoilers' = spoilers \cup {"failed read"}
  /\ UNCHANGED <<sock, taken, parsed, seen, phase, astray, delivered>>

\* sendResponse; then the next recvRequest with a new parser and buffer, or
\* the end of a connection that is not kept alive.
SendResponse(keepalive) ==
  /\ phase = "send" /\ sock # "dead"
  /\ parsed' = 0 /\ seen' = FALSE /\ left' = 0
  /\ phase' = IF keepalive THEN "head" ELSE "closed"
  /\ astray' = (astray \/ (keepalive /\ taken # delivered * Size))
  /\ UNCHANGED <<sock, taken, delivered, fails, spoilers>>

\* writeFixSize takes -1 for progress as well.
SendFails ==
  /\ phase = "send" /\ fails < MaxFails /\ fails' = fails + 1
  /\ left' = left + 1
  /\ UNCHANGED <<sock, taken, parsed, seen, phase, astray, delivered, spoilers>>

\* The peer is done; the connection breaks.
PeerCloses == sock = "open" /\ sock' = "eof"
              /\ UNCHANGED <<taken, parsed, seen, left, phase, astray, delivered, fails, spoilers>>
Breaks == sock # "dead" /\ sock' = "dead"
          /\ UNCHANGED <<taken, parsed, seen, left, phase, astray, delivered, fails, spoilers>>

SessionNext ==
  \/ \E n \in 1 .. BuffSize : ReadHead(n) \/ ReadStray(n) \/ ReadBody(n)
  \/ ReadEof \/ ReadHeadFails \/ ReadBodyFails \/ SendFails
  \/ \E keepalive \in BOOLEAN : SendResponse(keepalive)
  \/ PeerCloses \/ Breaks

\* The session's fiber goes on when its call has an answer; when data comes is
\* up to the peer.
SessionFair == WF_sessionVars(ReadEof \/ (sock = "dead" /\ ReadHeadFails)
                              \/ \E keepalive \in BOOLEAN : SendResponse(keepalive))

-----------------------------------------------------------------------------
SessionTypes ==
  /\ sock \in {"open", "eof", "dead"} /\ taken \in 0 .. Requests * Size
  /\ parsed \in 0 .. HeadLen /\ seen \in BOOLEAN /\ left \in 0 .. BodyLen + MaxFails + 1
  /\ phase \in {"head", "body", "send", "closed"} /\ astray \in BOOLEAN
  /\ delivered \in 0 .. (IF astray THEN Requests * Size ELSE Requests)
  /\ spoilers \subseteq {"split", "pipelined", "failed read"}

(***************************************************************************)
(* recvRequest starts at the first byte of the request after the last one  *)
(* delivered.  Only three things put a session out of step: a              *)
(* Content-Length line cut by a read, bytes of the next request behind the *)
(* body in the buffer, and a read of the body that fails.                  *)
(***************************************************************************)
InStep == astray => spoilers # {}

(***************************************************************************)
(* When the peer has closed or the connection is broken the session ends,  *)
(* in step or not, unless it broke while readFixSize or writeFixSize was   *)
(* at work: these never see the error and try again for ever.              *)
(***************************************************************************)
SessionEnds ==
  (sock # "open") ~> (phase = "closed" \/ (sock = "dead" /\ phase \in {"body", "send"}))
=============================================================================
