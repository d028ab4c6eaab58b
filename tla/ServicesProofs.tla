--------------------------- MODULE ServicesProofs ---------------------------
(***************************************************************************)
(* Proofs about HttpSession, for requests and buffers of any size, about   *)
(* TcpServer, for any number of starts and clients, about WebSocket, for   *)
(* any number of frames of any size, and about ConfigVar, for any number   *)
(* of setters, listeners, values and calls; and, with the proofs about the *)
(* other services, about MCServices, which plays them all.                 *)
(***************************************************************************)
EXTENDS MCServices, HookProofs, PoolProofs, ByteProofs

-----------------------------------------------------------------------------
(***************************************************************************)
(* The session.  Between requests the bytes read are those of the requests *)
(* delivered.  Inside one, a session that nothing has spoiled knows how    *)
(* many bytes are left.  Out of step it has read at least a byte for each  *)
(* request delivered.                                                      *)
(***************************************************************************)

SessionSpec == SessionInit /\ [][SessionNext]_sessionVars

\* The bytes of the requests delivered, and of all requests.
Base == delivered * Size
Total == Requests * Size

Lengths ==
  /\ fails \in 0 .. MaxFails
  /\ delivered <= taken
  /\ phase = "head" => parsed < HeadLen /\ (astray \/ taken = Base + parsed)
  /\ phase = "body" => /\ left \in 1 .. BodyLen + fails
                       /\ delivered < taken /\ (astray \/ taken > Base)
                       /\ spoilers = {} => taken + left = Base + Size
  /\ phase = "send" => /\ left \in 1 .. 1 + fails
                       /\ spoilers = {} => taken = Base

SessionInv == SessionTypes /\ Lengths /\ InStep

\* The constants are numbers.
LEMMA Numbers ==
  /\ HeadLen \in Nat /\ HeadLen > 0 /\ BodyLen \in Nat /\ BodyLen > 0 /\ BuffSize \in Nat
  /\ LenFirst \in Nat /\ LenLast \in Nat /\ Requests \in Nat /\ MaxFails \in Nat
  /\ Size \in Nat /\ Size = HeadLen + BodyLen /\ Size > 0 /\ Total \in Nat
  <1>1. /\ HeadLen \in Nat /\ BodyLen \in Nat /\ BodyLen > 0 /\ BuffSize \in Nat
        /\ LenFirst \in Nat /\ LenLast \in Nat /\ Requests \in Nat /\ MaxFails \in Nat
    BY SessionAssumption
  <1>2. HeadLen > 0
    BY <1>1, SessionAssumption
  <1>3. Size \in Nat /\ Size = HeadLen + BodyLen /\ Size > 0
    BY <1>1, <1>2 DEF Size
  <1>4. Total \in Nat
    BY <1>1, <1>3 DEF Total
  <1>5. QED
    BY <1>1, <1>2, <1>3, <1>4

\* The numbers of a session.
LEMMA Counters ==
  ASSUME SessionInv
  PROVE  /\ taken \in Nat /\ taken <= Total /\ parsed \in Nat /\ parsed <= HeadLen
         /\ left \in Nat /\ left <= BodyLen + MaxFails + 1
         /\ delivered \in Nat /\ delivered <= taken /\ Base \in Nat
         /\ fails \in Nat /\ fails <= MaxFails
  <1>1. taken \in 0 .. Total /\ parsed \in 0 .. HeadLen /\ left \in 0 .. BodyLen + MaxFails + 1
        /\ delivered \in 0 .. (IF astray THEN Total ELSE Requests) /\ delivered <= taken
        /\ fails \in 0 .. MaxFails
    BY DEF SessionInv, SessionTypes, Lengths, Total
  <1>2. delivered \in Nat
    BY <1>1, Numbers
  <1>3. Base \in Nat
    BY <1>2, Numbers DEF Base
  <1>4. QED
    BY <1>1, <1>2, <1>3, Numbers

\* One request more is its length more.
LEMMA OneMore ==
  ASSUME delivered \in Nat
  PROVE  /\ delivered' = delivered => Base' = Base
         /\ delivered' = delivered + 1 => Base' = Base + Size
  <1>1. ASSUME NEW d \in Nat PROVE (d + 1) * Size = d * Size + Size
    BY Numbers
  <1>2. QED
    BY <1>1 DEF Base, Size

\* Whoever has read more than the requests delivered, of the ones that were sent,
\* is not past the last request.
LEMMA NotPastLast ==
  ASSUME delivered \in Nat, NEW n \in Nat, Base < n, n <= Total
  PROVE  delivered + 1 \in 0 .. Requests
  <1>1. SUFFICES ASSUME delivered >= Requests PROVE FALSE
    BY Numbers
  <1>2. ASSUME NEW d \in Nat, NEW r \in Nat, NEW s \in Nat, d >= r PROVE d * s >= r * s
    BY <1>2
  <1>3. Base >= Total
    BY <1>1, <1>2, Numbers DEF Base, Total
  <1>4. Base \in Nat
    BY Numbers DEF Base
  <1>5. QED
    BY <1>3, <1>4, Numbers

\* read and execute: where the head ends, what is in the buffer is body.
LEMMA HeadInStep ==
  ASSUME SessionInv, NEW n \in 1 .. BuffSize, ReadHead(n)
  PROVE  SessionInv'
  <1> DEFINE k == IF n > HeadLen - parsed THEN HeadLen - parsed ELSE n
             offset == n - k
             found == seen \/ (parsed < LenFirst /\ parsed + k >= LenLast)
             length == IF found THEN BodyLen ELSE 0
  <1>0. phase = "head" /\ ~ astray /\ parsed < HeadLen /\ taken = Base + parsed /\ n \in Nat /\ n > 0
    <2>1. phase = "head" /\ ~ astray
      BY DEF ReadHead
    <2>2. parsed < HeadLen /\ taken = Base + parsed
      BY <2>1 DEF SessionInv, Lengths
    <2>3. QED
      BY <2>1, <2>2, Numbers
  <1>1. /\ k \in Nat /\ offset \in Nat /\ n = k + offset /\ k > 0 /\ parsed + k <= HeadLen
        /\ parsed + k < HeadLen => offset = 0
    BY <1>0, Counters, Numbers
  <1>a. (found => length = BodyLen) /\ (~found => length = 0)
    OBVIOUS
  <1>2. /\ taken' = taken + n /\ taken + n <= Total
        /\ parsed' = parsed + k /\ seen' = found /\ UNCHANGED <<sock, astray, fails>>
        /\ \/ parsed' < HeadLen /\ UNCHANGED <<left, phase, delivered, spoilers>>
           \/ /\ parsed' = HeadLen
              /\ spoilers' = spoilers \cup (IF ~ found THEN {"split"} ELSE {})
                                      \cup (IF offset > BodyLen THEN {"pipelined"} ELSE {})
              /\ IF length > offset
                 THEN phase' = "body" /\ left' = length - offset /\ UNCHANGED delivered
                 ELSE delivered' = delivered + 1 /\ phase' = "send" /\ left' = 1
    BY DEF ReadHead, Deliver, Total
  <1>3. seen' \in BOOLEAN
    BY <1>2
  <1> HIDE DEF k, offset, found, length
  <1>4. taken' \in 0 .. Total /\ parsed' \in 0 .. HeadLen
    BY <1>0, <1>1, <1>2, Counters, Numbers
  <1>5. ASSUME left' \in 0 .. BodyLen + MaxFails + 1, delivered' \in 0 .. Requests,
               spoilers' \subseteq {"split", "pipelined", "failed read"},
               phase' \in {"head", "body", "send"}
        PROVE  SessionTypes' /\ InStep'
    BY <1>0, <1>2, <1>3, <1>4, <1>5 DEF SessionInv, SessionTypes, InStep, Total
  <1>6. delivered < taken'
    BY <1>0, <1>2, Counters
  <1>7. CASE parsed' < HeadLen
    <2>1. UNCHANGED <<left, phase, delivered, spoilers>>
      BY <1>2, <1>4, <1>7, Numbers
    <2>2. offset = 0 /\ Base' = Base
      BY <1>1, <1>2, <1>7, <2>1, Counters, OneMore
    <2>3. taken' = Base' + parsed'
      BY <1>0, <1>1, <1>2, <2>2, Counters
    <2>4. SessionTypes' /\ InStep'
      BY <1>0, <1>5, <2>1 DEF SessionInv, SessionTypes
    <2>5. Lengths'
      <3>1. delivered' <= taken'
        BY <1>4, <1>6, <2>1, Counters
      <3>2. QED
        BY <1>0, <1>2, <1>7, <2>1, <2>3, <3>1 DEF SessionInv, Lengths
    <2>6. QED
      BY <2>4, <2>5 DEF SessionInv
  <1>8. CASE parsed' = HeadLen
    <2>1. /\ spoilers' = spoilers \cup (IF ~ found THEN {"split"} ELSE {})
                                  \cup (IF offset > BodyLen THEN {"pipelined"} ELSE {})
          /\ IF length > offset
             THEN phase' = "body" /\ left' = length - offset /\ delivered' = delivered
             ELSE delivered' = delivered + 1 /\ phase' = "send" /\ left' = 1
      BY <1>2, <1>8, Numbers
    <2>2. spoilers' \subseteq {"split", "pipelined", "failed read"}
      BY <2>1 DEF SessionInv, SessionTypes
    <2>3. spoilers' = {} => found /\ ~(offset > BodyLen)
      BY <2>1
    <2>4. taken' = Base + HeadLen + offset
      BY <1>0, <1>1, <1>2, <1>8, Counters, Numbers
    <2>5. CASE length > offset
      <3>1. phase' = "body" /\ left' = length - offset /\ delivered' = delivered /\ fails' = fails
        BY <1>2, <2>1, <2>5
      <3>2. length = BodyLen
        BY <1>1, <1>a, <2>5, Numbers
      <3>3. left' \in 1 .. BodyLen /\ Base' = Base
        BY <1>1, <2>5, <3>1, <3>2, Counters, OneMore, Numbers
      <3>4. left' \in 0 .. BodyLen + MaxFails + 1 /\ left' \in 1 .. BodyLen + fails'
        BY <3>1, <3>3, Counters, Numbers
      <3>5. taken' > Base' /\ taken' + left' = Base' + Size
        BY <1>1, <2>4, <3>1, <3>2, <3>3, Counters, Numbers
      <3>6. SessionTypes' /\ InStep'
        BY <1>0, <1>5, <2>2, <3>1, <3>4 DEF SessionInv, SessionTypes
      <3>7. Lengths'
        <4>1. delivered' < taken' /\ delivered' <= taken'
          BY <1>4, <1>6, <3>1, Counters
        <4>2. QED
          BY <3>1, <3>4, <3>5, <4>1 DEF SessionInv, Lengths
      <3>8. QED
        BY <3>6, <3>7 DEF SessionInv
    <2>6. CASE ~(length > offset)
      <3>1. phase' = "send" /\ left' = 1 /\ delivered' = delivered + 1 /\ fails' = fails
        BY <1>2, <2>1, <2>6
      <3>2. delivered' \in 0 .. Requests
        <4>1. Base < taken' /\ taken' \in Nat /\ taken' <= Total
          BY <1>1, <1>4, <2>4, Counters, Numbers
        <4>2. QED
          BY <3>1, <4>1, Counters, NotPastLast
      <3>3. left' \in 0 .. BodyLen + MaxFails + 1 /\ left' \in 1 .. 1 + fails'
        BY <3>1, Counters, Numbers
      <3>4. ASSUME spoilers' = {} PROVE taken' = Base'
        <4>1. offset = BodyLen
          BY <1>1, <1>a, <2>3, <2>6, <3>4, Numbers
        <4>2. Base' = Base + Size
          BY <3>1, Counters, OneMore
        <4>3. QED
          BY <2>4, <4>1, <4>2, Counters, Numbers
      <3>5. SessionTypes' /\ InStep'
        BY <1>5, <2>2, <3>1, <3>2, <3>3
      <3>6. Lengths'
        <4>1. delivered' <= taken'
          BY <1>4, <1>6, <3>1, Counters, Numbers
        <4>2. QED
          BY <3>1, <3>3, <3>4, <4>1 DEF SessionInv, Lengths
      <3>7. QED
        BY <3>5, <3>6 DEF SessionInv
    <2>7. QED
      BY <2>5, <2>6
  <1>9. QED
    BY <1>2, <1>7, <1>8

\* readFixSize.
LEMMA BodyInStep ==
  ASSUME SessionInv, NEW n \in 1 .. BuffSize, ReadBody(n)
  PROVE  SessionInv'
  <1>0. /\ phase = "body" /\ n \in 1 .. left /\ taken + n <= Total /\ taken' = taken + n
        /\ UNCHANGED <<sock, parsed, seen, astray, fails, spoilers>>
    BY DEF ReadBody, Total
  <1>a. /\ left \in 1 .. BodyLen + fails /\ delivered < taken /\ (astray \/ taken > Base)
        /\ spoilers = {} => taken + left = Base + Size
    BY <1>0 DEF SessionInv, Lengths
  <1>1. taken' \in 0 .. Total /\ n \in Nat /\ n > 0 /\ n <= left
    BY <1>0, Counters, Numbers
  <1>b. ASSUME left' \in 0 .. BodyLen + MaxFails + 1,
               delivered' \in 0 .. (IF astray THEN Total ELSE Requests),
               phase' \in {"body", "send"}
        PROVE  SessionTypes' /\ InStep'
    BY <1>0, <1>1, <1>b DEF SessionInv, SessionTypes, InStep, Total
  <1>2. CASE n = left
    <2>1. delivered' = delivered + 1 /\ phase' = "send" /\ left' = 1
      BY <1>2 DEF ReadBody, Deliver
    <2>2. delivered' \in 0 .. (IF astray THEN Total ELSE Requests) /\ delivered' <= taken'
      <3>1. delivered' <= taken' /\ delivered' \in 0 .. Total
        BY <1>0, <1>a, <1>1, <2>1, Counters, Numbers
      <3>2. CASE ~ astray
        <4>1. Base < taken' /\ taken' \in Nat /\ taken' <= Total
          BY <1>0, <1>a, <1>1, <3>2, Counters, Numbers
        <4>2. QED
          BY <2>1, <3>1, <3>2, <4>1, Counters, NotPastLast
      <3>3. QED
        BY <3>1, <3>2
    <2>3. left' \in 0 .. BodyLen + MaxFails + 1 /\ left' \in 1 .. 1 + fails'
      BY <1>0, <2>1, Counters, Numbers
    <2>4. spoilers' = {} => taken' = Base'
      <3>1. Base' = Base + Size
        BY <2>1, Counters, OneMore
      <3>2. QED
        BY <1>0, <1>a, <1>2, <3>1, Counters, Numbers
    <2>5. SessionTypes' /\ InStep'
      BY <1>b, <2>1, <2>2, <2>3
    <2>6. Lengths'
      BY <1>0, <2>1, <2>2, <2>3, <2>4 DEF SessionInv, Lengths
    <2>7. QED
      BY <2>5, <2>6 DEF SessionInv
  <1>3. CASE n # left
    <2>1. left' = left - n /\ UNCHANGED <<phase, delivered>>
      BY <1>3 DEF ReadBody
    <2>2. left' \in 0 .. BodyLen + MaxFails + 1 /\ left' \in 1 .. BodyLen + fails'
      BY <1>0, <1>a, <1>1, <1>3, <2>1, Counters, Numbers
    <2>3. /\ delivered' < taken' /\ delivered' <= taken' /\ (astray' \/ taken' > Base')
          /\ spoilers' = {} => taken' + left' = Base' + Size
      <3>1. Base' = Base
        BY <2>1, Counters, OneMore
      <3>2. QED
        BY <1>0, <1>a, <1>1, <2>1, <3>1, Counters, Numbers
    <2>4. SessionTypes' /\ InStep'
      BY <1>0, <1>b, <2>1, <2>2 DEF SessionInv, SessionTypes, Total
    <2>5. Lengths'
      BY <1>0, <2>1, <2>2, <2>3 DEF SessionInv, Lengths
    <2>6. QED
      BY <2>4, <2>5 DEF SessionInv
  <1>4. QED
    BY <1>2, <1>3

\* sendResponse, and the turn to the next request.
LEMMA SendInStep ==
  ASSUME SessionInv, NEW keepalive \in BOOLEAN, SendResponse(keepalive)
  PROVE  SessionInv'
  <1>1. /\ phase = "send" /\ parsed' = 0 /\ seen' = FALSE /\ left' = 0
        /\ phase' \in {"closed", "head"}
        /\ phase' = "head" => astray' \/ taken = Base
        /\ astray' \in BOOLEAN /\ (astray' => astray \/ taken # Base)
        /\ ~ astray' => ~ astray
        /\ UNCHANGED <<sock, taken, delivered, fails, spoilers>>
    BY DEF SendResponse, Base, SessionInv, SessionTypes
  <1>2. SessionTypes'
    <2>1. 0 \in 0 .. HeadLen /\ 0 \in 0 .. BodyLen + MaxFails + 1
      BY Numbers
    <2>2. delivered \in 0 .. Total /\ (~ astray => delivered \in 0 .. Requests)
      <3>1. ~ astray => delivered \in 0 .. Requests
        BY DEF SessionInv, SessionTypes
      <3>2. QED
        BY <3>1, Counters, Numbers
    <2>3. QED
      BY <1>1, <2>1, <2>2 DEF SessionInv, SessionTypes, Total
  <1>3. Base' = Base /\ Base + 0 = Base /\ 0 < HeadLen
    BY <1>1, Counters, OneMore, Numbers
  <1>4. Lengths'
    BY <1>1, <1>3 DEF SessionInv, Lengths
  <1>5. InStep'
    BY <1>1 DEF SessionInv, Lengths, InStep
  <1>6. QED
    BY <1>2, <1>4, <1>5 DEF SessionInv

\* recvRequest out of step: every read takes a byte, and gives at most one request.
LEMMA StrayKept ==
  ASSUME SessionInv, NEW n \in 1 .. BuffSize, ReadStray(n)
  PROVE  SessionInv'
  <1>1. /\ phase = "head" /\ astray /\ taken + n <= Total /\ taken' = taken + n
        /\ UNCHANGED <<sock, parsed, seen, astray, fails, spoilers>>
    BY DEF ReadStray, Total
  <1>2. parsed < HeadLen /\ fails \in 0 .. MaxFails /\ spoilers # {}
    BY <1>1 DEF SessionInv, Lengths, InStep
  <1>3. taken' \in 0 .. Total /\ delivered < taken' /\ delivered + 1 <= taken' /\ n \in Nat
    BY <1>1, Counters, Numbers
  <1>4. /\ phase' \in {"head", "body", "send", "closed"} /\ left' \in 0 .. BodyLen + MaxFails + 1
        /\ delivered' \in {delivered, delivered + 1}
        /\ phase' = "body" => left' \in 1 .. BodyLen + fails /\ delivered' = delivered
        /\ phase' = "send" => left' \in 1 .. 1 + fails
    <2>1. CASE phase' \in {"head", "closed"} /\ UNCHANGED <<left, delivered>>
      BY <2>1 DEF SessionInv, SessionTypes
    <2>2. CASE \E offset \in 0 .. n - 1, length \in 0 .. BodyLen :
                 IF length > offset
                 THEN phase' = "body" /\ left' = length - offset /\ UNCHANGED delivered
                 ELSE Deliver
      <3>1. PICK offset \in 0 .. n - 1, length \in 0 .. BodyLen :
                 IF length > offset
                 THEN phase' = "body" /\ left' = length - offset /\ UNCHANGED delivered
                 ELSE Deliver
        BY <2>2
      <3>2. CASE length > offset
        <4>1. offset \in Nat /\ length \in Nat /\ length <= BodyLen
          BY <1>3, Numbers
        <4>2. left' = length - offset /\ phase' = "body" /\ delivered' = delivered
          BY <3>1, <3>2
        <4>3. left' \in 1 .. BodyLen + fails /\ left' \in 0 .. BodyLen + MaxFails + 1
          BY <3>2, <4>1, <4>2, Counters, Numbers
        <4>4. QED
          BY <4>2, <4>3
      <3>3. CASE ~(length > offset)
        <4>1. delivered' = delivered + 1 /\ phase' = "send" /\ left' = 1
          BY <3>1, <3>3 DEF Deliver
        <4>2. 1 \in 1 .. 1 + fails /\ 1 \in 0 .. BodyLen + MaxFails + 1
          BY Counters, Numbers
        <4>3. QED
          BY <4>1, <4>2
      <3>4. QED
        BY <3>2, <3>3
    <2>3. QED
      BY <2>1, <2>2 DEF ReadStray
  <1>5. delivered' \in 0 .. Total /\ delivered' <= taken' /\ (delivered' = delivered => delivered' < taken')
    BY <1>3, <1>4, Counters, Numbers
  <1>6. SessionTypes'
    BY <1>1, <1>3, <1>4, <1>5 DEF SessionInv, SessionTypes, Total
  <1>7. Lengths' /\ InStep'
    BY <1>1, <1>2, <1>4, <1>5 DEF Lengths, InStep
  <1>8. QED
    BY <1>6, <1>7 DEF SessionInv

\* Ends, failures and what the peer does.
LEMMA OtherInStep ==
  ASSUME SessionInv,
         ReadEof \/ ReadHeadFails \/ ReadBodyFails \/ SendFails \/ PeerCloses \/ Breaks
  PROVE  SessionInv'
  <1>0. delivered' = delivered /\ Base' = Base /\ taken' = taken
    <2>1. delivered' = delivered /\ taken' = taken
      BY DEF ReadEof, ReadHeadFails, ReadBodyFails, SendFails, PeerCloses, Breaks
    <2>2. QED
      BY <2>1, Counters, OneMore
  <1>1. CASE ReadEof \/ ReadHeadFails
    <2>1. phase' = "closed" /\ fails' \in 0 .. MaxFails
          /\ UNCHANGED <<sock, taken, parsed, seen, left, astray, delivered, spoilers>>
      <3>1. fails \in 0 .. MaxFails /\ (fails < MaxFails => fails + 1 \in 0 .. MaxFails)
        BY Counters, Numbers
      <3>2. QED
        BY <1>1, <3>1 DEF ReadEof, ReadHeadFails
    <2>2. QED
      BY <2>1 DEF SessionInv, SessionTypes, Lengths, InStep
  <1>2. CASE ReadBodyFails
    <2>1. phase = "body" /\ fails' = fails + 1 /\ fails < MaxFails /\ left' = left + 1
          /\ spoilers' = spoilers \cup {"failed read"}
          /\ UNCHANGED <<sock, taken, parsed, seen, phase, astray, delivered>>
      BY <1>2 DEF ReadBodyFails
    <2>2. left \in 1 .. BodyLen + fails /\ delivered < taken /\ (astray \/ taken > Base)
          /\ delivered <= taken
      BY <2>1 DEF SessionInv, Lengths
    <2>a. fails' = fails + 1 /\ fails < MaxFails /\ left' = left + 1
      BY <2>1
    <2>b. left \in 1 .. BodyLen + fails
      BY <2>2
    <2>3. left' \in 0 .. BodyLen + MaxFails + 1 /\ left' \in 1 .. BodyLen + fails'
          /\ fails' \in 0 .. MaxFails
      <3>1. left \in Nat /\ left <= BodyLen + fails /\ fails \in Nat /\ left >= 1
        BY <2>b, Counters, Numbers
      <3>2. QED
        BY <2>a, <3>1, Numbers
    <2>4. SessionTypes'
      BY <2>1, <2>3 DEF SessionInv, SessionTypes
    <2>5. Lengths' /\ InStep'
      BY <1>0, <2>1, <2>2, <2>3 DEF Lengths, InStep
    <2>6. QED
      BY <2>4, <2>5 DEF SessionInv
  <1>3. CASE SendFails
    <2>1. phase = "send" /\ fails' = fails + 1 /\ fails < MaxFails /\ left' = left + 1
          /\ UNCHANGED <<sock, taken, parsed, seen, phase, astray, delivered, spoilers>>
      BY <1>3 DEF SendFails
    <2>2. left \in 1 .. 1 + fails /\ (spoilers = {} => taken = Base) /\ delivered <= taken
          /\ InStep
      BY <2>1 DEF SessionInv, Lengths
    <2>3. left' \in 0 .. BodyLen + MaxFails + 1 /\ left' \in 1 .. 1 + fails'
          /\ fails' \in 0 .. MaxFails
      BY <2>1, <2>2, Counters, Numbers
    <2>4. SessionTypes'
      BY <2>1, <2>3 DEF SessionInv, SessionTypes
    <2>5. Lengths' /\ InStep'
      BY <1>0, <2>1, <2>2, <2>3 DEF Lengths, InStep
    <2>6. QED
      BY <2>4, <2>5 DEF SessionInv
  <1>4. CASE PeerCloses \/ Breaks
    <2>1. sock' \in {"eof", "dead"}
          /\ UNCHANGED <<taken, parsed, seen, left, phase, astray, delivered, fails, spoilers>>
      BY <1>4 DEF PeerCloses, Breaks
    <2>2. QED
      BY <1>0, <2>1 DEF SessionInv, SessionTypes, Lengths, InStep
  <1>5. QED
    BY <1>1, <1>2, <1>3, <1>4

\* The session's invariant holds in every behaviour.
LEMMA SessionAlways == SessionSpec => []SessionInv
  <1>1. SessionInit => SessionInv
    <2> SUFFICES ASSUME SessionInit PROVE SessionInv
      OBVIOUS
    <2>1. 0 \in 0 .. HeadLen /\ 0 \in 0 .. BodyLen + MaxFails + 1 /\ 0 \in 0 .. Requests
          /\ 0 \in 0 .. Total /\ 0 \in 0 .. MaxFails /\ 0 < HeadLen
      BY Numbers
    <2>2. Base = 0 /\ Base + 0 = 0
      <3>1. 0 * Size = 0
        BY Numbers
      <3>2. QED
        BY <3>1 DEF Base, SessionInit
    <2>3. SessionTypes
      BY <2>1 DEF SessionInit, SessionTypes, Total
    <2>4. QED
      BY <2>1, <2>2, <2>3 DEF SessionInit, SessionInv, Lengths, InStep
  <1>2. SessionInv /\ [SessionNext]_sessionVars => SessionInv'
    <2> SUFFICES ASSUME SessionInv, [SessionNext]_sessionVars PROVE SessionInv'
      OBVIOUS
    <2>1. CASE UNCHANGED sessionVars
      BY <2>1 DEF sessionVars, SessionInv, SessionTypes, Lengths, InStep, Base
    <2>2. QED
      BY <2>1, HeadInStep, BodyInStep, StrayKept, SendInStep, OtherInStep DEF SessionNext
  <1>3. QED
    BY <1>1, <1>2, PTL DEF SessionSpec

\* recvRequest begins at the first byte of the next request, for heads, bodies and
\* buffers of any size and however the socket cuts the stream, unless a read cut
\* the Content-Length line, bytes of the next request were in the buffer, or a
\* read of the body failed.
THEOREM SessionInStep == SessionSpec => []InStep
  BY SessionAlways, PTL DEF SessionInv

\* Types of the session; in particular a session in step delivers no more requests
\* than the peer has sent, one that is out of step no more than the peer has sent
\* bytes, and readFixSize's left grows by at most one with every call that fails.
THEOREM SessionTypeCorrect == SessionSpec => []SessionTypes
  BY SessionAlways, PTL DEF SessionInv

-----------------------------------------------------------------------------
(***************************************************************************)
(* The accept loops.                                                       *)
(***************************************************************************)

ServerSpec == ServerInit /\ [][ServerNext]_serverVars

LoopInv ==
  /\ starts \in Nat
  /\ place \in [Loops -> {"none", "loop", "accept", "add", "hold", "done"}]
  /\ \A a \in Loops : place[a] # "none" => a <= starts
  /\ SecondStart

\* A loop moves, none is started.
LEMMA LoopMoves ==
  ASSUME LoopInv, NEW a \in Loops, NEW p \in {"loop", "accept", "add", "hold", "done"},
         place[a] # "none", ToPlace(a, p), starts' = starts, aborted' = aborted
  PROVE  LoopInv'
  BY DEF LoopInv, ToPlace, SecondStart

\* The accept loops.
LEMMA AcceptKeeps ==
  ASSUME LoopInv, NEW a \in Loops, AcceptStep(a)
  PROVE  LoopInv'
  <1>1. CASE LoopTest(a) \/ AcceptF(a)
    <2>1. starts' = starts /\ aborted' = aborted /\ place[a] # "none"
          /\ \E p \in {"loop", "accept", "add", "hold", "done"} : ToPlace(a, p)
      BY <1>1 DEF LoopTest, AcceptF
    <2>2. QED
      BY <2>1, LoopMoves
  <1>2. CASE AddAcceptor(a)
    <2>1. starts' = starts /\ place[a] = "add"
      BY <1>2 DEF AddAcceptor
    <2>2. CASE aborted' = aborted /\ \E p \in {"loop", "hold"} : ToPlace(a, p)
      BY <2>1, <2>2, LoopMoves
    <2>3. CASE (\E b \in Loops : place[b] = "hold") /\ place' = place
      <3>1. PICK b \in Loops : place[b] = "hold"
        BY <2>3
      <3>2. a # b /\ a <= starts /\ b <= starts /\ a >= 1 /\ b >= 1 /\ a \in Nat /\ b \in Nat
        BY <2>1, <3>1, ServerAssumption DEF LoopInv, Loops
      <3>3. starts > 1
        BY <3>2 DEF LoopInv
      <3>4. QED
        BY <2>1, <2>3, <3>3 DEF LoopInv, SecondStart
    <2>4. QED
      BY <1>2, <2>2, <2>3 DEF AddAcceptor
  <1>3. QED
    BY <1>1, <1>2 DEF AcceptStep

\* start(), stop(), its task, clients and events.
LEMMA ControlKeeps ==
  ASSUME LoopInv, StartServer \/ StopServer \/ StopTask \/ ClientArrives \/ AcceptEvent
  PROVE  LoopInv'
  <1>1. CASE StartServer
    <2>1. CASE listed
      <3>1. starts' = starts + 1 /\ starts < MaxStarts /\ aborted' = aborted
            /\ place' = [place EXCEPT ![starts + 1] = "loop"]
        BY <1>1, <2>1 DEF StartServer, ToPlace
      <3>2. QED
        BY <3>1, ServerAssumption DEF LoopInv, SecondStart, Loops
    <2>2. CASE ~listed
      BY <1>1, <2>2 DEF StartServer, LoopInv, SecondStart
    <2>3. QED
      BY <2>1, <2>2
  <1>2. ASSUME starts' = starts, aborted' = aborted, place' \in {place, Woken} PROVE LoopInv'
    BY <1>2 DEF LoopInv, SecondStart, Woken
  <1>3. CASE StopServer \/ ClientArrives \/ AcceptEvent
    BY <1>2, <1>3 DEF StopServer, ClientArrives, AcceptEvent
  <1>4. CASE StopTask
    BY <1>2, <1>4 DEF StopTask, CancelWaiters, CloseListener
  <1>5. QED
    BY <1>1, <1>3, <1>4

\* Two accept loops of one socket never meet in addEvent's assertion unless
\* start() was called a second time, whatever stop(), its task, the clients and the
\* events do in between.
THEOREM LoopsMeetOnlyOnRestart == ServerSpec => []SecondStart
  <1>1. ServerInit => LoopInv
    BY DEF ServerInit, LoopInv, SecondStart
  <1>2. LoopInv /\ [ServerNext]_serverVars => LoopInv'
    <2> SUFFICES ASSUME LoopInv, [ServerNext]_serverVars PROVE LoopInv'
      OBVIOUS
    <2>1. CASE UNCHANGED serverVars
      BY <2>1 DEF serverVars, LoopInv, SecondStart
    <2>2. QED
      BY <2>1, AcceptKeeps, ControlKeeps DEF ServerNext
  <1>3. LoopInv => SecondStart
    BY DEF LoopInv
  <1>4. QED
    BY <1>1, <1>2, <1>3, PTL DEF ServerSpec

\* The counters of the server and the places of its loops keep their ranges.
LEMMA ServerTypesAlways == ServerSpec => []ServerTypes
  <1>1. ServerInit => ServerTypes
    <2> SUFFICES ASSUME ServerInit PROVE ServerTypes
      OBVIOUS
    <2>1. {m_isStop, listed, listening, aborted} \subseteq BOOLEAN
      BY DEF ServerInit
    <2>2. backlog \in 0 .. clients /\ clients \in 0 .. MaxClients /\ starts \in 0 .. MaxStarts
      BY ServerAssumption DEF ServerInit
    <2>3. /\ place \in [Loops -> {"none", "loop", "accept", "add", "hold", "done"}]
          /\ closing \in {"none", "cancelAll", "close", "close_f"} /\ again \subseteq Loops
      BY DEF ServerInit
    <2>4. QED
      BY <2>1, <2>2, <2>3 DEF ServerTypes
  <1>2. ServerTypes /\ [ServerNext]_serverVars => ServerTypes'
    <2> SUFFICES ASSUME ServerTypes, [ServerNext]_serverVars PROVE ServerTypes'
      OBVIOUS
    <2>0. \A a \in Loops : \A p \in {"loop", "accept", "add", "hold", "done"} :
            ToPlace(a, p) => place' \in [Loops -> {"none", "loop", "accept", "add", "hold", "done"}]
      BY DEF ToPlace, ServerTypes
    <2>1. Woken \in [Loops -> {"none", "loop", "accept", "add", "hold", "done"}]
      BY DEF Woken, ServerTypes
    <2>2. CASE UNCHANGED serverVars
      BY <2>2 DEF serverVars, ServerTypes
    <2>3. ASSUME NEW a \in Loops, LoopTest(a) PROVE ServerTypes'
      BY <2>0, <2>3 DEF LoopTest, ServerTypes
    <2>4. ASSUME NEW a \in Loops, AcceptF(a) PROVE ServerTypes'
      <3>1. place' \in [Loops -> {"none", "loop", "accept", "add", "hold", "done"}]
        BY <2>0, <2>4 DEF AcceptF
      <3>2. backlog' \in 0 .. clients
        BY <2>4, ServerAssumption DEF AcceptF, ServerTypes
      <3>3. QED
        BY <2>4, <3>1, <3>2 DEF AcceptF, ServerTypes
    <2>5. ASSUME NEW a \in Loops, AddAcceptor(a) PROVE ServerTypes'
      <3>1. place' \in [Loops -> {"none", "loop", "accept", "add", "hold", "done"}]
        BY <2>0, <2>5 DEF AddAcceptor, ServerTypes
      <3>2. again' \subseteq Loops
        BY <2>5 DEF AddAcceptor, ServerTypes
      <3>3. aborted' \in BOOLEAN
        BY <2>5 DEF AddAcceptor, ServerTypes
      <3>4. QED
        BY <2>5, <3>1, <3>2, <3>3 DEF AddAcceptor, ServerTypes
    <2>6. CASE StartServer
      <3>1. CASE listed
        <4>1. starts + 1 \in Loops /\ starts' = starts + 1 /\ ToPlace(starts + 1, "loop")
          BY <2>6, <3>1, ServerAssumption DEF StartServer, ServerTypes, Loops
        <4>2. starts' \in 0 .. MaxStarts
          BY <4>1, ServerAssumption DEF Loops
        <4>3. place' \in [Loops -> {"none", "loop", "accept", "add", "hold", "done"}]
          BY <2>0, <4>1
        <4>4. QED
          BY <2>6, <4>2, <4>3 DEF StartServer, ServerTypes
      <3>2. CASE ~ listed
        BY <2>6, <3>2 DEF StartServer, ServerTypes
      <3>3. QED
        BY <3>1, <3>2
    <2>7. CASE StopServer
      BY <2>7 DEF StopServer, ServerTypes
    <2>8. CASE StopTask
      <3>1. CASE CancelWaiters("close") \/ CancelWaiters("close_f")
        BY <2>1, <3>1 DEF CancelWaiters, ServerTypes
      <3>2. CASE CloseListener
        <4>1. 0 \in 0 .. clients
          BY ServerAssumption DEF ServerTypes
        <4>2. QED
          BY <3>2, <4>1 DEF CloseListener, ServerTypes
      <3>3. CASE closing' = "none" /\ UNCHANGED <<m_isStop, listed, listening, backlog, clients,
                                                  starts, place, again, aborted>>
        BY <3>3 DEF ServerTypes
      <3>4. QED
        BY <2>8, <3>1, <3>2, <3>3 DEF StopTask
    <2>9. CASE ClientArrives
      <3>1. clients' \in 0 .. MaxClients /\ backlog' \in 0 .. clients'
        BY <2>9, ServerAssumption DEF ClientArrives, ServerTypes
      <3>2. QED
        BY <2>9, <3>1 DEF ClientArrives, ServerTypes
    <2>10. CASE AcceptEvent
      BY <2>1, <2>10 DEF AcceptEvent, ServerTypes
    <2>11. QED
      BY <2>2, <2>3, <2>4, <2>5, <2>6, <2>7, <2>8, <2>9, <2>10 DEF ServerNext, AcceptStep
  <1>3. QED
    BY <1>1, <1>2, PTL DEF ServerSpec

-----------------------------------------------------------------------------
(***************************************************************************)
(* WebSocket messages.  FlattenSeq is a recursive function: it exists and  *)
(* is the only one, by induction on the number of sequences.               *)
(***************************************************************************)

\* g joins the first n sequences of s, one after the other.
Joins(s, n, g) == g = [i \in 1 .. n |-> IF i = 1 THEN s[i] ELSE g[i - 1] \o s[i]]

\* There is such a function.
LEMMA JoinsExist ==
  ASSUME NEW s
  PROVE  \A n \in Nat : \E g : Joins(s, n, g)
  <1> DEFINE P == {n \in Nat : \E g : Joins(s, n, g)}
  <1>1. 0 \in P
    <2> DEFINE g == [i \in 1 .. 0 |-> s]
    <2>1. g = [i \in 1 .. 0 |-> IF i = 1 THEN s[i] ELSE g[i - 1] \o s[i]]
      OBVIOUS
    <2> HIDE DEF g
    <2>2. Joins(s, 0, g)
      BY <2>1 DEF Joins
    <2>3. QED
      BY <2>2
  <1>2. ASSUME NEW n \in P PROVE n + 1 \in P
    <2>1. PICK g : Joins(s, n, g)
      OBVIOUS
    <2> DEFINE x == IF n = 0 THEN s[1] ELSE g[n] \o s[n + 1]
               h == [i \in 1 .. n + 1 |-> IF i = n + 1 THEN x ELSE g[i]]
               h2 == [i \in 1 .. n + 1 |-> IF i = 1 THEN s[i] ELSE h[i - 1] \o s[i]]
    <2>2. ASSUME NEW i \in 1 .. n + 1 PROVE h[i] = h2[i]
      <3>1. CASE i = n + 1
        <4>1. h[i] = x
          BY <3>1
        <4>2. CASE n = 0
          BY <3>1, <4>1, <4>2
        <4>3. CASE n # 0
          <5>1. i # 1 /\ i - 1 = n /\ i - 1 \in 1 .. n + 1 /\ i - 1 # n + 1
            BY <3>1, <4>3
          <5>2. h[i - 1] = g[n] /\ x = g[n] \o s[i]
            BY <3>1, <4>3, <5>1
          <5>3. QED
            BY <4>1, <5>1, <5>2
        <4>4. QED
          BY <4>2, <4>3
      <3>2. CASE i # n + 1
        <4>1. i \in 1 .. n /\ h[i] = g[i]
          BY <3>2
        <4>2. g[i] = IF i = 1 THEN s[i] ELSE g[i - 1] \o s[i]
          BY <2>1, <4>1 DEF Joins
        <4>3. i # 1 => h[i - 1] = g[i - 1]
          BY <4>1
        <4>4. QED
          BY <4>1, <4>2, <4>3
      <3>3. QED
        BY <3>1, <3>2
    <2>3. h = h2
      <3> HIDE DEF x
      <3>1. QED
        BY <2>2
    <2> HIDE DEF h
    <2>4. Joins(s, n + 1, h)
      BY <2>3 DEF Joins
    <2>5. QED
      BY <2>4
  <1>3. \A n \in Nat : n \in P
    <2> HIDE DEF P
    <2>1. P \in SUBSET Nat
      BY DEF P
    <2>2. QED
      BY <1>1, <1>2, <2>1, Induction
  <1>4. QED
    BY <1>3

\* It depends only on the sequences it joins.
LEMMA JoinsUnique ==
  ASSUME NEW s, NEW t, NEW n \in Nat, NEW m \in Nat, n <= m, \A i \in 1 .. n : s[i] = t[i],
         NEW g, Joins(s, n, g), NEW h, Joins(t, m, h)
  PROVE  \A i \in 1 .. n : g[i] = h[i]
  <1> DEFINE P == {i \in Nat : i \in 1 .. n => g[i] = h[i]}
  <1>1. 0 \in P
    OBVIOUS
  <1>2. ASSUME NEW i \in P PROVE i + 1 \in P
    <2> SUFFICES ASSUME i + 1 \in 1 .. n PROVE g[i + 1] = h[i + 1]
      OBVIOUS
    <2>1. i + 1 \in 1 .. m /\ s[i + 1] = t[i + 1]
      OBVIOUS
    <2>2. /\ g[i + 1] = IF i + 1 = 1 THEN s[i + 1] ELSE g[(i + 1) - 1] \o s[i + 1]
          /\ h[i + 1] = IF i + 1 = 1 THEN t[i + 1] ELSE h[(i + 1) - 1] \o t[i + 1]
      BY <2>1 DEF Joins
    <2>3. (i + 1) - 1 = i /\ (i + 1 # 1 => g[i] = h[i])
      OBVIOUS
    <2>4. QED
      BY <2>1, <2>2, <2>3
  <1>3. \A i \in Nat : i \in P
    <2> HIDE DEF P
    <2>1. P \in SUBSET Nat
      BY DEF P
    <2>2. QED
      BY <1>1, <1>2, <2>1, Induction
  <1>4. QED
    BY <1>3

\* FlattenSeq is the last value of it.
LEMMA FlattenIsJoin ==
  ASSUME NEW s, NEW n \in Nat \ {0}, Len(s) = n
  PROVE  \E g : Joins(s, n, g) /\ FlattenSeq(s) = g[n]
  <1> DEFINE T == CHOOSE g : g = [i \in 1 .. n |-> IF i = 1 THEN s[i] ELSE g[i - 1] \o s[i]]
  <1>1. \E g : g = [i \in 1 .. n |-> IF i = 1 THEN s[i] ELSE g[i - 1] \o s[i]]
    <2>1. PICK g : Joins(s, n, g)
      BY JoinsExist
    <2>2. QED
      BY <2>1 DEF Joins
  <1>2. T = [i \in 1 .. n |-> IF i = 1 THEN s[i] ELSE T[i - 1] \o s[i]]
    BY <1>1
  <1>3. FlattenSeq(s) = T[n]
    BY DEF FlattenSeq
  <1> HIDE DEF T
  <1>4. QED
    BY <1>2, <1>3 DEF Joins

\* One more sequence goes behind the others.
LEMMA FlattenAppend ==
  ASSUME NEW S, NEW s \in Seq(S), NEW x \in S
  PROVE  FlattenSeq(Append(s, x)) = IF s = <<>> THEN x ELSE FlattenSeq(s) \o x
  <1>1. PICK n \in Nat : n = Len(s)
    OBVIOUS
  <1>2. PICK t : /\ t = Append(s, x) /\ Len(t) = n + 1 /\ t[n + 1] = x
                 /\ \A i \in 1 .. n : s[i] = t[i]
    <2>1. PICK t : t = Append(s, x)
      OBVIOUS
    <2>2. Len(t) = Len(s) + 1 /\ t[Len(s) + 1] = x /\ \A i \in 1 .. Len(s) : t[i] = s[i]
      BY <2>1, AppendProperties
    <2>3. QED
      BY <1>1, <2>1, <2>2
  <1>3. n + 1 \in Nat \ {0} /\ n + 1 \in 1 .. n + 1 /\ (n + 1) - 1 = n
    OBVIOUS
  <1>4. PICK h : Joins(t, n + 1, h) /\ FlattenSeq(t) = h[n + 1]
    BY <1>2, <1>3, FlattenIsJoin
  <1>5. h[n + 1] = IF n + 1 = 1 THEN x ELSE h[n] \o x
    <2>1. h[n + 1] = IF n + 1 = 1 THEN t[n + 1] ELSE h[(n + 1) - 1] \o t[n + 1]
      BY <1>3, <1>4 DEF Joins
    <2>2. QED
      BY <1>2, <1>3, <2>1
  <1>6. CASE s = <<>>
    BY <1>1, <1>2, <1>4, <1>5, <1>6
  <1>7. CASE s # <<>>
    <2>1. n \in Nat \ {0} /\ n \in 1 .. n /\ n + 1 # 1 /\ n <= n + 1
      BY <1>1, <1>7
    <2>2. PICK g : Joins(s, n, g) /\ FlattenSeq(s) = g[n]
      BY <1>1, <2>1, FlattenIsJoin
    <2>3. \A i \in 1 .. n : g[i] = h[i]
      <3>1. n + 1 \in Nat /\ \A i \in 1 .. n : s[i] = t[i]
        BY <1>2
      <3>2. QED
        BY <1>4, <2>1, <2>2, <3>1, JoinsUnique
    <2>4. QED
      BY <1>2, <1>4, <1>5, <1>7, <2>1, <2>2, <2>3
  <1>8. QED
    BY <1>6, <1>7

\* A byte as the set of its bits; the data frames of a message and the bytes in them.
Octet == SUBSET Nat
Fragment == [op : Data, data : Seq(Octet)]
Pieces(s) == [i \in DOMAIN s |-> s[i].data]

\* What has been collected is what has been sent, and the opcode tells a message
\* that has begun from one that has not; all this while no control frame has left
\* bytes in the stream.
Collected ==
  /\ data = FlattenSeq(Pieces(sent))
  /\ opcode = IF sent = <<>> THEN "CONTINUE" ELSE sent[1].op
  /\ sent # <<>> => opcode # "CONTINUE"

WsInv ==
  /\ WsTypes /\ data \in Seq(Octet) /\ sent \in Seq(Fragment)
  /\ ~ unread =>
       /\ stray = 0
       /\ wsPhase # "closed" => Collected
       /\ wsPhase = "recv" => (midst <=> sent # <<>>)
       /\ wsPhase = "handle" => ~ midst /\ sent # <<>> /\ given = [op |-> opcode, data |-> data]

\* A sequence is determined by its length and its elements.
LEMMA SameSequence ==
  ASSUME NEW S, NEW q \in Seq(S), NEW n, Len(q) = n,
         NEW r \in [1 .. n -> S], \A i \in 1 .. n : r[i] = q[i]
  PROVE  q = r
  OBVIOUS

\* One more frame adds its bytes.
LEMMA PiecesAppend ==
  ASSUME NEW s \in Seq(Fragment), NEW o \in Data, NEW d \in Seq(Octet), NEW m,
         m = [op |-> o, data |-> d]
  PROVE  /\ Append(s, m) \in Seq(Fragment)
         /\ FlattenSeq(Pieces(Append(s, m))) = IF s = <<>> THEN d ELSE FlattenSeq(Pieces(s)) \o d
         /\ Append(s, m)[1].op = IF s = <<>> THEN o ELSE s[1].op
  <1>1. m \in Fragment /\ m.op = o /\ m.data = d
    BY DEF Fragment
  <1>2. PICK n \in Nat : n = Len(s)
    OBVIOUS
  <1>3. PICK t \in Seq(Fragment) :
          t = Append(s, m) /\ Len(t) = n + 1 /\ t[n + 1] = m /\ \A i \in 1 .. n : t[i] = s[i]
    <2>1. /\ Append(s, m) \in Seq(Fragment) /\ Len(Append(s, m)) = Len(s) + 1
          /\ Append(s, m)[Len(s) + 1] = m /\ \A i \in 1 .. Len(s) : Append(s, m)[i] = s[i]
      BY <1>1, AppendProperties
    <2>2. QED
      BY <1>2, <2>1, Zenon
  <1>4. ASSUME NEW i \in 1 .. n PROVE s[i].data \in Seq(Octet)
    <2>1. s[i] \in Fragment
      BY <1>2
    <2>2. QED
      BY <2>1 DEF Fragment
  <1>5. Pieces(s) \in Seq(Seq(Octet)) /\ Len(Pieces(s)) = n /\ (Pieces(s) = <<>> <=> s = <<>>)
    BY <1>2, <1>4 DEF Pieces
  <1>6. Pieces(t) = Append(Pieces(s), d)
    <2>0. \A i \in 1 .. n : Pieces(s)[i] = s[i].data
      BY <1>2 DEF Pieces
    <2>1. PICK p \in Seq(Seq(Octet)) : p = Pieces(s) /\ Len(p) = n /\ \A i \in 1 .. n : p[i] = s[i].data
      BY <1>5, <2>0, Zenon
    <2>2. PICK q \in Seq(Seq(Octet)) :
            q = Append(p, d) /\ Len(q) = n + 1 /\ q[n + 1] = d /\ \A i \in 1 .. n : q[i] = p[i]
      <3>1. /\ Append(p, d) \in Seq(Seq(Octet)) /\ Len(Append(p, d)) = Len(p) + 1
            /\ Append(p, d)[Len(p) + 1] = d /\ \A i \in 1 .. Len(p) : Append(p, d)[i] = p[i]
        BY AppendProperties
      <3>2. QED
        BY <2>1, <3>1, Zenon
    <2>3. q = [i \in 1 .. n + 1 |-> t[i].data]
      <3>1. ASSUME NEW i \in 1 .. n + 1 PROVE q[i] = t[i].data
        <4>1. CASE i = n + 1
          BY <1>1, <1>3, <2>2, <4>1
        <4>2. CASE i # n + 1
          <5>1. i \in 1 .. n
            BY <4>2
          <5>2. q[i] = p[i] /\ p[i] = s[i].data /\ t[i] = s[i]
            BY <1>3, <2>1, <2>2, <5>1
          <5>3. QED
            BY <5>2
        <4>3. QED
          BY <4>1, <4>2
      <3>2. PICK k, R : k = n + 1 /\ R = Seq(Octet)
        OBVIOUS
      <3>3. PICK r : r = [i \in 1 .. k |-> t[i].data]
        OBVIOUS
      <3>4. \A i \in 1 .. k : r[i] = q[i]
        BY <3>1, <3>2, <3>3
      <3>5. q \in Seq(R) /\ Len(q) = k
        BY <2>2, <3>2
      <3>6. \A i \in 1 .. k : q[i] \in R
        BY <3>5
      <3>7. r \in [1 .. k -> R]
        BY <3>3, <3>4, <3>6
      <3>8. q = r
        BY <3>4, <3>5, <3>7, SameSequence
      <3>9. QED
        BY <3>2, <3>3, <3>8
    <2>4. DOMAIN t = 1 .. n + 1
      BY <1>3
    <2>5. QED
      BY <2>1, <2>2, <2>3, <2>4 DEF Pieces
  <1>7. FlattenSeq(Append(Pieces(s), d)) = IF Pieces(s) = <<>> THEN d ELSE FlattenSeq(Pieces(s)) \o d
    BY <1>5, FlattenAppend
  <1>8. t[1].op = IF s = <<>> THEN o ELSE s[1].op
    <2>1. CASE s = <<>>
      BY <1>1, <1>2, <1>3, <2>1
    <2>2. CASE s # <<>>
      <3>1. 1 \in 1 .. n
        BY <1>2, <2>2
      <3>2. QED
        BY <1>3, <2>2, <3>1
    <2>3. QED
      BY <2>1, <2>2
  <1>9. QED
    BY <1>3, <1>5, <1>6, <1>7, <1>8

\* Nothing is collected for a message that has not begun.
LEMMA NothingCollected == FlattenSeq(Pieces(<<>>)) = <<>>
  BY DEF FlattenSeq, Pieces

\* What a frame says is a sequence of bytes.
LEMMA PayloadBytes ==
  ASSUME NEW f \in Frame, NEW c \in Octet
  PROVE  /\ f.payload \in Nat
         /\ [i \in 1 .. f.payload |-> c] \in Seq(Octet)
         /\ Len([i \in 1 .. f.payload |-> c]) = f.payload
  <1>1. PICK k \in Nat : k = f.payload
    BY WsAssumption DEF Frame
  <1>2. PICK d : d = [i \in 1 .. k |-> c]
    OBVIOUS
  <1>3. d \in Seq(Octet) /\ Len(d) = k
    BY <1>2
  <1>4. QED
    BY <1>1, <1>2, <1>3

\* Masking twice with the same key gives back what was sent.
LEMMA UnmaskWire ==
  ASSUME NEW f \in Frame, NEW k
  PROVE  Unmask(f, Wire(f, k)) = Payload(f, k)
  <1>1. ASSUME NEW a, NEW b PROVE Xor(Xor(a, b), b) = a
    BY DEF Xor
  <1>2. PICK n : n = f.payload
    OBVIOUS
  <1>3. ASSUME NEW i \in 1 .. n
        PROVE  (IF f.mask THEN Xor(Wire(f, k)[i], Key[(i - 1) % 4]) ELSE Wire(f, k)[i]) = {k}
    <2>1. PICK c : c = Key[(i - 1) % 4]
      OBVIOUS
    <2>2. Payload(f, k)[i] = {k}
      BY <1>2 DEF Payload
    <2>3. Wire(f, k)[i] = IF f.mask THEN Xor({k}, c) ELSE {k}
      BY <1>2, <2>1, <2>2, Zenon DEF Wire
    <2>4. QED
      BY <1>1, <2>1, <2>3, Zenon
  <1>4. Unmask(f, Wire(f, k)) = [i \in 1 .. n |-> {k}]
    BY <1>2, <1>3, Zenon DEF Unmask
  <1>5. QED
    BY <1>2, <1>4 DEF Payload

\* The peer's next frame.
LEMMA SendsTyped ==
  ASSUME WsInv, NEW f \in Frame, Sends(f)
  PROVE  /\ wsPhase = "recv" /\ count' \in 0 .. MaxFrames /\ {count'} \in Octet
         /\ midst' \in BOOLEAN /\ masked' \in BOOLEAN /\ sent' \in Seq(Fragment)
         /\ f.op \in Control => sent' = sent /\ midst' = midst
         /\ f.op \in Data =>
              /\ (f.op = "CONTINUE" <=> midst) /\ midst' = ~ f.fin
              /\ sent' = Append(sent, [op |-> f.op, data |-> Payload(f, count')])
  <1>1. wsPhase = "recv" /\ count' = count + 1 /\ count < MaxFrames /\ masked' = (masked /\ f.mask)
    BY DEF Sends
  <1>2. count' \in 0 .. MaxFrames /\ count' \in Nat
    BY <1>1, WsAssumption DEF WsInv, WsTypes
  <1>3. {count'} \in Octet
    BY <1>2 DEF Octet
  <1>4. masked' \in BOOLEAN /\ f.fin \in BOOLEAN
    BY <1>1 DEF Frame
  <1>5. CASE f.op \in Control
    <2>1. sent' = sent /\ midst' = midst /\ f.op \notin Data
      BY <1>5 DEF Sends, Data, Control
    <2>2. QED
      BY <1>1, <1>2, <1>3, <1>4, <1>5, <2>1 DEF WsInv, WsTypes
  <1>6. CASE f.op \in Data
    <2>1. /\ (f.op = "CONTINUE" <=> midst) /\ midst' = ~ f.fin /\ f.op \notin Control
          /\ sent' = Append(sent, [op |-> f.op, data |-> Payload(f, count')])
      BY <1>6 DEF Sends, Data, Control
    <2>2. Payload(f, count') \in Seq(Octet)
      BY <1>3, PayloadBytes DEF Payload
    <2>3. PICK m : m = [op |-> f.op, data |-> Payload(f, count')]
      OBVIOUS
    <2>4. m \in Fragment
      BY <1>6, <2>2, <2>3 DEF Fragment
    <2>5. sent' \in Seq(Fragment)
      BY <2>1, <2>3, <2>4, AppendProperties DEF WsInv
    <2>6. QED
      BY <1>1, <1>2, <1>3, <1>4, <2>1, <2>5
  <1>7. QED
    BY <1>5, <1>6 DEF Sends

\* Types after a head.
HeadTyped ==
  /\ client' \in BOOLEAN /\ opcode' \in Data /\ data' \in Seq(Octet)
  /\ data' # <<>> => Len(data') < MaxSize
  /\ wsPhase' \in {"recv", "handle", "closed"}

LEMMA ControlTyped ==
  ASSUME WsInv, NEW f \in Frame, ControlHead(f)
  PROVE  HeadTyped
  <1>1. CASE CloseStream
    BY <1>1 DEF CloseStream, HeadTyped, WsInv, WsTypes, Data
  <1>2. CASE UNCHANGED <<client, opcode, data, wsPhase, given>>
    BY <1>2 DEF HeadTyped, WsInv, WsTypes
  <1>3. QED
    BY <1>1, <1>2 DEF ControlHead

LEMMA DataTyped ==
  ASSUME WsInv, NEW f \in Frame, f.op \in Data,
         NEW d \in Seq(Octet), Len(d) = f.payload, DataHead(f, d)
  PROVE  HeadTyped
  <1>1. CASE CloseStream
    BY <1>1 DEF CloseStream, HeadTyped, WsInv, WsTypes, Data
  <1>2. CASE ~ Refusing(f) /\ ~ CloseStream
    <2>1. /\ data' = data \o d /\ opcode' = OpcodeAfter(f) /\ client' = client
          /\ IF f.fin THEN wsPhase' = "handle" ELSE wsPhase' = wsPhase
      BY <1>2 DEF DataHead
    <2>2. data \in Seq(Octet) /\ Len(data) + Len(d) < MaxSize
      BY <1>2, WsAssumption DEF Refusing, WsInv
    <2>3. data' \in Seq(Octet) /\ Len(data') < MaxSize
      BY <2>1, <2>2
    <2>4. opcode' \in Data
      BY <2>1 DEF OpcodeAfter, WsInv, WsTypes
    <2>5. wsPhase' \in {"recv", "handle", "closed"}
      BY <2>1 DEF WsInv, WsTypes
    <2>6. QED
      BY <2>1, <2>3, <2>4, <2>5 DEF HeadTyped, WsInv, WsTypes
  <1>3. QED
    BY <1>1, <1>2 DEF DataHead

\* A frame's mask and payload are a number of bytes.
LEMMA TrailerNat ==
  ASSUME NEW f \in Frame
  PROVE  Trailer(f) \in Nat
  <1>1. f.payload \in Nat
    BY WsAssumption DEF Frame
  <1>2. QED
    BY <1>1 DEF Trailer

\* Control frames leave what was collected, or close the stream; one that leaves
\* bytes in the stream is on record.
LEMMA ControlIntact ==
  ASSUME WsInv, NEW f \in Frame, RecvControl(f)
  PROVE  WsInv'
  <1>1. Sends(f) /\ f.op \in Control /\ ControlHead(f) /\ stray' = Trailer(f)
        /\ unread' = (unread \/ Trailer(f) > 0)
    BY DEF RecvControl
  <1>2. /\ wsPhase = "recv" /\ count' \in 0 .. MaxFrames /\ midst' = midst /\ midst' \in BOOLEAN
        /\ masked' \in BOOLEAN /\ sent' = sent /\ sent' \in Seq(Fragment)
    BY <1>1, SendsTyped
  <1>3. HeadTyped
    BY <1>1, ControlTyped
  <1>4. stray' \in Nat /\ unread' \in BOOLEAN /\ (~ unread' => ~ unread /\ stray' = 0)
    <2>1. Trailer(f) \in Nat /\ (Trailer(f) > 0) \in BOOLEAN /\ (Trailer(f) > 0 \/ Trailer(f) = 0)
      BY TrailerNat
    <2>2. unread \in BOOLEAN
      BY DEF WsInv, WsTypes
    <2>3. QED
      BY <1>1, <2>1, <2>2, Zenon
  <1>5. WsTypes'
    BY <1>2, <1>3, <1>4 DEF HeadTyped, WsTypes
  <1>6. ASSUME ~ unread', wsPhase' # "closed"
        PROVE  Collected' /\ wsPhase' = "recv" /\ (midst' <=> sent' # <<>>)
    <2>1. UNCHANGED <<client, opcode, data, wsPhase, given>>
      BY <1>1, <1>6 DEF ControlHead, CloseStream
    <2>2. Collected /\ (midst <=> sent # <<>>)
      BY <1>2, <1>4, <1>6 DEF WsInv
    <2>3. QED
      BY <1>2, <2>1, <2>2 DEF Collected, Pieces
  <1>7. QED
    BY <1>2, <1>3, <1>4, <1>5, <1>6 DEF WsInv, HeadTyped

\* A data frame is refused, or its bytes go behind those collected.
LEMMA DataIntact ==
  ASSUME WsInv, NEW f \in Frame, RecvData(f)
  PROVE  WsInv'
  <1>0. Sends(f) /\ f.op \in Data /\ stray = 0 /\ UNCHANGED <<stray, unread>>
    BY DEF RecvData
  <1>1. /\ wsPhase = "recv" /\ count' \in 0 .. MaxFrames /\ {count'} \in Octet
        /\ (f.op = "CONTINUE" <=> midst) /\ midst' = ~ f.fin
        /\ midst' \in BOOLEAN /\ masked' \in BOOLEAN
        /\ sent' = Append(sent, [op |-> f.op, data |-> Payload(f, count')])
    BY <1>0, SendsTyped
  <1>3. PICK k \in Nat : k = f.payload
    BY WsAssumption DEF Frame
  <1>4. PICK d \in Seq(Octet) : d = Payload(f, count') /\ Len(d) = k
    <2>1. PICK c \in Octet : c = {count'}
      BY <1>1
    <2>2. Payload(f, count') = [i \in 1 .. f.payload |-> c]
      BY <2>1 DEF Payload
    <2>3. QED
      BY <1>3, <2>2, PayloadBytes
  <1>a. DataHead(f, d)
    <2>1. Unmask(f, Wire(f, count')) = d
      BY <1>4, UnmaskWire
    <2>2. QED
      BY <2>1 DEF RecvData
  <1>b. HeadTyped
    BY <1>0, <1>3, <1>4, <1>a, DataTyped
  <1>5. PICK m : m = [op |-> f.op, data |-> d] /\ sent' = Append(sent, m)
    BY <1>1, <1>4
  <1>6. /\ sent' \in Seq(Fragment)
        /\ FlattenSeq(Pieces(sent')) = IF sent = <<>> THEN d ELSE FlattenSeq(Pieces(sent)) \o d
        /\ sent'[1].op = IF sent = <<>> THEN f.op ELSE sent[1].op
    BY <1>0, <1>5, PiecesAppend DEF WsInv
  <1>7. sent' # <<>>
    <2>1. sent \in Seq(Fragment) /\ m \in Fragment
      BY <1>0, <1>5 DEF WsInv, Fragment
    <2>2. QED
      BY <1>5, <2>1, AppendProperties
  <1>8. WsTypes'
    BY <1>0, <1>1, <1>b DEF HeadTyped, WsTypes, WsInv
  <1>9. ASSUME ~ unread, wsPhase' # "closed"
        PROVE  /\ Collected' /\ (wsPhase' = "recv" => midst')
               /\ wsPhase' = "handle" => ~ midst' /\ given' = [op |-> opcode', data |-> data']
    <2>0. /\ ~ Refusing(f) /\ data' = data \o d /\ opcode' = OpcodeAfter(f)
          /\ IF f.fin THEN wsPhase' = "handle" /\ given' = [op |-> opcode', data |-> data']
             ELSE wsPhase' = "recv"
      BY <1>1, <1>9, <1>a DEF DataHead, CloseStream
    <2>3. Collected /\ (midst <=> sent # <<>>) /\ data \in Seq(Octet)
      BY <1>1, <1>9 DEF WsInv
    <2>4. data' = FlattenSeq(Pieces(sent'))
      <3>1. CASE sent = <<>>
        <4>1. data = <<>>
          BY <2>3, <3>1, NothingCollected DEF Collected
        <4>2. data' = d
          BY <2>0, <4>1
        <4>3. QED
          BY <1>6, <3>1, <4>2
      <3>2. CASE sent # <<>>
        BY <1>6, <2>0, <2>3, <3>2 DEF Collected
      <3>3. QED
        BY <3>1, <3>2
    <2>5. opcode' = sent'[1].op /\ opcode' # "CONTINUE" /\ opcode' \in Data
      <3>1. opcode' = IF opcode = "CONTINUE" THEN f.op ELSE opcode
        BY <2>0 DEF OpcodeAfter
      <3>2. opcode \in Data
        BY DEF WsInv, WsTypes
      <3>3. CASE sent = <<>>
        BY <1>0, <1>1, <1>6, <2>3, <3>1, <3>3 DEF Collected
      <3>4. CASE sent # <<>>
        BY <1>6, <2>3, <3>1, <3>2, <3>4 DEF Collected
      <3>5. QED
        BY <3>3, <3>4
    <2>6. Collected'
      BY <1>7, <2>4, <2>5 DEF Collected
    <2>7. QED
      BY <1>1, <2>0, <2>6
  <1>10. QED
    BY <1>0, <1>6, <1>7, <1>8, <1>9, <1>b DEF WsInv, HeadTyped

\* Once bytes are in the stream a message is whatever they say, but no longer than
\* the limit.
LEMMA StrayTyped ==
  ASSUME WsInv, NEW f \in Frame, SendBehind(f) \/ RecvStray(f)
  PROVE  WsInv'
  <1>1. stray \in Nat /\ stray > 0 /\ unread /\ unread' = unread
    <2>1. stray \in Nat /\ stray > 0
      BY DEF WsInv, WsTypes, SendBehind, RecvStray
    <2>2. QED
      BY <2>1 DEF WsInv, WsTypes, SendBehind, RecvStray
  <1>2. Trailer(f) \in Nat
    BY TrailerNat
  <1>3. CASE SendBehind(f)
    <2>1. Sends(f) /\ stray' = stray + 2 + Trailer(f) /\ UNCHANGED <<client, opcode, data, wsPhase, given>>
      BY <1>3 DEF SendBehind
    <2>2. /\ count' \in 0 .. MaxFrames /\ midst' \in BOOLEAN /\ masked' \in BOOLEAN
          /\ sent' \in Seq(Fragment)
      BY <2>1, SendsTyped
    <2>3. stray' \in Nat
      BY <1>1, <1>2, <2>1
    <2>4. QED
      BY <1>1, <2>1, <2>2, <2>3 DEF WsInv, WsTypes
  <1>4. CASE RecvStray(f)
    <2>1. stray >= 2 /\ UNCHANGED <<midst, sent, masked, unread, count>>
      BY <1>4 DEF RecvStray
    <2>2. CASE f.op \in Control /\ ControlHead(f) /\ stray' = stray - 2
      <3>1. HeadTyped
        BY <2>2, ControlTyped
      <3>2. stray' \in Nat
        BY <1>1, <2>1, <2>2
      <3>3. QED
        BY <1>1, <2>1, <3>1, <3>2 DEF WsInv, WsTypes, HeadTyped
    <2>3. CASE /\ f.op \in Data /\ (Refusing(f) \/ stray >= 2 + Trailer(f))
               /\ DataHead(f, [i \in 1 .. f.payload |-> {}])
               /\ stray' = IF Refusing(f) THEN stray ELSE stray - (2 + Trailer(f))
      <3>1. PICK d : d = [i \in 1 .. f.payload |-> {}]
        OBVIOUS
      <3>2. d \in Seq(Octet) /\ Len(d) = f.payload
        <4>1. {} \in Octet
          BY DEF Octet
        <4>2. QED
          BY <3>1, <4>1, PayloadBytes
      <3>3. HeadTyped
        BY <2>3, <3>1, <3>2, DataTyped
      <3>4. stray' \in Nat
        BY <1>1, <1>2, <2>3
      <3>5. QED
        BY <1>1, <2>1, <3>3, <3>4 DEF WsInv, WsTypes, HeadTyped
    <2>4. QED
      BY <1>4, <2>2, <2>3 DEF RecvStray
  <1>5. QED
    BY <1>3, <1>4

\* WSRecvMessage keeps the invariant.
LEMMA WsAlways == WsSpec => []WsInv
  <1>1. WsInit => WsInv
    <2> SUFFICES ASSUME WsInit PROVE WsInv
      OBVIOUS
    <2>1. WsTypes
      <3>1. 0 \in Nat /\ 0 \in 0 .. MaxFrames
        BY WsAssumption
      <3>2. QED
        BY <3>1 DEF WsInit, WsTypes, Data
    <2>2. Collected
      BY NothingCollected DEF WsInit, Collected
    <2>3. QED
      BY <2>1, <2>2 DEF WsInit, WsInv
  <1>2. WsInv /\ [WsNext]_wsVars => WsInv'
    <2> SUFFICES ASSUME WsInv, [WsNext]_wsVars PROVE WsInv'
      OBVIOUS
    <2>1. CASE UNCHANGED wsVars
      BY <2>1 DEF wsVars, WsInv, WsTypes, Collected, Pieces
    <2>2. CASE HandleMessage
      <3>1. WsTypes'
        BY <2>2 DEF HandleMessage, WsInv, WsTypes, Data
      <3>2. Collected'
        BY <2>2, NothingCollected DEF HandleMessage, Collected
      <3>3. QED
        BY <2>2, <3>1, <3>2 DEF HandleMessage, WsInv, WsTypes
    <2>3. CASE StreamEnds
      BY <2>3 DEF StreamEnds, CloseStream, WsInv, WsTypes, Data
    <2>4. CASE \E f \in Frame : RecvControl(f) \/ RecvData(f) \/ SendBehind(f) \/ RecvStray(f)
      BY <2>4, ControlIntact, DataIntact, StrayTyped
    <2>5. QED
      BY <2>1, <2>2, <2>3, <2>4 DEF WsNext
  <1>3. QED
    BY <1>1, <1>2, PTL DEF WsSpec

\* WSRecvMessage returns a message as it was sent: the opcode of its first frame
\* and the bytes of all its frames, in order and unmasked, with any number of
\* frames of any size, and of control frames without mask and payload in between.
THEOREM MessagesIntact == WsSpec => []WsIntact
  <1>1. WsInv => WsIntact
    <2> SUFFICES ASSUME WsInv, ~ unread
                 PROVE  /\ wsPhase = "handle" => ~ midst /\ sent # <<>> /\ given = SentMessage
                        /\ wsPhase = "recv" => IF midst THEN data = SentMessage.data
                                               ELSE sent = <<>> /\ data = <<>>
      BY DEF WsIntact
    <2>1. SentMessage = [op |-> sent[1].op, data |-> FlattenSeq(Pieces(sent))]
      BY DEF SentMessage, Pieces
    <2>2. ASSUME wsPhase = "handle" PROVE ~ midst /\ sent # <<>> /\ given = SentMessage
      BY <2>1, <2>2 DEF WsInv, Collected
    <2>3. ASSUME wsPhase = "recv"
          PROVE  IF midst THEN data = SentMessage.data ELSE sent = <<>> /\ data = <<>>
      <3>1. data = FlattenSeq(Pieces(sent)) /\ (midst <=> sent # <<>>)
        BY <2>3 DEF WsInv, Collected
      <3>2. SentMessage.data = FlattenSeq(Pieces(sent))
        BY <2>1
      <3>3. QED
        BY <3>1, <3>2, NothingCollected
    <2>4. QED
      BY <2>2, <2>3
  <1>2. QED
    BY <1>1, WsAlways, PTL

-----------------------------------------------------------------------------
(***************************************************************************)
(* Configuration variables.                                                *)
(***************************************************************************)

\* One variable by itself; a run of MCServices plays it as one scene.
ConfigSpec == ConfigInit /\ [][ConfigNext]_configVars

\* The calls of setValue that are past the test.
Active == {s \in Setters : setting[s] # "idle"}

\* A call has listeners left to tell only while it holds the read lock.
ToldBeforeWrite == \A s \in Setters : setting[s] # "notify" => todo[s] = {}

\* The calls under way agree on the value, unless raced says otherwise ...
SameValue == ~raced => \A s, o \in Active : val[s] = val[o]

\* ... and then a listener works with that value as soon as one of them has told
\* it, also if another assigns before or after.
Told ==
  ~raced => \A k \in m_cbs \ missed : \A s \in Active : k \notin todo[s] => believed[k] = val[s]

ConfigInv == ConfigTypes /\ ToldBeforeWrite /\ SameValue /\ Told /\ ListenersAgree

\* A variable starts without listeners and without calls.
LEMMA ConfigInitial == ConfigInit => ConfigInv
  BY ConfigAssumption
  DEF ConfigInit, ConfigInv, ConfigTypes, m_cbs, ToldBeforeWrite, SameValue, Told, Active,
      ListenersAgree

\* The steps of setValue keep the invariant.
LEMMA SetterKeeps ==
  ASSUME ConfigInv, NEW s \in Setters,
         CallListener(s) \/ ReleaseRead(s) \/ Assign(s) \/ \E v \in Values : SetValue(s, v)
  PROVE  ConfigInv'
  <1> USE DEF ConfigInv
  <1>1. CASE CallListener(s)
    <2>1. PICK k \in todo[s] :
            /\ believed' = [believed EXCEPT ![k] = val[s]] /\ missed' = missed \ {k}
            /\ todo' = [todo EXCEPT ![s] = @ \ {k}]
      BY <1>1 DEF CallListener, Notify
    <2>2. setting[s] = "notify" /\ UNCHANGED <<m_val, listener, setting, val, sets, raced>>
      BY <1>1 DEF CallListener
    <2>3. k \in m_cbs /\ k \in Listeners /\ m_cbs' = m_cbs /\ Active' = Active /\ s \in Active
      BY <2>1, <2>2 DEF ConfigTypes, m_cbs, Active
    <2>4. ConfigTypes'
      BY <2>1, <2>2, <2>3 DEF ConfigTypes
    <2>5. ToldBeforeWrite'
      BY <2>1, <2>2 DEF ToldBeforeWrite, ConfigTypes
    <2>6. SameValue'
      BY <2>2, <2>3 DEF SameValue
    <2>7. Told'
      <3> SUFFICES ASSUME ~raced, NEW j \in m_cbs \ missed', NEW o \in Active, j \notin todo'[o]
                   PROVE  believed'[j] = val[o]
        BY <2>2, <2>3 DEF Told
      <3>0. o \in Setters
        BY DEF Active
      <3>1. CASE j = k
        BY <2>1, <2>3, <3>1 DEF SameValue, ConfigTypes
      <3>2. CASE j # k
        BY <2>1, <3>0, <3>2 DEF Told, ConfigTypes
      <3>3. QED
        BY <3>1, <3>2
    <2>8. ListenersAgree'
      BY <2>2 DEF ListenersAgree
    <2>9. QED
      BY <2>4, <2>5, <2>6, <2>7, <2>8
  <1>2. CASE ReleaseRead(s)
    <2>1. /\ setting[s] = "notify" /\ todo[s] = {} /\ setting' = [setting EXCEPT ![s] = "write"]
          /\ UNCHANGED <<m_val, listener, believed, val, todo, sets, raced, missed>>
      BY <1>2 DEF ReleaseRead
    <2>2. Active' = Active /\ m_cbs' = m_cbs
      BY <2>1 DEF Active, ConfigTypes, m_cbs
    <2>3. ConfigTypes'
      BY <2>1, <2>2 DEF ConfigTypes
    <2>4. ToldBeforeWrite'
      BY <2>1 DEF ToldBeforeWrite, ConfigTypes
    <2>5. SameValue' /\ Told'
      BY <2>1, <2>2 DEF SameValue, Told
    <2>6. ListenersAgree'
      BY <2>1 DEF ListenersAgree, ConfigTypes
    <2>7. QED
      BY <2>3, <2>4, <2>5, <2>6
  <1>3. CASE Assign(s)
    <2>1. /\ setting[s] = "write" /\ m_val' = val[s] /\ setting' = [setting EXCEPT ![s] = "idle"]
          /\ val' = [val EXCEPT ![s] = 0]
          /\ UNCHANGED <<listener, believed, todo, sets, raced, missed>>
      BY <1>3 DEF Assign
    <2>2. Active' = Active \ {s} /\ s \in Active /\ m_cbs' = m_cbs /\ todo[s] = {}
      BY <2>1 DEF Active, ConfigTypes, m_cbs, ToldBeforeWrite
    <2>3. \A o \in Active' : val'[o] = val[o]
      BY <2>1, <2>2 DEF ConfigTypes, Active
    <2>4. ConfigTypes'
      BY <2>1, <2>2, ConfigAssumption DEF ConfigTypes
    <2>5. ToldBeforeWrite'
      BY <2>1 DEF ToldBeforeWrite, ConfigTypes
    <2>6. SameValue' /\ Told'
      BY <2>1, <2>2, <2>3 DEF SameValue, Told
    <2>7. ListenersAgree'
      BY <2>1, <2>2 DEF ListenersAgree, Told
    <2>8. QED
      BY <2>4, <2>5, <2>6, <2>7
  <1>4. ASSUME NEW v \in Values, SetValue(s, v) PROVE ConfigInv'
    <2>1. /\ setting[s] = "idle" /\ sets < MaxSets /\ sets' = sets + 1
          /\ UNCHANGED <<m_val, listener, believed, missed>>
      BY <1>4 DEF SetValue
    <2>2. sets' \in 0 .. MaxSets /\ m_cbs' = m_cbs
      BY <2>1, ConfigAssumption DEF ConfigTypes, m_cbs
    <2>3. CASE UNCHANGED <<setting, val, todo, raced>>
      <3>1. ConfigTypes'
        BY <2>1, <2>2, <2>3 DEF ConfigTypes
      <3>2. ToldBeforeWrite' /\ SameValue' /\ Told' /\ ListenersAgree'
        BY <2>1, <2>2, <2>3 DEF ToldBeforeWrite, SameValue, Told, Active, ListenersAgree
      <3>3. QED
        BY <3>1, <3>2
    <2>4. CASE /\ setting' = [setting EXCEPT ![s] = "notify"]
               /\ val' = [val EXCEPT ![s] = v] /\ todo' = [todo EXCEPT ![s] = m_cbs]
               /\ raced' = (Active # {} /\ (raced \/ \E o \in Active : val[o] # v))
      <3>1. Active' = Active \cup {s} /\ s \notin Active
        BY <2>1, <2>4 DEF Active, ConfigTypes
      <3>2. /\ val'[s] = v /\ todo'[s] = m_cbs /\ setting'[s] = "notify"
            /\ \A o \in Setters \ {s} : val'[o] = val[o] /\ todo'[o] = todo[o] /\ setting'[o] = setting[o]
        BY <2>4 DEF ConfigTypes
      <3>3. ConfigTypes'
        BY <2>1, <2>2, <2>4 DEF ConfigTypes
      <3>4. ToldBeforeWrite'
        BY <3>2 DEF ToldBeforeWrite
      <3>5. ~raced' => Active = {} \/ (~raced /\ \A o \in Active : val[o] = v)
        BY <2>4
      <3>6. Active \subseteq Setters
        BY DEF Active
      <3>7. SameValue'
        BY <3>1, <3>2, <3>5, <3>6 DEF SameValue
      <3>8. Told'
        BY <2>1, <2>2, <3>1, <3>2, <3>5, <3>6 DEF Told
      <3>9. ListenersAgree'
        BY <3>2 DEF ListenersAgree
      <3>10. QED
        BY <3>3, <3>4, <3>7, <3>8, <3>9
    <2>5. QED
      BY <1>4, <2>3, <2>4 DEF SetValue, Active
  <1>5. QED
    BY <1>1, <1>2, <1>3, <1>4

\* A component that reads the value and registers, or leaves, keeps the invariant.
LEMMA ListenerKeeps ==
  ASSUME ConfigInv, NEW k \in Listeners, ReadValue(k) \/ AddListener(k) \/ DelListener(k)
  PROVE  ConfigInv'
  <1> USE DEF ConfigInv
  <1>1. UNCHANGED <<m_val, setting, val, todo, sets, raced>> /\ Active' = Active
    BY DEF ReadValue, AddListener, DelListener, Active
  <1>2. ToldBeforeWrite' /\ SameValue'
    BY <1>1 DEF ToldBeforeWrite, SameValue
  <1>3. CASE ReadValue(k)
    <2>1. /\ listener[k] = "none" /\ listener' = [listener EXCEPT ![k] = "read"]
          /\ believed' = [believed EXCEPT ![k] = m_val] /\ missed' = missed
      BY <1>3 DEF ReadValue
    <2>2. m_cbs' = m_cbs /\ k \notin m_cbs
      BY <2>1 DEF m_cbs, ConfigTypes
    <2>3. \A j \in m_cbs : believed'[j] = believed[j]
      BY <2>1, <2>2 DEF ConfigTypes, m_cbs
    <2>4. ConfigTypes'
      BY <1>1, <2>1, <2>2 DEF ConfigTypes
    <2>5. Told' /\ ListenersAgree'
      BY <1>1, <2>1, <2>2, <2>3 DEF Told, ListenersAgree
    <2>6. QED
      BY <1>2, <2>4, <2>5
  <1>4. CASE AddListener(k)
    <2>1. /\ listener[k] = "read" /\ listener' = [listener EXCEPT ![k] = "listed"]
          /\ believed' = believed /\ \A s \in Setters : setting[s] # "notify"
          /\ missed' = IF believed[k] # m_val \/ \E s \in Setters : setting[s] = "write"
               THEN missed \cup {k} ELSE missed
      BY <1>4 DEF AddListener, WriteLock
    <2>2. m_cbs' = m_cbs \cup {k}
      BY <2>1 DEF m_cbs, ConfigTypes
    <2>3. ConfigTypes'
      BY <1>1, <2>1, <2>2 DEF ConfigTypes
    <2>4. CASE k \in missed'
      <3>1. m_cbs' \ missed' \subseteq m_cbs \ missed
        BY <2>1, <2>2, <2>4
      <3>2. QED
        BY <1>1, <1>2, <2>1, <2>3, <3>1 DEF Told, ListenersAgree
    <2>5. CASE k \notin missed'
      <3>1. missed' = missed /\ believed[k] = m_val /\ Active = {}
        BY <2>1, <2>5 DEF Active, ConfigTypes
      <3>2. Told' /\ ListenersAgree'
        BY <1>1, <2>1, <2>2, <3>1 DEF Told, ListenersAgree
      <3>3. QED
        BY <1>2, <2>3, <3>2
    <2>6. QED
      BY <2>4, <2>5
  <1>5. CASE DelListener(k)
    <2>1. /\ listener' = [listener EXCEPT ![k] = "gone"]
          /\ UNCHANGED <<believed, missed>> /\ \A s \in Setters : setting[s] # "notify"
      BY <1>5 DEF DelListener, WriteLock
    <2>2. m_cbs' \subseteq m_cbs
      BY <2>1 DEF m_cbs, ConfigTypes
    <2>3. todo' \in [Setters -> SUBSET m_cbs']
      BY <1>1, <2>1 DEF ToldBeforeWrite, ConfigTypes
    <2>4. ConfigTypes'
      BY <1>1, <2>1, <2>3 DEF ConfigTypes
    <2>5. Told' /\ ListenersAgree'
      BY <1>1, <2>1, <2>2 DEF Told, ListenersAgree
    <2>6. QED
      BY <1>2, <2>4, <2>5
  <1>6. QED
    BY <1>3, <1>4, <1>5

\* Every step keeps the invariant.
LEMMA ConfigStep == ConfigInv /\ [ConfigNext]_configVars => ConfigInv'
  <1> SUFFICES ASSUME ConfigInv, [ConfigNext]_configVars PROVE ConfigInv'
    OBVIOUS
  <1>1. CASE UNCHANGED configVars
    BY <1>1 DEF ConfigInv, ConfigTypes, m_cbs, ToldBeforeWrite, SameValue, Told, Active,
            ListenersAgree, configVars
  <1>2. CASE ConfigNext
    BY <1>2, SetterKeeps, ListenerKeeps DEF ConfigNext
  <1>3. QED
    BY <1>1, <1>2

\* Once the calls of setValue are over, every listener works with the value that
\* getValue returns, unless two calls with different values were past the test
\* together or the listener registered on either side of a change: calling the
\* listeners before the value is assigned costs no more than that.
THEOREM ListenersFollow == ConfigSpec => []ListenersAgree
  <1>1. ConfigInv => ListenersAgree
    BY DEF ConfigInv
  <1>2. QED
    BY <1>1, ConfigInitial, ConfigStep, PTL DEF ConfigSpec

-----------------------------------------------------------------------------
(***************************************************************************)
(* All services.  A step of one scene leaves the others alone, so that the *)
(* composition implements each service by itself, and what was proved of   *)
(* the services holds of it.                                               *)
(***************************************************************************)

\* A step of the composition is a step, or none, of every service.
LEMMA ScenesApart ==
  ASSUME [Next]_vars
  PROVE  /\ [HookNext]_hookVars /\ [PoolNext]_poolVars /\ [SessionNext]_sessionVars
         /\ [ByteNext]_byteVars /\ [ServerNext]_serverVars /\ [WsNext]_wsVars
         /\ [ConfigNext]_configVars
  <1>1. CASE UNCHANGED vars
    BY <1>1, Zenon DEF vars, services
  <1>2. CASE Next
    BY <1>2, Zenon DEF Next
  <1>3. QED
    BY <1>1, <1>2

\* The seven services, composed as in the run, behave as each of them does alone:
\* hook.cc, the connection pool, the HTTP session, ByteArray, TcpServer, the
\* WebSocket and ConfigVar share no state.
THEOREM ServicesComposed ==
  Spec => HookSpec /\ PoolSpec /\ SessionSpec /\ ByteSpec /\ ServerSpec /\ WsSpec /\ ConfigSpec
  <1>1. Init => HookInit /\ PoolInit /\ SessionInit /\ ByteInit /\ ServerInit /\ WsInit /\ ConfigInit
    BY Zenon DEF Init
  <1>2. QED
    BY <1>1, ScenesApart, PTL
    DEF Spec, HookSpec, PoolSpec, SessionSpec, ByteSpec, ServerSpec, WsSpec, ConfigSpec

\* The variables of all services keep their types: descriptors and counters stay in
\* their ranges, a ByteArray's position within its size and its size within its
\* blocks, for every value of the constants.
THEOREM ServicesTypeCorrect == Spec => []TypeOK
  <1>1. HookSpec => []HookTypes
    <2>1. HookInv => HookTypes
      BY DEF HookInv
    <2>2. QED
      BY <2>1, HookInitial, HookStep, PTL DEF HookSpec
  <1>2. PoolSpec => []PoolTypes
    <2>1. PoolInv => PoolTypes
      BY DEF PoolInv
    <2>2. QED
      BY <2>1, PoolInitial, PoolStep, PTL DEF PoolSpec
  <1>3. ByteSpec => []ByteTypes
    <2>1. ByteInv => ByteTypes
      BY DEF ByteInv
    <2>2. QED
      BY <2>1, ByteInvAlways, PTL
  <1>4. WsSpec => []WsTypes
    <2>1. WsInv => WsTypes
      BY DEF WsInv
    <2>2. QED
      BY <2>1, WsAlways, PTL
  <1>5. ConfigSpec => []ConfigTypes
    <2>1. ConfigInv => ConfigTypes
      BY DEF ConfigInv
    <2>2. QED
      BY <2>1, ConfigInitial, ConfigStep, PTL DEF ConfigSpec
  <1>6. HookTypes /\ PoolTypes /\ SessionTypes /\ ByteTypes /\ ServerTypes /\ WsTypes /\ ConfigTypes
          => TypeOK
    BY DEF TypeOK
  <1>7. QED
    BY <1>1, <1>2, <1>3, <1>4, <1>5, <1>6, SessionTypeCorrect, ServerTypesAlways,
       ServicesComposed, PTL
=============================================================================
