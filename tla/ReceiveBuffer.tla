--------------------------- MODULE ReceiveBuffer ----------------------------
(***************************************************************************)
(* The receive side of one session: recvSocket and recvBufferProcess of the*)
(* network thread cut the client's byte stream into packets, and the queue *)
(* holds pointers into pRecvBuffer, which the next recvSocket changes.     *)
(*                                                                         *)
(* The stream is counted in units, and a place of the buffer holds the     *)
(* number of the unit that lies there. A header is the client's word: the  *)
(* size of the body in it is signed, and may be more than MaxBody.         *)
(***************************************************************************)
EXTENDS Integers, Sequences, SequencesExt

CONSTANTS
    HeaderSize,       \* PACKET_HEADER_SIZE
    MaxBody,          \* MAX_PACKET_BODY_SIZE
    Bodies,           \* the body sizes that the client's headers announce
    RecvBufferSize,   \* MaxClientRecvBufferSize
    MaxRequests       \* bound on the packets the client sends

ASSUME ReceiveBufferAssumption ==
    /\ HeaderSize \in Nat \ {0} /\ MaxBody \in Nat \ {0}
    /\ Bodies \subseteq Int
    /\ RecvBufferSize \in Nat
    /\ HeaderSize + MaxBody - 1 + 2 * MaxBody <= RecvBufferSize
    /\ MaxRequests \in Nat

VARIABLES
    body,         \* the body sizes in the headers the client has sent
    start,        \* the first unit of each of them, and of the next one
    received,     \* how many units of them recv has taken
    recvBuffer,   \* pRecvBuffer, as far as it has been written
    dataSize,     \* ReServerHostingDataSize
    prevReadPos,  \* PrevReadPosInRecvBuffer
    readPos,      \* of recvBufferProcess
    framing,      \* its dataSize, a copy that it made at its start
    packets,      \* this session's part of _packetQueue
    closed        \* closeSession has closed the session

receiveVars == <<body, start, received, recvBuffer, dataSize, prevReadPos,
                 readPos, framing, packets, closed>>

ReceiveInit ==
    /\ body = <<>> /\ start = <<1>> /\ received = 0
    /\ recvBuffer = <<>> /\ dataSize = 0 /\ prevReadPos = 0
    /\ readPos = 0 /\ framing = 0
    /\ packets = <<>>
    /\ closed = FALSE

SentUnits == Last(start) - 1

\* A body of a negative size is none.
Units(b) == IF b > 0 THEN b ELSE 0

ClientSends ==
    /\ Len(body) < MaxRequests
    /\ \E b \in Bodies :
        /\ body' = Append(body, b)
        /\ start' = Append(start, Last(start) + HeaderSize + Units(b))
    /\ UNCHANGED <<received, recvBuffer, dataSize, prevReadPos, readPos,
                   framing, packets, closed>>
-----------------------------------------------------------------------------
\* recvSocket: what the last round left over moves to the front, and recv adds
\* up to 2 * MaxBody units to it. The memcpy overlaps if more is left over than
\* was read; it copies upwards, as memmove would. Nothing is known of what lies
\* outside of what was written.
Place(p) == IF p \in DOMAIN recvBuffer THEN recvBuffer[p] ELSE 0

LeftOverUnmoved == [i \in 1 .. dataSize |-> Place(i)]
LeftOver == [i \in 1 .. dataSize |-> Place(prevReadPos + i)]

Overwritten(front) ==
    front \o SubSeq(recvBuffer, Len(front) + 1, Len(recvBuffer))

RecvSocket ==
    /\ \E n \in 1 .. 2 * MaxBody :
        /\ received + n <= SentUnits
        /\ recvBuffer' = Overwritten(LeftOver \o [i \in 1 .. n |-> received + i])
        /\ received' = received + n
        /\ dataSize' = dataSize + n
    /\ readPos' = 0 /\ framing' = dataSize'
    /\ UNCHANGED <<body, start, prevReadPos, packets, closed>>

\* recv has written past the end of pRecvBuffer.
Overrun == Len(recvBuffer) > RecvBufferSize

\* Which packet's header lies at p. Where none does (inside of a packet, or
\* outside of what was received) other units are read as one, and they say
\* anything.
HeaderAt(p) ==
    IF \E k \in DOMAIN body : start[k] = Place(p + 1)
    THEN CHOOSE k \in DOMAIN body : start[k] = Place(p + 1) ELSE 0

Announced(k) == IF k = 0 THEN Bodies ELSE {body[k]}

HasHeader == framing - readPos >= HeaderSize
Unread    == framing - readPos - HeaderSize

\* Only a body of a positive size is waited for, and limited.
HasBody(b) == b > 0 => b <= Unread

HeaderPos == readPos
BodyPos == readPos + HeaderSize

\* One turn of the loop of recvBufferProcess, which queues a packet. A negative
\* size takes readPos back.
Frame ==
    LET k == HeaderAt(readPos)
    IN  /\ HasHeader
        /\ \E b \in Announced(k) :
            /\ HasBody(b) /\ b <= MaxBody
            /\ packets' = Append(packets, [packet |-> k, size |-> b,
                                           at |-> BodyPos])
            /\ readPos' = readPos + HeaderSize + b
        /\ UNCHANGED <<body, start, received, recvBuffer, dataSize,
                       prevReadPos, framing, closed>>

\* RECV_CLIENT_MAX_PACKET, once all of it is there.
TooBig ==
    /\ HasHeader
    /\ \E b \in Announced(HeaderAt(readPos)) : HasBody(b) /\ b > MaxBody

AllData == dataSize
NotFramed == dataSize - readPos

\* The loop ends. readPos and the copy of dataSize go out of scope.
FrameEnd ==
    /\ HasHeader => \E b \in Announced(HeaderAt(readPos)) : ~HasBody(b)
    /\ dataSize' = NotFramed
    /\ prevReadPos' = readPos
    /\ readPos' = 0 /\ framing' = 0
    /\ UNCHANGED <<body, start, received, recvBuffer, packets, closed>>
-----------------------------------------------------------------------------
\* The body a queued packet points to is the one the client sent.
Intact(p) ==
    SubSeq(recvBuffer, p.at + 1, p.at + p.size)
        = [i \in 1 .. p.size |-> start[p.packet] + HeaderSize + i - 1]
=============================================================================
