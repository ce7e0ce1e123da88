----------------------------- MODULE SendBuffer -----------------------------
(***************************************************************************)
(* The send side of one session: SendData of the logic thread appends to   *)
(* pSendBuffer, flushSendBuff of the network thread sends its front and    *)
(* moves the rest up. Neither takes a lock: each access to SendSize and to *)
(* the buffer is a step of its own.                                        *)
(*                                                                         *)
(* The responses are counted in units, and a place of the buffer holds the *)
(* number of the unit that was put there.                                  *)
(***************************************************************************)
EXTENDS Integers

CONSTANT SendBufferSize    \* MaxClientSendBufferSize

ASSUME SendBufferAssumption == SendBufferSize \in Nat

VARIABLES
    sendBuffer,   \* pSendBuffer
    sendSize,     \* SendSize
    accepted,     \* how many units SendData has taken
    delivered,    \* how many of them the client has received in order
    garbled,      \* the client has received a unit out of order
    append,       \* SendData: where it is, and its variables
    flush         \* flushSendBuff: the same

sendVars == <<sendBuffer, sendSize, accepted, delivered, garbled, append,
              flush>>

Places == 0 .. SendBufferSize - 1

NotAppending == [at |-> "idle", pos |-> 0, size |-> 0, reg |-> 0]
NotFlushing  == [at |-> "idle", sent |-> 0, reg |-> 0]

SendInit ==
    /\ sendBuffer = [p \in Places |-> 0] /\ sendSize = 0
    /\ accepted = 0 /\ delivered = 0 /\ garbled = FALSE
    /\ append = NotAppending /\ flush = NotFlushing
-----------------------------------------------------------------------------
\* SendData: pos is read and, with space for size more units, they are copied;
\* then SendSize is read again and written.
SpaceForAny(size) == sendSize < SendBufferSize
SpaceFor(size) == sendSize + size <= SendBufferSize

SendData(size) ==
    /\ append.at = "idle" /\ SpaceFor(size)
    /\ append' = [at |-> "copy", pos |-> sendSize, size |-> size, reg |-> 0]
    /\ UNCHANGED <<sendBuffer, sendSize, accepted, delivered, garbled, flush>>

Copy ==
    /\ append.at = "copy"
    /\ sendBuffer' = [p \in Places |->
           IF p \in append.pos .. append.pos + append.size - 1
           THEN accepted + 1 + p - append.pos ELSE sendBuffer[p]]
    /\ append' = [append EXCEPT !.at = "load"]
    /\ UNCHANGED <<sendSize, accepted, delivered, garbled, flush>>

LoadSize ==
    /\ append.at = "load"
    /\ append' = [append EXCEPT !.at = "store", !.reg = sendSize]
    /\ UNCHANGED <<sendBuffer, sendSize, accepted, delivered, garbled, flush>>

AddSize ==
    /\ append.at = "store"
    /\ sendSize' = append.reg + append.size
    /\ accepted' = accepted + append.size
    /\ append' = NotAppending
    /\ UNCHANGED <<sendBuffer, delivered, garbled, flush>>

Appending == Copy \/ LoadSize \/ AddSize
-----------------------------------------------------------------------------
\* flushSendBuff: send takes the front; of nothing (or less), nothing.
SendSocket ==
    /\ flush.at = "idle"
    /\ \E n \in (0 .. sendSize) \cup {0} :
        /\ n = 0 <=> sendSize <= 0
        /\ LET inOrder == \A p \in 0 .. n - 1 : sendBuffer[p] = delivered + 1 + p
           IN  /\ garbled' = (garbled \/ ~inOrder)
               /\ delivered' = IF garbled' THEN delivered ELSE delivered + n
        /\ flush' = [at |-> "compare", sent |-> n, reg |-> 0]
    /\ UNCHANGED <<sendBuffer, sendSize, accepted, append>>

\* The comparison reads SendSize anew, and so does the memmove.
RestFromNext(n) == n + 1 < sendSize
RestFrom(n) == n < sendSize

CompareSize ==
    /\ flush.at = "compare"
    /\ flush' = [flush EXCEPT !.at =
                     IF RestFrom(flush.sent) THEN "move" ELSE "reset"]
    /\ UNCHANGED <<sendBuffer, sendSize, accepted, delivered, garbled, append>>

MoveRest ==
    /\ flush.at = "move"
    /\ sendBuffer' = [p \in Places |->
           IF p < sendSize - flush.sent THEN sendBuffer[p + flush.sent]
           ELSE sendBuffer[p]]
    /\ flush' = [flush EXCEPT !.at = "load"]
    /\ UNCHANGED <<sendSize, accepted, delivered, garbled, append>>

LoadRest ==
    /\ flush.at = "load"
    /\ flush' = [flush EXCEPT !.at = "store", !.reg = sendSize]
    /\ UNCHANGED <<sendBuffer, sendSize, accepted, delivered, garbled, append>>

SubtractSent ==
    /\ flush.at = "store"
    /\ sendSize' = flush.reg - flush.sent
    /\ flush' = NotFlushing
    /\ UNCHANGED <<sendBuffer, accepted, delivered, garbled, append>>

SizeKept == sendSize
NothingLeft == 0

ResetSize ==
    /\ flush.at = "reset"
    /\ sendSize' = NothingLeft
    /\ flush' = NotFlushing
    /\ UNCHANGED <<sendBuffer, accepted, delivered, garbled, append>>

Flush ==
    \/ SendSocket \/ CompareSize
    \/ MoveRest \/ LoadRest \/ SubtractSent \/ ResetSize
-----------------------------------------------------------------------------
\* The two threads are both between their first and last look at SendSize,
\* but for the look that send takes: what it sends is complete.
Colliding ==
    /\ append.at # "idle"
    /\ flush.at \in {"move", "load", "store", "reset"}
=============================================================================
