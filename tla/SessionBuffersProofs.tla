------------------------ MODULE SessionBuffersProofs ------------------------
(***************************************************************************)
(* Proofs about SessionBuffers, for every size of the buffers and of the   *)
(* packets: first the send side, then the receive side, then what they are *)
(* to each other for a client that waits for its answers.                  *)
(***************************************************************************)
EXTENDS SessionBuffers, SequenceTheorems, TLAPS

Append_at == {"idle", "copy", "load", "store"}
Flush_at  == {"idle", "compare", "move", "load", "store", "reset"}

SendTypes ==
    /\ sendSize \in Int
    /\ append \in [at : Append_at, pos : Int, size : Nat, reg : Int]
    /\ flush \in [at : Flush_at, sent : Int, reg : Int]
    /\ net \in {"select", "recv", "frame", "send", "flush"}
    /\ flush.at # "idle" => net = "flush"

\* What SendData knows of SendSize is never less than SendSize is, because
\* flushSendBuff only lowers it; what it adds therefore fits. In turn
\* SendSize is never less than what flushSendBuff has sent.
SizeInv ==
    /\ SendTypes
    /\ 0 <= sendSize /\ sendSize <= SendBufferSize
    /\ append.at # "idle" => append.pos + append.size <= SendBufferSize
    /\ append.at # "idle" => sendSize <= append.pos
    /\ append.at = "store" => sendSize <= append.reg /\ append.reg <= append.pos
    /\ flush.at # "idle" => 0 <= flush.sent /\ flush.sent <= sendSize
    /\ flush.at = "store" => flush.sent <= flush.reg /\ flush.reg <= sendSize

\* Until the logic thread clears the session in the middle of a flush.
SizesHold ==
    /\ clearedAt # "nowhere" => closed
    /\ clearedAt # "flush" => SizeInv

LEMMA ResponsesFit == Responses \subseteq 1 .. SendBufferSize
  BY SessionBuffersAssumption

USE SendBufferAssumption, ResponsesFit
-----------------------------------------------------------------------------
LEMMA SizeInit == Init => SizesHold /\ SizeInv
  BY DEF Init, SendInit, SizesHold, SizeInv, SendTypes, Append_at, Flush_at,
         NotAppending, NotFlushing

\* SendData's own steps, after which nothing else has changed.
LEMMA AppendingSize ==
  ASSUME SizeInv, Appending, net' = net
  PROVE  SizeInv'
<1>1. CASE Copy
  BY <1>1 DEF Copy, SizeInv, SendTypes, Append_at, Flush_at
<1>2. CASE LoadSize
  <2>1. append' = [at |-> "store", pos |-> append.pos, size |-> append.size,
                   reg |-> sendSize]
    BY <1>2 DEF LoadSize, SizeInv, SendTypes
  <2> QED
    BY <1>2, <2>1 DEF LoadSize, SizeInv, SendTypes, Append_at, Flush_at
<1>3. CASE AddSize
  BY <1>3 DEF AddSize, SizeInv, SendTypes, Append_at, Flush_at, NotAppending
<1> QED
  BY <1>1, <1>2, <1>3 DEF Appending

LEMMA SendDataSize ==
  ASSUME SizeInv, NEW size \in Responses, SendData(size), net' = net
  PROVE  SizeInv'
  BY DEF SendData, SpaceFor, SizeInv, SendTypes, Append_at, Flush_at

LEMMA SendSize == ASSUME SizeInv, Send PROVE SizeInv'
<1> USE DEF SizeInv, SendTypes, Append_at, Flush_at, Steps
<1>1. CASE Steps("send", "flush") /\ SendSocket
  BY <1>1 DEF SendSocket
<1>2. CASE Steps("flush", "flush") /\ CompareSize
  BY <1>2 DEF CompareSize
<1>3. CASE Steps("flush", "flush") /\ MoveRest
  BY <1>3 DEF MoveRest
<1>4. CASE Steps("flush", "flush") /\ LoadRest
  <2>1. flush' = [at |-> "store", sent |-> flush.sent, reg |-> sendSize]
    BY <1>4 DEF LoadRest
  <2> QED
    BY <1>4, <2>1 DEF LoadRest
<1>5. CASE Steps("flush", "select") /\ SubtractSent
  BY <1>5 DEF SubtractSent, NotFlushing
<1>6. CASE Steps("flush", "select") /\ ResetSize
  BY <1>6 DEF ResetSize, NotFlushing, NothingLeft
<1> QED
  BY <1>1, <1>2, <1>3, <1>4, <1>5, <1>6 DEF Send

\* Clear, by either thread, comes with no flush under way, or is excluded.
LEMMA ClearSize ==
  ASSUME SizeInv, flush.at = "idle", Clear,
         net' \in {"select", "recv", "frame", "send"} \/ net' = net,
         UNCHANGED <<append, flush>>
  PROVE  SizeInv'
  BY DEF Clear, ClearedSize, SizeInv, SendTypes

LEMMA SizeNext == SizesHold /\ [Next]_vars => SizesHold'
<1> SUFFICES ASSUME SizesHold, [Next]_vars PROVE SizesHold'
  OBVIOUS
<1>1. CASE Noting(ForcingClose)
  <2>1. /\ ~closed /\ Clear /\ clearedAt' = net
        /\ UNCHANGED <<append, flush, net>>
    BY <1>1 DEF Noting, ForcingClose
  <2>2. SizeInv /\ closed'
    BY <2>1 DEF SizesHold, Clear
  <2>3. net # "flush" => flush.at = "idle"
    BY <2>2 DEF SizeInv, SendTypes
  <2>4. net # "flush" => SizeInv'
    BY <2>1, <2>2, <2>3, ClearSize
  <2> QED
    BY <2>1, <2>2, <2>4 DEF SizesHold
<1>2. CASE ~Noting(ForcingClose)
  <2>1. UNCHANGED clearedAt /\ (closed => closed')
    BY <1>2 DEF Next, Noting, Network, Requested, Client, ClientSends, Select,
                Receive, RecvSocket, Frame, FrameEnd, CloseSession, Clear,
                NotWritable, Send, GetPacketInfo, Answer, Notify, Append_,
                Steps, vars, hostVars, receiveVars
  <2> SUFFICES ASSUME SizeInv PROVE SizeInv'
    BY <2>1 DEF SizesHold
  <2>2. ASSUME UNCHANGED sendVars, flush.at = "idle",
               net' \in {"select", "recv", "frame", "send"}
        PROVE  SizeInv'
    BY <2>2 DEF SizeInv, SendTypes, sendVars
  <2>3. ASSUME UNCHANGED sendVars, UNCHANGED net PROVE SizeInv'
    BY <2>3 DEF SizeInv, SendTypes, sendVars
  <2>4. CASE Client
    BY <2>3, <2>4 DEF Client, hostVars
  <2>5. CASE Select \/ Receive \/ NotWritable
    <3>1. UNCHANGED sendVars /\ flush.at = "idle"
          /\ net' \in {"select", "recv", "frame", "send"}
      BY <2>5 DEF Select, Receive, NotWritable, Steps, SizeInv, SendTypes
    <3> QED
      BY <2>2, <3>1
  <2>6. CASE CloseSession
    <3>1. /\ flush.at = "idle" /\ net' = "select"
          /\ UNCHANGED <<append, flush>>
          /\ UNCHANGED sendSize \/ Clear
      BY <2>6 DEF CloseSession, Steps, SizeInv, SendTypes
    <3>2. CASE UNCHANGED sendSize
      BY <3>1, <3>2 DEF SizeInv, SendTypes
    <3> QED
      BY <3>1, <3>2, ClearSize
  <2>7. CASE Send
    BY <2>7, SendSize
  <2>8. CASE GetPacketInfo
    BY <2>3, <2>8 DEF GetPacketInfo
  <2>9. ASSUME NEW what, Sends(what), net' = net PROVE SizeInv'
    <3>1. PICK size \in Responses :
              IF SpaceFor(size) THEN SendData(size) ELSE UNCHANGED sendVars
      BY <2>9 DEF Sends
    <3> QED
      BY <2>3, <2>9, <3>1, SendDataSize
  <2>10. CASE Answer \/ Notify
    BY <2>9, <2>10 DEF Answer, Notify
  <2>11. CASE Append_
    BY <2>11, AppendingSize DEF Append_
  <2>12. CASE UNCHANGED vars
    BY <2>3, <2>12 DEF vars, hostVars
  <2> QED
    BY <1>2, <2>4, <2>5, <2>6, <2>7, <2>8, <2>10, <2>11, <2>12
       DEF Next, Noting, Network, Requested
<1> QED
  BY <1>1, <1>2

(* SendSize stays within the buffer, and so do the places that SendData    *)
(* and flushSendBuff touch, however their unlocked accesses interleave with*)
(* each other and with the closes of both threads; but not once the logic  *)
(* thread has cleared the session in the middle of flushSendBuff.          *)
THEOREM SendSizeStays == Spec => []SendSizeInRange
<1>1. SizesHold => SendSizeInRange
  BY DEF SizesHold, SizeInv, SendTypes, SendSizeInRange
<1> QED
  BY SizeInit, SizeNext, <1>1, PTL DEF Spec

\* A session that is open after a step was open before it.
LEMMA StaysOpen ==
  ASSUME [Next]_vars, ~closed'
  PROVE  ~closed /\ ~CloseSession /\ ~ForcingClose
<1>1. ~CloseSession /\ ~ForcingClose
  BY DEF CloseSession, ForcingClose, Clear
<1> QED
  BY <1>1 DEF Next, Noting, Network, Requested, Client, ClientSends, Select,
              Receive, RecvSocket, Frame, FrameEnd, NotWritable, Send,
              GetPacketInfo, Answer, Notify, Append_, Steps, vars, hostVars,
              receiveVars

\* What past the buffer's end excludes is nothing that the proofs need.
LEMMA Steps_ ==
  ASSUME [Next]_vars, ~closed'
  PROVE  \/ Client \/ Select \/ Receive \/ NotWritable \/ Send
         \/ GetPacketInfo \/ Answer \/ Append_ \/ Notify \/ UNCHANGED vars
  BY StaysOpen DEF Next, Noting, Network, Requested
-----------------------------------------------------------------------------
\* From its close on, a session that nobody writes to again has both buffers
\* empty: a flush that begins finds nothing to send.
Emptied ==
    /\ sendSize = 0 /\ dataSize = 0 /\ prevReadPos = 0
    /\ net \in {"select", "send", "flush"}
    /\ flush.at \in {"idle", "compare", "reset"}
    /\ flush.at # "idle" => flush.sent = 0

SlotInv ==
    /\ SizesHold
    /\ clearedAt # "flush" =>
          /\ accepted \in Nat
          /\ append.at # "idle" => append.size >= 1
    /\ closed /\ ~late /\ clearedAt \notin {"recv", "frame", "flush"} => Emptied

LEMMA SlotInit == Init => SlotInv
  BY SizeInit DEF Init, SendInit, ReceiveInit, SlotInv, NotAppending

\* SendData's count is raised by a packet, not by nothing.
LEMMA SlotTypes ==
  ASSUME SlotInv, [Next]_vars, clearedAt' # "flush"
  PROVE  /\ clearedAt # "flush" /\ SizeInv /\ accepted \in Nat
         /\ accepted' \in Nat /\ (append'.at # "idle" => append'.size >= 1)
<1>1. clearedAt # "flush"
  <2>1. CASE ForcingClose
    BY <2>1 DEF ForcingClose, SlotInv, SizesHold
  <2>2. CASE ~ForcingClose
    BY <2>2 DEF Next, Noting, Network, Requested, Client, Select, Receive,
       CloseSession, NotWritable, Send, GetPacketInfo, Answer, Notify, Append_,
       Steps, vars, hostVars
  <2> QED
    BY <2>1, <2>2
<1>2. SizeInv /\ accepted \in Nat /\ (append.at # "idle" => append.size >= 1)
  BY <1>1 DEF SlotInv, SizesHold
<1> SUFFICES accepted' \in Nat /\ (append'.at # "idle" => append'.size >= 1)
  BY <1>1, <1>2
<1>3. CASE UNCHANGED <<accepted, append>>
  BY <1>2, <1>3
<1>4. CASE Append_
  <2>1. CASE Copy \/ LoadSize
    <3>1. UNCHANGED accepted /\ append'.size = append.size /\ append.at # "idle"
      BY <1>2, <2>1 DEF Copy, LoadSize, SizeInv, SendTypes
    <3> QED
      BY <1>2, <3>1
  <2>2. CASE AddSize
    BY <1>2, <2>2 DEF AddSize, NotAppending, SizeInv, SendTypes
  <2> QED
    BY <1>4, <2>1, <2>2 DEF Append_, Appending
<1>5. ASSUME NEW what, Sends(what)
      PROVE  accepted' \in Nat /\ (append'.at # "idle" => append'.size >= 1)
  <2>1. PICK size \in Responses :
            IF SpaceFor(size) THEN SendData(size) ELSE UNCHANGED sendVars
    BY <1>5 DEF Sends
  <2>2. CASE SendData(size)
    BY <1>2, <2>2 DEF SendData
  <2>3. CASE UNCHANGED sendVars
    BY <1>2, <2>3 DEF sendVars
  <2> QED
    BY <2>1, <2>2, <2>3
<1>6. CASE Answer \/ Notify
  BY <1>5, <1>6 DEF Answer, Notify
<1>7. CASE Client \/ Network \/ GetPacketInfo \/ ForcingClose \/ UNCHANGED vars
  BY <1>3, <1>7 DEF Client, Network, Select, Receive, CloseSession, NotWritable,
     Send, SendSocket, CompareSize, MoveRest, LoadRest, SubtractSent, ResetSize,
     GetPacketInfo, ForcingClose, sendVars, vars
<1> QED
  BY <1>1, <1>2, <1>4, <1>6, <1>7 DEF Next, Noting, Requested

LEMMA SlotNext == SlotInv /\ [Next]_vars => SlotInv'
<1> SUFFICES ASSUME SlotInv, [Next]_vars, closed', ~late',
                    clearedAt' \notin {"recv", "frame", "flush"}
             PROVE  Emptied'
  BY SizeNext, SlotTypes DEF SlotInv
<1>1. /\ clearedAt # "flush" /\ SizeInv /\ accepted \in Nat
  BY SlotTypes
<1>2. SendTypes
  BY <1>1 DEF SizeInv
<1>3. CASE CloseSession /\ ~closed
  BY <1>2, <1>3 DEF CloseSession, Steps, Clear, ClearedSize, Emptied, SendTypes
<1>4. CASE ForcingClose
  <2>1. net \in {"select", "send"} /\ flush.at = "idle"
    BY <1>2, <1>4 DEF ForcingClose, SendTypes
  <2> QED
    BY <1>4, <2>1 DEF ForcingClose, Clear, ClearedSize, Emptied
<1>5. CASE ~(CloseSession /\ ~closed) /\ ~ForcingClose
  <2>1. closed /\ UNCHANGED clearedAt
    BY <1>5 DEF Next, Noting, Network, Requested, Client, ClientSends, Select,
       Receive, RecvSocket, Frame, FrameEnd, CloseSession, NotWritable, Send,
       GetPacketInfo, Answer, Notify, Append_, Steps, vars, hostVars,
       receiveVars
  <2>2. ~late /\ UNCHANGED accepted
    <3>1. CASE Client \/ UNCHANGED vars
      BY <3>1 DEF Client, hostVars, vars, sendVars
    <3>2. ASSUME NEW step, late' = (late \/ (closed /\ accepted' # accepted))
          PROVE  ~late /\ UNCHANGED accepted
      BY <2>1, <3>2
    <3> QED
      BY <3>1, <3>2 DEF Next, Noting
  <2>3. Emptied
    BY <2>1, <2>2 DEF SlotInv
  <2>4. ASSUME UNCHANGED <<sendSize, dataSize, prevReadPos, net, flush>>
        PROVE  Emptied'
    BY <2>3, <2>4 DEF Emptied
  <2>5. CASE Client \/ Select \/ Receive
    BY <2>1, <2>3, <2>5 DEF Client, Select, Receive, Steps, Emptied
  <2>6. CASE CloseSession \/ NotWritable
    BY <2>1, <2>3, <2>6 DEF CloseSession, NotWritable, Steps, TooBig, Emptied,
       receiveVars, sendVars
  <2>7. CASE Send
    <3>1. CASE Steps("send", "flush") /\ SendSocket /\ UNCHANGED receiveVars
      BY <2>3, <3>1 DEF Steps, SendSocket, Emptied, receiveVars
    <3>2. CASE Steps("flush", "flush") /\ CompareSize /\ UNCHANGED receiveVars
      <4>1. /\ flush.at = "compare" /\ flush.sent = 0 /\ sendSize = 0
            /\ flush'.at = "reset" /\ flush'.sent = 0
        BY <1>2, <2>3, <3>2 DEF CompareSize, RestFrom, Emptied, SendTypes
      <4> QED
        BY <2>3, <3>2, <4>1 DEF Steps, CompareSize, Emptied, receiveVars
    <3>3. CASE MoveRest \/ LoadRest \/ SubtractSent
      BY <2>3, <3>3 DEF MoveRest, LoadRest, SubtractSent, Emptied
    <3>4. CASE Steps("flush", "select") /\ ResetSize /\ UNCHANGED receiveVars
      BY <2>3, <3>4 DEF Steps, ResetSize, NothingLeft, NotFlushing, Emptied,
         receiveVars
    <3> QED
      BY <2>7, <3>1, <3>2, <3>3, <3>4 DEF Send
  <2>8. CASE Append_
    <3>1. CASE Copy \/ LoadSize
      BY <2>4, <2>8, <3>1 DEF Append_, Copy, LoadSize, receiveVars
    <3>2. ~AddSize
      <4>1. CASE AddSize
        <5>1. accepted' = accepted + append.size /\ append.at # "idle"
          BY <4>1 DEF AddSize
        <5>2. append.size >= 1 /\ append.size \in Nat
          BY <1>1, <1>2, <5>1 DEF SlotInv, SendTypes
        <5>3. accepted' # accepted
          BY <1>1, <5>1, <5>2
        <5> QED
          BY <2>2, <5>3
      <4> QED
        BY <4>1
    <3> QED
      BY <2>8, <3>1, <3>2 DEF Append_, Appending
  <2>9. ASSUME NEW what, Sends(what), UNCHANGED receiveVars, UNCHANGED net
        PROVE  Emptied'
    <3>1. UNCHANGED <<sendSize, flush>>
      BY <2>9 DEF Sends, SendData, sendVars
    <3> QED
      BY <2>4, <2>9, <3>1 DEF receiveVars
  <2>10. CASE Answer \/ Notify
    BY <2>9, <2>10 DEF Answer, Notify
  <2>11. CASE GetPacketInfo \/ UNCHANGED vars
    BY <2>4, <2>11 DEF GetPacketInfo, vars, hostVars, sendVars, receiveVars
  <2> QED
    BY <1>5, <2>5, <2>6, <2>7, <2>8, <2>10, <2>11
       DEF Next, Noting, Network, Requested
<1> QED
  BY <1>3, <1>4, <1>5

(* A slot is left with both buffers empty, as its next connection needs it,*)
(* unless SendData has written to the closed session, or the logic thread  *)
(* has cleared it while the network thread was receiving or flushing.      *)
THEOREM SlotStaysEmpty == Spec => []SlotLeftEmpty
<1>1. SlotInv => SlotLeftEmpty
  BY DEF SlotInv, Emptied, SlotLeftEmpty, LeftAlone
<1> QED
  BY SlotInit, SlotNext, <1>1, PTL DEF Spec
-----------------------------------------------------------------------------
\* What of the front of the buffer is sent already, and where the rest lies.
Sent == IF flush.at = "idle" THEN 0 ELSE flush.sent
From == IF flush.at \in {"load", "store"} THEN 0 ELSE Sent

DataTypes ==
    /\ accepted \in Nat /\ delivered \in Nat
    /\ sendBuffer \in [Places -> Int]

\* The units not yet sent lie in the buffer in their order, at every step of
\* a flush; and while SendData runs SendSize is what it has read.
Stream ==
    /\ ~garbled
    /\ sendSize = accepted - delivered + Sent
    /\ \A p \in From .. From + sendSize - Sent - 1 :
           sendBuffer[p] = delivered + 1 + p - From
    /\ append.at # "idle" => append.pos = sendSize
    /\ append.at = "store" => append.reg = sendSize
    /\ append.at \in {"load", "store"} =>
           \A p \in append.pos .. append.pos + append.size - 1 :
               sendBuffer[p] = accepted + 1 + p - append.pos
    /\ flush.at = "store" => flush.reg = sendSize
    /\ flush.at = "reset" => flush.sent = sendSize
    /\ ~Colliding

StreamInv ==
    /\ SizesHold
    /\ ~closed => DataTypes /\ (~collided => Stream)

LEMMA StreamInit == Init => StreamInv
  BY SizeInit DEF Init, SendInit, StreamInv, DataTypes, Places, Stream, Sent,
                  From, NotAppending, NotFlushing, Colliding

\* The types of the data follow from the sizes alone.
LEMMA AppendingTypes ==
  ASSUME SizeInv, DataTypes, Appending \/ \E size \in Responses : SendData(size)
  PROVE  DataTypes'
<1>1. CASE Copy
  <2>1. append.pos \in Int /\ accepted \in Nat
    BY DEF SizeInv, SendTypes, DataTypes
  <2> QED
    BY <1>1, <2>1 DEF Copy, DataTypes, Places
<1>2. CASE LoadSize
  BY <1>2 DEF LoadSize, DataTypes
<1>3. CASE AddSize
  BY <1>3 DEF AddSize, DataTypes, SizeInv, SendTypes
<1>4. CASE \E size \in Responses : SendData(size)
  BY <1>4 DEF SendData, DataTypes
<1> QED
  BY <1>1, <1>2, <1>3, <1>4 DEF Appending

LEMMA FlushTypes ==
  ASSUME SizeInv, DataTypes, Send
  PROVE  DataTypes'
<1>1. CASE SendSocket
  BY <1>1 DEF SendSocket, DataTypes, SizeInv, SendTypes
<1>2. CASE MoveRest
  <2>1. ASSUME NEW p \in Places, p < sendSize - flush.sent
        PROVE  sendBuffer[p + flush.sent] \in Int
    BY <1>2, <2>1 DEF MoveRest, Places, DataTypes, SizeInv, SendTypes
  <2> QED
    BY <1>2, <2>1 DEF MoveRest, DataTypes
<1>3. CASE CompareSize \/ LoadRest \/ SubtractSent \/ ResetSize
  BY <1>3 DEF CompareSize, LoadRest, SubtractSent, ResetSize, DataTypes
<1> QED
  BY <1>1, <1>2, <1>3 DEF Send

LEMMA AppendingStream ==
  ASSUME SizeInv, DataTypes, Stream, Appending, ~Colliding'
  PROVE  Stream'
<1> USE DEF SizeInv, SendTypes, DataTypes, Stream, Colliding
<1>1. append.at # "idle" /\ flush.at \in {"idle", "compare"} /\ From = Sent
  BY DEF Appending, Copy, LoadSize, AddSize, Flush_at, From
<1>2. UNCHANGED flush /\ Sent' = Sent /\ From' = From
  BY DEF Appending, Copy, LoadSize, AddSize, Sent, From
<1>3. Sent \in Int /\ 0 <= Sent /\ Sent <= sendSize
  BY DEF Sent
<1>4. CASE Copy
  <2>1. \A p \in Places : sendBuffer'[p] =
            IF p \in append.pos .. append.pos + append.size - 1
            THEN accepted + 1 + p - append.pos ELSE sendBuffer[p]
    BY <1>4 DEF Copy
  <2>2. append' = [at |-> "load", pos |-> append.pos, size |-> append.size,
                   reg |-> append.reg]
    BY <1>4 DEF Copy
  <2>3. UNCHANGED <<sendSize, accepted, delivered, garbled>>
    BY <1>4 DEF Copy
  <2>4. \A p \in From .. sendSize - 1 : sendBuffer'[p] = sendBuffer[p]
    BY <1>1, <1>3, <2>1 DEF Places
  <2>5. \A p \in append.pos .. append.pos + append.size - 1 :
            sendBuffer'[p] = accepted + 1 + p - append.pos
    <3>1. /\ 0 <= append.pos /\ append.pos + append.size <= SendBufferSize
          /\ append.pos \in Int /\ append.size \in Nat
      BY <1>1, <1>3
    <3>2. \A p \in append.pos .. append.pos + append.size - 1 : p \in Places
      BY <3>1 DEF Places
    <3> QED
      BY <2>1, <3>2
  <2> QED
    BY <1>1, <1>2, <1>3, <2>2, <2>3, <2>4, <2>5
<1>5. CASE LoadSize
  <2>1. append' = [at |-> "store", pos |-> append.pos, size |-> append.size,
                   reg |-> sendSize]
    BY <1>5 DEF LoadSize
  <2> QED
    BY <1>1, <1>2, <1>3, <1>5, <2>1 DEF LoadSize
<1>6. CASE AddSize
  <2>1. /\ sendSize' = sendSize + append.size
        /\ accepted' = accepted + append.size
        /\ append'.at = "idle"
        /\ UNCHANGED <<sendBuffer, delivered, garbled>>
    BY <1>6 DEF AddSize, NotAppending
  <2>2. ASSUME NEW p \in From .. From + sendSize' - Sent - 1
        PROVE  sendBuffer[p] = delivered + 1 + p - From
    <3>1. CASE p < sendSize
      BY <1>1, <1>3, <2>1, <2>2, <3>1
    <3>2. CASE p >= sendSize
      <4>1. append.at = "store" /\ append.pos = sendSize
        BY <1>6 DEF AddSize
      <4>2. p \in append.pos .. append.pos + append.size - 1
        BY <1>1, <1>3, <2>1, <2>2, <3>2, <4>1
      <4>3. sendBuffer[p] = accepted + 1 + p - sendSize
        BY <4>1, <4>2
      <4> QED
        BY <1>1, <1>3, <2>2, <4>3
    <3> QED
      BY <1>1, <1>3, <2>1, <2>2, <3>1, <3>2
  <2> QED
    BY <1>1, <1>2, <1>3, <2>1, <2>2
<1> QED
  BY <1>4, <1>5, <1>6 DEF Appending

LEMMA SendDataStream ==
  ASSUME SizeInv, DataTypes, Stream, ~Colliding',
         NEW size \in Responses, SendData(size)
  PROVE  Stream'
<1>1. /\ UNCHANGED <<sendBuffer, sendSize, accepted, delivered, garbled, flush>>
      /\ append' = [at |-> "copy", pos |-> sendSize, size |-> size, reg |-> 0]
  BY DEF SendData
<1> QED
  BY <1>1 DEF Stream, Sent, From

LEMMA FlushStream ==
  ASSUME SizeInv, DataTypes, Stream, Send, ~Colliding'
  PROVE  Stream'
<1> USE DEF SizeInv, SendTypes, DataTypes, Stream
<1>1. CASE Steps("send", "flush") /\ SendSocket
  <2>1. flush.at = "idle" /\ Sent = 0 /\ From = 0
    BY <1>1 DEF SendSocket, Sent, From
  <2>2. PICK n \in 0 .. sendSize :
          /\ garbled' = (garbled \/ ~\A p \in 0 .. n - 1 :
                                        sendBuffer[p] = delivered + 1 + p)
          /\ delivered' = IF garbled' THEN delivered ELSE delivered + n
          /\ flush' = [at |-> "compare", sent |-> n, reg |-> 0]
    BY <1>1 DEF SendSocket
  <2>3. ~garbled' /\ delivered' = delivered + n
    <3>1. \A p \in 0 .. n - 1 : sendBuffer[p] = delivered + 1 + p
      BY <2>1
    <3>2. ~garbled'
      BY <2>2, <3>1, Zenon
    <3> QED
      BY <2>2, <3>2, Zenon
  <2>4. Sent' = n /\ From' = n
    BY <2>2 DEF Sent, From
  <2>5. UNCHANGED <<sendBuffer, sendSize, accepted, append>>
    BY <1>1 DEF SendSocket
  <2> QED
    BY <2>1, <2>2, <2>3, <2>4, <2>5
<1>2. CASE Steps("flush", "flush") /\ CompareSize
  <2>1. /\ flush.at = "compare" /\ flush'.sent = flush.sent
        /\ flush'.at = IF flush.sent < sendSize THEN "move" ELSE "reset"
        /\ UNCHANGED <<sendBuffer, sendSize, accepted, delivered, garbled, append>>
    BY <1>2 DEF CompareSize, RestFrom
  <2>2. Sent' = Sent /\ From' = From /\ Sent = flush.sent
    BY <2>1 DEF Sent, From
  <2> QED
    BY <2>1, <2>2
<1>3. CASE Steps("flush", "flush") /\ MoveRest
  <2>1. /\ flush.at = "move" /\ flush'.at = "load" /\ flush'.sent = flush.sent
        /\ UNCHANGED <<sendSize, accepted, delivered, garbled, append>>
    BY <1>3 DEF MoveRest
  <2>2. Sent' = Sent /\ From' = 0 /\ Sent = flush.sent /\ From = flush.sent
    BY <2>1 DEF Sent, From
  <2>3. ASSUME NEW p \in 0 .. sendSize - flush.sent - 1
        PROVE  sendBuffer'[p] = delivered + 1 + p
    <3>1. p \in Places /\ sendBuffer'[p] = sendBuffer[p + flush.sent]
      BY <1>3, <2>1 DEF MoveRest, Places
    <3>2. p + flush.sent \in From .. From + sendSize - Sent - 1
      BY <2>1, <2>2
    <3> QED
      BY <2>1, <2>2, <3>1, <3>2
  <2>4. append.at = "idle"
    BY <2>1 DEF Colliding
  <2> QED
    BY <2>1, <2>2, <2>3, <2>4
<1>4. CASE Steps("flush", "flush") /\ LoadRest
  <2>1. /\ flush.at = "load"
        /\ flush' = [at |-> "store", sent |-> flush.sent, reg |-> sendSize]
        /\ UNCHANGED <<sendBuffer, sendSize, accepted, delivered, garbled, append>>
    BY <1>4 DEF LoadRest
  <2>2. Sent' = Sent /\ From' = From
    BY <2>1 DEF Sent, From
  <2> QED
    BY <2>1, <2>2
<1>5. CASE Steps("flush", "select") /\ SubtractSent
  <2>1. /\ flush.at = "store" /\ flush'.at = "idle"
        /\ sendSize' = sendSize - flush.sent
        /\ UNCHANGED <<sendBuffer, accepted, delivered, garbled, append>>
    BY <1>5 DEF SubtractSent, NotFlushing
  <2>2. Sent' = 0 /\ From' = 0 /\ Sent = flush.sent /\ From = 0
    BY <2>1 DEF Sent, From
  <2>3. append.at = "idle"
    BY <2>1 DEF Colliding
  <2> QED
    BY <2>1, <2>2, <2>3
<1>6. CASE Steps("flush", "select") /\ ResetSize
  <2>1. /\ flush.at = "reset" /\ flush'.at = "idle" /\ sendSize' = 0
        /\ UNCHANGED <<sendBuffer, accepted, delivered, garbled, append>>
    BY <1>6 DEF ResetSize, NotFlushing, NothingLeft
  <2>2. Sent' = 0 /\ From' = 0 /\ Sent = sendSize
    BY <2>1 DEF Sent, From
  <2>3. append.at = "idle"
    BY <2>1 DEF Colliding
  <2> QED
    BY <2>1, <2>2, <2>3
<1> QED
  BY <1>1, <1>2, <1>3, <1>4, <1>5, <1>6 DEF Send

LEMMA StreamNext == StreamInv /\ [Next]_vars => StreamInv'
<1> SUFFICES ASSUME StreamInv, [Next]_vars, ~closed'
             PROVE  DataTypes' /\ (~collided' => Stream')
  BY SizeNext DEF StreamInv
<1>1. SizeInv /\ DataTypes /\ (~collided => Stream)
  BY StaysOpen DEF StreamInv, SizesHold
<1>2. ASSUME UNCHANGED sendVars, collided => collided'
      PROVE  DataTypes' /\ (~collided' => Stream')
  BY <1>1, <1>2 DEF DataTypes, Stream, Sent, From, Colliding, sendVars
<1>3. CASE Client
  BY <1>2, <1>3 DEF Client, hostVars
<1>4. CASE Noting(Select \/ Receive \/ NotWritable \/ GetPacketInfo)
  BY <1>2, <1>4 DEF Noting, Select, Receive, NotWritable, GetPacketInfo
<1>5. CASE Noting(Send)
  BY <1>1, <1>5, FlushTypes, FlushStream DEF Noting
<1>6. ASSUME NEW what, Sends(what), collided' = (collided \/ Colliding')
      PROVE  DataTypes' /\ (~collided' => Stream')
  <2>1. CASE UNCHANGED sendVars
    BY <1>2, <1>6, <2>1
  <2>2. CASE \E size \in Responses : SendData(size)
    BY <1>1, <1>6, <2>2, AppendingTypes, SendDataStream
  <2> QED
    BY <1>6, <2>1, <2>2 DEF Sends
<1>7. CASE Noting(Answer) \/ Noting(Notify)
  BY <1>6, <1>7 DEF Noting, Answer, Notify
<1>8. CASE Noting(Append_)
  BY <1>1, <1>8, AppendingTypes, AppendingStream DEF Noting, Append_
<1>9. CASE UNCHANGED vars
  BY <1>2, <1>9 DEF vars, hostVars
<1> QED
  BY <1>3, <1>4, <1>5, <1>7, <1>8, <1>9, StaysOpen
     DEF Next, Noting, Network, Requested

(* What SendData has accepted reaches the client in order, nothing lost and*)
(* nothing twice, however send cuts it and however the threads take turns, *)
(* until SendData runs into the part of flushSendBuff after its send.      *)
THEOREM StreamStaysIntact == Spec => []StreamIntact
<1>1. StreamInv => StreamIntact
  BY DEF StreamInv, SizesHold, SizeInv, SendTypes, DataTypes, Stream,
         StreamIntact, Sent, From
<1> QED
  BY StreamInit, StreamNext, <1>1, PTL DEF Spec
-----------------------------------------------------------------------------
(* The receive side of a session that is open and whose sizes are not      *)
(* negative.                                                               *)
Queueable == [packet : Nat, size : Nat, at : Nat]

ReceiveTypes ==
    /\ body \in Seq(Nat) /\ start \in Seq(Nat)
    /\ received \in Nat /\ dataSize \in Nat
    /\ prevReadPos \in Nat /\ readPos \in Nat /\ framing \in Nat
    /\ recvBuffer \in Seq(Nat)
    /\ packets \in Seq(Queueable) /\ handling \in Seq(Queueable)
    /\ Len(handling) <= 1 /\ handled \in Nat

\* The client's packets follow one another.
Starts ==
    /\ Len(start) = Len(body) + 1 /\ start[1] = 1
    /\ \A k \in 1 .. Len(body) : start[k + 1] = start[k] + HeaderSize + body[k]
    /\ \A j, k \in 1 .. Len(start) : j < k => start[j] < start[k]

\* The packet queued as the n-th.
IsNth(p, n) == p.packet = n /\ p.size = body[n]

Queue ==
    /\ Framed <= Len(body)
    /\ handling # <<>> => IsNth(handling[1], handled + 1)
    /\ \A i \in 1 .. Len(packets) :
           IsNth(packets[i], handled + Len(handling) + i)

\* Where the units received and not yet framed lie.
Lies(pos) ==
    /\ pos + dataSize <= Len(recvBuffer)
    /\ \A i \in 1 .. dataSize :
           recvBuffer[pos + i] = received - dataSize + i

\* recvBufferProcess is at the start of the packet it will queue next, and
\* what it leaves over is less than that packet.
Reading ==
    /\ received < start[Len(body) + 1]
    /\ received - dataSize + readPos + 1 = start[Framed + 1]
    /\ readPos <= dataSize
    /\ IF net = "frame" THEN Lies(0) /\ framing = dataSize ELSE Lies(prevReadPos)
    /\ net # "frame" =>
           /\ readPos = 0
           /\ dataSize > 0 => dataSize < HeaderSize + body[Framed + 1]

ReceiveInv == ReceiveTypes /\ Starts /\ Queue /\ Reading

\* A client that waits has one packet under way; recv has nothing to take
\* while that packet is pending.
LockInv ==
    lockStep =>
        /\ Len(body) <= handled + 1
        /\ handling # <<>> => Intact(handling[1])
        /\ \A i \in 1 .. Len(packets) : Intact(packets[i])

\* Without notifications the send buffer is empty again before the client's
\* next packet is queued; and what SendData appends lies alone in it, so that
\* a flush beside it has nothing to send.
Appended == IF append.at = "idle" THEN 0 ELSE append.size

Quiet ==
    /\ dropped = {}
    /\ answerEnd = accepted + Appended
    /\ sendSize - Sent <= accepted - delivered
    /\ append.at # "idle" => append.pos = 0 /\ Sent = 0 /\ handled = Len(body)
    /\ handled < Len(body) => sendSize = Sent
    /\ handled < Framed => sendSize = 0

QuietInv == lockStep /\ notified = 0 => Quiet

\* All of it while the session is orderly.
OrderlyInv ==
    /\ body \in Seq(Int)
    /\ notified \in Nat
    /\ Orderly => ReceiveInv /\ LockInv /\ QuietInv

LEMMA SizesTyped ==
  /\ HeaderSize \in Nat \ {0} /\ MaxBody \in Nat \ {0}
  /\ Bodies \subseteq Int /\ MaxRequests \in Nat
BY ReceiveBufferAssumption

USE SizesTyped
-----------------------------------------------------------------------------
\* memcpy and recv write the front of the buffer and nothing else.
LEMMA OverwrittenFacts ==
  ASSUME recvBuffer \in Seq(Nat), NEW front \in Seq(Nat)
  PROVE  /\ Overwritten(front) \in Seq(Nat)
         /\ Len(front) <= Len(Overwritten(front))
         /\ \A i \in 1 .. Len(front) : Overwritten(front)[i] = front[i]
<1> DEFINE m == Len(front) + 1
           n == Len(recvBuffer)
           rest == SubSeq(recvBuffer, m, n)
<1>1. m \in Nat \ {0} /\ n \in Nat
  OBVIOUS
<1>2. \A i \in m .. n : recvBuffer[i] \in Nat
  BY <1>1
<1> HIDE DEF m, n
<1>3. rest \in Seq(Nat)
  BY <1>1, <1>2, SubSeqProperties
<1>4. Overwritten(front) = front \o rest
  BY DEF Overwritten, m, n
<1> HIDE DEF rest
<1> QED
  BY <1>3, <1>4, ConcatProperties

LEMMA LeftOverFacts ==
  ASSUME recvBuffer \in Seq(Nat), prevReadPos \in Nat, dataSize \in Nat,
         prevReadPos + dataSize <= Len(recvBuffer)
  PROVE  /\ LeftOver \in Seq(Nat) /\ Len(LeftOver) = dataSize
         /\ \A i \in 1 .. dataSize : LeftOver[i] = recvBuffer[prevReadPos + i]
<1> DEFINE rest(i) == Place(prevReadPos + i)
<1>1. ASSUME NEW i \in 1 .. dataSize
      PROVE  rest(i) = recvBuffer[prevReadPos + i] /\ rest(i) \in Nat
  <2>1. prevReadPos + i \in DOMAIN recvBuffer
    OBVIOUS
  <2> QED
    BY <2>1 DEF Place
<1>2. LeftOver = [i \in 1 .. dataSize |-> rest(i)]
  BY DEF LeftOver
<1> HIDE DEF rest
<1>3. /\ LeftOver \in [1 .. dataSize -> Nat]
      /\ \A i \in 1 .. dataSize : LeftOver[i] = rest(i)
  BY <1>1, <1>2
<1>4. LeftOver \in Seq(Nat) /\ Len(LeftOver) = dataSize
  BY <1>3
<1> QED
  BY <1>1, <1>3, <1>4

\* What recvBufferProcess takes for a header is the header of the next packet.
LEMMA HeaderFacts ==
  ASSUME ReceiveInv, net = "frame", HasHeader
  PROVE  Framed + 1 \in DOMAIN body /\ HeaderAt(readPos) = Framed + 1
<1> DEFINE k == Framed + 1
<1>1. /\ ReceiveTypes /\ Starts /\ Queue /\ Reading /\ Lies(0)
      /\ HeaderSize \in Nat \ {0} /\ framing = dataSize
  BY DEF ReceiveInv, Reading
<1>2. /\ Framed \in Nat /\ Len(body) \in Nat
      /\ DOMAIN body = 1 .. Len(body)
  BY <1>1 DEF ReceiveTypes, Framed
<1>3. readPos + 1 \in 1 .. dataSize
  BY <1>1 DEF HasHeader, ReceiveTypes
<1>4. Place(readPos + 1) = start[k]
  <2>1. recvBuffer[readPos + 1] = start[k]
    BY <1>1, <1>3 DEF Lies, Reading, ReceiveTypes
  <2>2. readPos + 1 \in DOMAIN recvBuffer
    BY <1>1, <1>3 DEF Lies, ReceiveTypes
  <2> QED
    BY <2>1, <2>2 DEF Place
<1>5. k \in DOMAIN body
  <2>1. Framed <= Len(body)
    BY <1>1 DEF Queue
  <2>2. start[k] <= received /\ received < start[Len(body) + 1]
    BY <1>1, <1>3 DEF Reading, ReceiveTypes
  <2>3. Framed # Len(body)
    <3>1. ASSUME Framed = Len(body) PROVE FALSE
      <4>1. start[k] <= received /\ received < start[k]
        BY <2>2, <3>1
      <4>2. start[k] \in Int /\ received \in Int
        BY <1>1 DEF Reading, ReceiveTypes
      <4> HIDE DEF k
      <4> QED
        BY <4>1, <4>2
    <3> QED
      BY <3>1
  <2>4. Framed < Len(body)
    <3> DEFINE n == Len(body)
    <3>1. Framed \in Nat /\ n \in Nat /\ Framed <= n /\ Framed # n
      BY <1>2, <2>1, <2>3
    <3> HIDE DEF n
    <3>2. Framed < n
      BY <3>1
    <3> QED
      BY <3>2 DEF n
  <2>5. Framed + 1 \in 1 .. Len(body)
    BY <1>2, <2>4
  <2> QED
    BY <1>2, <2>5
<1> HIDE DEF k
<1>6. ASSUME NEW j \in DOMAIN body, start[j] = start[k]
      PROVE  j = k
  <2>1. j \in 1 .. Len(start) /\ k \in 1 .. Len(start)
    BY <1>1, <1>2, <1>5, <1>6 DEF Starts
  <2>2. start[j] \in Nat /\ start[k] \in Nat
    BY <1>1, <2>1 DEF ReceiveTypes
  <2>3. ~(j < k) /\ ~(k < j)
    BY <1>1, <1>6, <2>1, <2>2 DEF Starts
  <2> QED
    BY <1>2, <1>5, <2>1, <2>3
<1> QED
  BY <1>4, <1>5, <1>6 DEF HeaderAt, k

-----------------------------------------------------------------------------
LEMMA ReceiveInvInit == Init => ReceiveInv /\ LockInv
<1> SUFFICES ASSUME Init PROVE ReceiveInv /\ LockInv
  OBVIOUS
<1> USE DEF Init, ReceiveInit
<1>1. ReceiveTypes /\ Starts /\ Framed = 0
  BY DEF ReceiveTypes, Starts, Framed
<1>2. Queue
  BY <1>1 DEF Queue
<1>3. Lies(prevReadPos)
  BY DEF Lies
<1>4. Reading
  BY <1>1, <1>3 DEF Reading
<1> QED
  BY <1>1, <1>2, <1>4 DEF ReceiveInv, LockInv

\* A step that leaves the stream and the queue, and is in recvBufferProcess
\* neither before it nor after it.
LEMMA StillReceive ==
  ASSUME ReceiveInv,
         UNCHANGED <<receiveVars, handling, handled>>,
         net' = "frame" <=> net = "frame"
  PROVE  ReceiveInv'
<1>1. UNCHANGED <<body, start, received, recvBuffer, dataSize, prevReadPos,
                  readPos, framing, packets, closed, handling, handled>>
  BY DEF receiveVars
<1>2. Framed' = Framed
  BY <1>1 DEF Framed
<1>3. ReceiveTypes' /\ Starts'
  BY <1>1 DEF ReceiveInv, ReceiveTypes, Starts
<1>4. Queue'
  BY <1>1, <1>2 DEF ReceiveInv, Queue, IsNth
<1>5. /\ Lies(0)' <=> Lies(0)
      /\ Lies(prevReadPos)' <=> Lies(prevReadPos)
  BY <1>1 DEF Lies
<1>6. Reading'
  BY <1>1, <1>2, <1>5 DEF ReceiveInv, Reading
<1> QED
  BY <1>1, <1>3, <1>4, <1>6 DEF ReceiveInv

\* The client appends to what it has sent.
LEMMA ClientReceive ==
  ASSUME ReceiveInv, Client, WellFormed'
  PROVE  ReceiveInv'
<1> DEFINE n == Len(body)
<1>2. /\ UNCHANGED <<received, recvBuffer, dataSize, prevReadPos, readPos,
                     framing, packets, closed, handling, handled, net>>
      /\ ~closed
  BY DEF Client, ClientSends, hostVars
<1>3. ReceiveTypes /\ Starts /\ Queue /\ Reading
  BY DEF ReceiveInv
<1>1. PICK b \in Nat :
          /\ body' = Append(body, b)
          /\ start' = Append(start, Last(start) + HeaderSize + b)
  <2>1. PICK b \in Bodies :
            /\ body' = Append(body, b)
            /\ start' = Append(start, Last(start) + HeaderSize + Units(b))
    BY DEF Client, ClientSends
  <2>2. b \in Int /\ body \in Seq(Int)
    BY <1>3 DEF ReceiveTypes
  <2>3. n + 1 \in DOMAIN body' /\ body'[n + 1] = b
    BY <2>1, <2>2, AppendProperties
  <2>4. b \in Nat /\ Units(b) = b
    BY <2>2, <2>3 DEF WellFormed, Units
  <2> QED
    BY <2>1, <2>4
<1>4. /\ n \in Nat /\ Len(start) = n + 1 /\ Last(start) = start[n + 1]
      /\ b \in Nat /\ HeaderSize \in Nat \ {0} /\ start[n + 1] \in Nat
      /\ body \in Seq(Nat) /\ start \in Seq(Nat) /\ Len(body) = n
  BY <1>3 DEF ReceiveTypes, Starts, Last
<1>5. /\ body' \in Seq(Nat) /\ Len(body') = n + 1 /\ body'[n + 1] = b
      /\ \A k \in 1 .. n : body'[k] = body[k]
  BY <1>1, <1>4, AppendProperties
<1>6. /\ start' \in Seq(Nat) /\ Len(start') = n + 2
      /\ start'[n + 2] = start[n + 1] + HeaderSize + b
      /\ \A k \in 1 .. n + 1 : start'[k] = start[k]
  BY <1>1, <1>4, AppendProperties
<1>7. Framed' = Framed /\ Framed \in Nat /\ Framed <= n
  BY <1>2, <1>3 DEF Framed, Queue, ReceiveTypes
<1>8. ReceiveTypes'
  BY <1>2, <1>3, <1>5, <1>6 DEF ReceiveTypes
<1>9. Starts'
  <2>1. Len(start') = Len(body') + 1 /\ start'[1] = 1
    BY <1>3, <1>4, <1>5, <1>6 DEF Starts
  <2>2. ASSUME NEW k \in 1 .. n + 1
        PROVE  start'[k + 1] = start'[k] + HeaderSize + body'[k]
    <3>1. CASE k = n + 1
      <4>1. k + 1 = n + 2 /\ k \in 1 .. n + 1
        BY <1>4, <3>1
      <4>2. /\ start'[k + 1] = start[n + 1] + HeaderSize + b
            /\ start'[k] = start[n + 1] /\ body'[k] = b
        BY <1>5, <1>6, <3>1, <4>1
      <4> QED
        BY <4>2
    <3>2. CASE k \in 1 .. n
      <4>1. start[k + 1] = start[k] + HeaderSize + body[k]
        BY <1>3, <3>2 DEF Starts
      <4>2. k \in 1 .. n + 1 /\ k + 1 \in 1 .. n + 1
        BY <1>4, <3>2
      <4> QED
        BY <1>5, <1>6, <3>2, <4>1, <4>2
    <3> QED
      BY <1>4, <3>1, <3>2
  <2>3. ASSUME NEW j \in 1 .. n + 2, NEW k \in 1 .. n + 2, j < k
        PROVE  start'[j] < start'[k]
    <3>1. CASE k \in 1 .. n + 1
      <4>1. j \in 1 .. n + 1
        BY <1>4, <2>3, <3>1
      <4>2. start[j] < start[k]
        BY <1>3, <1>4, <2>3, <3>1, <4>1 DEF Starts
      <4> QED
        BY <1>6, <3>1, <4>1, <4>2
    <3>2. CASE k = n + 2
      <4>1. j \in 1 .. n + 1 /\ n + 1 \in 1 .. n + 1
        BY <1>4, <2>3, <3>2
      <4>2. start[j] \in Nat /\ (j = n + 1 \/ start[j] < start[n + 1])
        BY <1>3, <1>4, <4>1 DEF Starts
      <4>3. start[j] < start[n + 1] + HeaderSize + b
        BY <1>4, <4>2
      <4> QED
        BY <1>6, <3>2, <4>1, <4>3
    <3> QED
      BY <1>4, <3>1, <3>2
  <2> QED
    BY <1>4, <1>5, <1>6, <2>1, <2>2, <2>3 DEF Starts
<1>10. Queue'
  <2>1. \A p, k : k \in 1 .. n /\ IsNth(p, k) => IsNth(p, k)'
    BY <1>5 DEF IsNth
  <2>2. handling # <<>> => handled + 1 \in 1 .. n
    BY <1>3, <1>7 DEF ReceiveTypes, Framed
  <2>3. \A i \in 1 .. Len(packets) : handled + Len(handling) + i \in 1 .. n
    BY <1>3, <1>7 DEF ReceiveTypes, Framed
  <2>4. (handling # <<>> => IsNth(handling[1], handled + 1))'
    BY <1>2, <1>3, <2>1, <2>2 DEF Queue
  <2>5. \A i \in 1 .. Len(packets') :
            IsNth(packets[i], handled + Len(handling) + i)'
    BY <1>2, <1>3, <2>1, <2>3 DEF Queue
  <2>6. Framed' <= Len(body')
    <3> HIDE DEF Framed
    <3> QED
      BY <1>4, <1>5, <1>7
  <2> QED
    BY <2>4, <2>5, <2>6 DEF Queue
<1>11. Reading'
  <2>1. received < start'[Len(body') + 1]
    <3>1. received < start[n + 1] /\ received \in Nat
      BY <1>3, <1>4 DEF Reading, ReceiveTypes
    <3>2. received < start[n + 1] + HeaderSize + b
      BY <1>4, <3>1
    <3>3. Len(body') + 1 = n + 2
      BY <1>4, <1>5
    <3> QED
      BY <1>6, <3>2, <3>3
  <2>2. start'[Framed + 1] = start[Framed + 1]
    BY <1>4, <1>6, <1>7
  <2>3. dataSize > 0 /\ net # "frame" => Framed + 1 \in 1 .. n
    <3>1. Framed = n /\ readPos = 0 => dataSize = 0
      BY <1>3, <1>4 DEF Reading, ReceiveTypes
    <3> QED
      BY <1>3, <1>4, <1>7, <3>1 DEF Reading, ReceiveTypes
  <2>4. (Lies(0)' <=> Lies(0)) /\ (Lies(prevReadPos)' <=> Lies(prevReadPos))
    BY <1>2 DEF Lies
  <2> QED
    BY <1>2, <1>3, <1>5, <1>7, <2>1, <2>2, <2>3, <2>4 DEF Reading
<1> QED
  BY <1>2, <1>8, <1>9, <1>10, <1>11 DEF ReceiveInv

\* recv adds to what was left over, which now lies at the front.
LEMMA RecvSocketReceive ==
  ASSUME ReceiveInv, RecvSocket, net = "recv", net' = "frame",
         UNCHANGED <<handling, handled>>
  PROVE  ReceiveInv'
<1>1. PICK n \in 1 .. 2 * MaxBody :
          /\ received + n <= SentUnits
          /\ recvBuffer' = Overwritten(LeftOver \o
                                       [i \in 1 .. n |-> received + i])
          /\ received' = received + n
          /\ dataSize' = dataSize + n
  BY DEF RecvSocket
<1>2. /\ UNCHANGED <<body, start, prevReadPos, packets>>
      /\ readPos' = 0 /\ framing' = dataSize'
  BY DEF RecvSocket
<1>3. ReceiveTypes /\ Starts /\ Queue /\ Reading /\ Lies(prevReadPos)
  BY DEF ReceiveInv, Reading
<1>4. n \in Nat
  OBVIOUS
<1> DEFINE new   == [i \in 1 .. n |-> received + i]
           front == LeftOver \o new
<1>5. new \in Seq(Nat) /\ Len(new) = n /\ \A i \in 1 .. n : new[i] = received + i
  BY <1>3, <1>4 DEF ReceiveTypes
<1>6. /\ LeftOver \in Seq(Nat) /\ Len(LeftOver) = dataSize
      /\ \A i \in 1 .. dataSize : LeftOver[i] = received - dataSize + i
  <2>1. /\ LeftOver \in Seq(Nat) /\ Len(LeftOver) = dataSize
        /\ \A i \in 1 .. dataSize : LeftOver[i] = recvBuffer[prevReadPos + i]
    BY <1>3, LeftOverFacts DEF ReceiveTypes, Lies
  <2> QED
    BY <1>3, <2>1 DEF Lies
<1> HIDE DEF new
<1>7. front \in Seq(Nat) /\ Len(front) = dataSize + n
  BY <1>5, <1>6, ConcatProperties
<1>8. ASSUME NEW i \in 1 .. dataSize + n
      PROVE  front[i] = received - dataSize + i
  <2>1. front[i] = IF i <= dataSize THEN LeftOver[i] ELSE new[i - dataSize]
    BY <1>5, <1>6, <1>8, ConcatProperties
  <2>2. CASE i <= dataSize
    BY <1>3, <1>4, <1>6, <2>1, <2>2 DEF ReceiveTypes
  <2>3. CASE ~(i <= dataSize)
    <3>1. i - dataSize \in 1 .. n
      BY <1>3, <1>4, <1>8, <2>3 DEF ReceiveTypes
    <3> QED
      BY <1>3, <1>4, <1>5, <2>1, <2>3, <3>1 DEF ReceiveTypes
  <2> QED
    BY <2>2, <2>3
<1>9. recvBuffer' = Overwritten(front)
  BY <1>1 DEF new
<1> HIDE DEF front
<1>10. /\ recvBuffer' \in Seq(Nat)
       /\ dataSize + n <= Len(recvBuffer')
       /\ \A i \in 1 .. dataSize + n : recvBuffer'[i] = received - dataSize + i
  BY <1>3, <1>7, <1>8, <1>9, OverwrittenFacts DEF ReceiveTypes
<1>11. Framed' = Framed
  BY <1>2 DEF Framed
<1>12. ReceiveTypes' /\ Starts'
  BY <1>1, <1>2, <1>3, <1>4, <1>10 DEF ReceiveTypes, Starts
<1>13. Queue'
  BY <1>2, <1>3, <1>11 DEF Queue, IsNth
<1>14. Lies(0)'
  <2>1. received' - dataSize' = received - dataSize
    BY <1>1, <1>3, <1>4 DEF ReceiveTypes
  <2> QED
    BY <1>1, <1>3, <1>4, <1>10, <2>1 DEF Lies, ReceiveTypes
<1>15. Reading'
  <2>1. /\ received' < start[Len(body) + 1]
        /\ received' - dataSize' = received - dataSize
        /\ dataSize' >= 0 /\ readPos = 0
    <3>1. SentUnits = start[Len(body) + 1] - 1 /\ start[Len(body) + 1] \in Nat
      BY <1>3 DEF SentUnits, Last, Starts, ReceiveTypes
    <3> QED
      BY <1>1, <1>3, <1>4, <3>1 DEF ReceiveTypes, Reading
  <2> QED
    BY <1>2, <1>3, <1>11, <1>14, <2>1 DEF Reading
<1> QED
  BY <1>2, <1>12, <1>13, <1>15 DEF ReceiveInv

\* A packet is queued: the next one, and its body is where it says.
LEMMA FrameReceive ==
  ASSUME ReceiveInv, Frame, net = "frame", net' = "frame",
         UNCHANGED <<handling, handled>>
  PROVE  /\ ReceiveInv'
         /\ \E p \in Queueable :
                /\ packets' = Append(packets, p)
                /\ IsNth(p, Framed + 1) /\ Intact(p)'
<1> DEFINE k == Framed + 1
<1>1. /\ ReceiveTypes /\ Starts /\ Queue /\ Reading /\ Lies(0)
      /\ HeaderSize \in Nat /\ framing = dataSize
  BY DEF ReceiveInv, Reading
<1>2. k \in DOMAIN body /\ HeaderAt(readPos) = k
  BY <1>1, HeaderFacts DEF Frame
<1>3. /\ HasHeader /\ HasBody(body[k]) /\ body[k] <= MaxBody
      /\ packets' = Append(packets, [packet |-> k, size |-> body[k],
                                     at |-> BodyPos])
      /\ readPos' = readPos + HeaderSize + body[k]
      /\ UNCHANGED <<body, start, received, recvBuffer, dataSize, prevReadPos,
                     framing>>
  <2>1. Framed \in Nat
    BY <1>1 DEF ReceiveTypes, Framed
  <2>2. Announced(HeaderAt(readPos)) = {body[k]}
    BY <1>2, <2>1 DEF Announced
  <2> QED
    BY <1>2, <2>2 DEF Frame
<1>4. /\ Framed \in Nat /\ k \in Nat /\ k \in 1 .. Len(body)
      /\ body[k] \in Nat /\ readPos \in Nat /\ dataSize \in Nat
      /\ received \in Nat
  BY <1>1, <1>2 DEF ReceiveTypes, Framed
<1>5. PICK p \in Queueable :
          /\ p.packet = k /\ p.size = body[k] /\ p.at = BodyPos
          /\ packets' = Append(packets, p)
  <2>1. [packet |-> k, size |-> body[k], at |-> BodyPos] \in Queueable
    BY <1>1, <1>4 DEF Queueable, BodyPos
  <2> QED
    BY <1>3, <2>1
<1>6. /\ packets' \in Seq(Queueable) /\ Len(packets') = Len(packets) + 1
      /\ packets'[Len(packets) + 1] = p
      /\ \A i \in 1 .. Len(packets) : packets'[i] = packets[i]
  BY <1>1, <1>5, AppendProperties DEF ReceiveTypes
<1>7. IsNth(p, k)
  BY <1>5 DEF IsNth
<1>8. Framed' = k
  BY <1>1, <1>6 DEF Framed, ReceiveTypes
<1>9. start[k + 1] = start[k] + HeaderSize + body[k] /\ start[k] \in Nat
  <2>1. \A j \in 1 .. Len(body) : start[j + 1] = start[j] + HeaderSize + body[j]
    BY <1>1 DEF Starts
  <2>2. k \in 1 .. Len(start) /\ start \in Seq(Nat)
    BY <1>1, <1>4 DEF Starts, ReceiveTypes
  <2> HIDE DEF k
  <2> QED
    BY <1>4, <2>1, <2>2
<1>10. start[k] = received - dataSize + readPos + 1
  BY <1>1 DEF Reading
<1>11. Intact(p)'
  <2> DEFINE m == BodyPos + 1
             n == BodyPos + body[k]
  <2>1. /\ m \in Int /\ n \in Int /\ n - m + 1 = body[k]
        /\ BodyPos = readPos + HeaderSize
        /\ BodyPos \in Nat /\ n <= dataSize /\ dataSize <= Len(recvBuffer)
    <3>1. BodyPos = readPos + HeaderSize /\ body[k] <= dataSize - readPos - HeaderSize
      <4> HIDE DEF k
      <4> QED
        BY <1>1, <1>3, <1>4 DEF BodyPos, HasBody, Unread, HasHeader
    <3>2. dataSize <= Len(recvBuffer)
      BY <1>1, <1>4 DEF Lies, ReceiveTypes
    <3> HIDE DEF k
    <3> QED
      BY <1>1, <1>4, <3>1, <3>2
  <2>2. \A i \in m .. n : recvBuffer[i] \in Nat
    <3>1. \A i \in m .. n : i \in 1 .. Len(recvBuffer)
      BY <1>1, <2>1 DEF ReceiveTypes
    <3> QED
      BY <1>1, <3>1 DEF ReceiveTypes
  <2>3. \A i \in 1 .. body[k] :
            /\ m + i - 1 \in 1 .. dataSize
            /\ recvBuffer[m + i - 1] = start[k] + HeaderSize + i - 1
    <3> SUFFICES ASSUME NEW i \in 1 .. body[k]
                 PROVE  /\ m + i - 1 \in 1 .. dataSize
                        /\ recvBuffer[m + i - 1] = start[k] + HeaderSize + i - 1
      OBVIOUS
    <3>1. m + i - 1 \in 1 .. dataSize
      BY <1>4, <2>1
    <3>2. m + i - 1 = readPos + HeaderSize + i
      BY <1>4, <2>1
    <3>3. recvBuffer[m + i - 1] = received - dataSize + (m + i - 1)
      BY <1>1, <1>4, <3>1 DEF Lies
    <3> QED
      BY <1>1, <1>4, <1>10, <3>1, <3>2, <3>3
  <2> HIDE DEF m, n
  <2>4. /\ SubSeq(recvBuffer, m, n) \in Seq(Nat)
        /\ Len(SubSeq(recvBuffer, m, n)) = IF m <= n THEN n - m + 1 ELSE 0
        /\ \A i \in 1 .. n - m + 1 :
               SubSeq(recvBuffer, m, n)[i] = recvBuffer[m + i - 1]
    BY <2>1, <2>2, SubSeqProperties
  <2>5. /\ DOMAIN SubSeq(recvBuffer, m, n) = 1 .. body[k]
        /\ SubSeq(recvBuffer, m, n) =
               [i \in 1 .. body[k] |-> SubSeq(recvBuffer, m, n)[i]]
    BY <1>4, <2>1, <2>4
  <2>6. SubSeq(recvBuffer, m, n)
            = [i \in 1 .. body[k] |-> start[k] + HeaderSize + i - 1]
    BY <2>1, <2>3, <2>4, <2>5
  <2>7. /\ Intact(p)' <=> SubSeq(recvBuffer, p.at + 1, p.at + p.size)
              = [i \in 1 .. p.size |-> start[p.packet] + HeaderSize + i - 1]
    BY <1>3 DEF Intact
  <2> QED
    BY <1>5, <2>6, <2>7 DEF m, n
<1>12. ReceiveTypes' /\ Starts'
  <2>1. readPos' \in Nat
    <3> HIDE DEF k
    <3> QED
      BY <1>1, <1>3, <1>4
  <2> QED
    BY <1>1, <1>3, <1>6, <2>1 DEF ReceiveTypes, Starts
<1>13. Queue'
  <2>0. k = handled + Len(handling) + (Len(packets) + 1)
    BY <1>1 DEF ReceiveTypes, Framed
  <2>1. ASSUME NEW i \in 1 .. Len(packets')
        PROVE  IsNth(packets'[i], handled + Len(handling) + i)
    <3>1. CASE i \in 1 .. Len(packets)
      BY <1>1, <1>6, <3>1 DEF Queue
    <3>2. CASE i = Len(packets) + 1
      BY <1>6, <1>7, <2>0, <3>2
    <3> QED
      BY <1>1, <1>6, <3>1, <3>2 DEF ReceiveTypes
  <2>2. k <= Len(body)
    BY <1>1, <1>4 DEF ReceiveTypes
  <2>3. handling # <<>> => IsNth(handling[1], handled + 1)
    BY <1>1 DEF Queue
  <2> HIDE DEF k
  <2> QED
    BY <1>3, <1>8, <2>1, <2>2, <2>3 DEF Queue, IsNth
<1>14. Reading'
  <2>1. Lies(0)'
    BY <1>1, <1>3 DEF Lies
  <2>2. /\ readPos' <= dataSize
        /\ received - dataSize + readPos' + 1 = start[k + 1]
    <3>1. HeaderSize + body[k] <= dataSize - readPos
      <4> HIDE DEF k
      <4> QED
        BY <1>1, <1>3, <1>4 DEF HasBody, Unread, HasHeader
    <3> HIDE DEF k
    <3> QED
      BY <1>1, <1>3, <1>4, <1>9, <1>10, <3>1
  <2> QED
    BY <1>1, <1>3, <1>8, <2>1, <2>2 DEF Reading
<1>15. ReceiveInv'
  BY <1>1, <1>3, <1>12, <1>13, <1>14 DEF ReceiveInv
<1> QED
  BY <1>5, <1>7, <1>11, <1>15

\* What recvBufferProcess leaves over is less than the next packet.
LEMMA FrameEndReceive ==
  ASSUME ReceiveInv, FrameEnd, net = "frame", net' = "send",
         UNCHANGED <<handling, handled>>
  PROVE  ReceiveInv'
<1>1. /\ ReceiveTypes /\ Starts /\ Queue /\ Reading /\ Lies(0)
      /\ HeaderSize \in Nat /\ framing = dataSize
  BY DEF ReceiveInv, Reading, FrameEnd
<1>2. /\ dataSize' = dataSize - readPos /\ prevReadPos' = readPos /\ readPos' = 0
      /\ framing' = 0
      /\ UNCHANGED <<body, start, received, recvBuffer, packets>>
      /\ HasHeader => \E b \in Announced(HeaderAt(readPos)) : ~HasBody(b)
  BY DEF FrameEnd, NotFramed
<1>3. /\ readPos \in Nat /\ dataSize \in Nat /\ received \in Nat
      /\ readPos <= dataSize /\ dataSize - readPos \in Nat
      /\ Len(recvBuffer) \in Nat
  BY <1>1 DEF ReceiveTypes, Reading
<1>4. Framed' = Framed /\ Framed \in Nat /\ Framed <= Len(body)
  BY <1>1, <1>2 DEF Framed, ReceiveTypes, Queue
<1>5. ReceiveTypes' /\ Starts'
  BY <1>1, <1>2, <1>3 DEF ReceiveTypes, Starts
<1>6. Queue'
  BY <1>1, <1>2, <1>4 DEF Queue, IsNth
<1>7. Lies(prevReadPos)'
  <2>1. readPos + (dataSize - readPos) = dataSize
    BY <1>3
  <2>2. ASSUME NEW i \in 1 .. dataSize - readPos
        PROVE  recvBuffer[readPos + i] = received - (dataSize - readPos) + i
    <3>1. readPos + i \in 1 .. dataSize
      BY <1>3
    <3>2. recvBuffer[readPos + i] = received - dataSize + (readPos + i)
      BY <1>1, <3>1 DEF Lies
    <3> QED
      BY <1>3, <3>2
  <2>3. dataSize <= Len(recvBuffer)
    BY <1>1, <1>3 DEF Lies
  <2> QED
    BY <1>2, <2>1, <2>2, <2>3 DEF Lies
<1>8. dataSize' > 0 => dataSize' < HeaderSize + body[Framed + 1]
  <2> DEFINE k == Framed + 1
  <2>1. SUFFICES ASSUME dataSize - readPos > 0
                 PROVE  dataSize - readPos < HeaderSize + body[k]
    BY <1>2
  <2>2. k \in 1 .. Len(body)
    <3>1. k # Len(body) + 1
      <4>1. received - dataSize + readPos + 1 <= received
        BY <1>3, <2>1
      <4>2. start[k] <= received /\ received < start[Len(body) + 1]
        BY <1>1, <4>1 DEF Reading
      <4>3. start[k] \in Int
        BY <1>1, <1>3 DEF Reading
      <4> HIDE DEF k
      <4> QED
        BY <1>3, <4>2, <4>3
    <3>2. Len(body) \in Nat
      BY <1>1 DEF ReceiveTypes
    <3> QED
      BY <1>4, <3>1, <3>2
  <2>3. body[k] \in Nat
    BY <1>1, <2>2 DEF ReceiveTypes
  <2>4. CASE ~HasHeader
    <3> HIDE DEF k
    <3> QED
      BY <1>1, <1>3, <2>3, <2>4 DEF HasHeader
  <2>5. CASE HasHeader
    <3>1. HeaderAt(readPos) = k
      BY <2>5, HeaderFacts, <1>1
    <3>2. k # 0
      BY <1>4
    <3>3. ~HasBody(body[k])
      <4> HIDE DEF k
      <4> QED
        BY <1>2, <2>5, <3>1, <3>2 DEF Announced
    <3> HIDE DEF k
    <3> QED
      BY <1>1, <1>3, <2>3, <3>3 DEF HasBody, Unread
  <2> QED
    BY <2>4, <2>5
<1>9. Reading'
  <2>1. received - (dataSize - readPos) + 0 + 1 = received - dataSize + readPos + 1
    BY <1>3
  <2> QED
    BY <1>1, <1>2, <1>3, <1>4, <1>7, <1>8, <2>1 DEF Reading
<1> QED
  BY <1>1, <1>2, <1>5, <1>6, <1>9 DEF ReceiveInv

\* The first packet of the queue becomes the one that is handled.
LEMMA GetPacketInfoReceive ==
  ASSUME ReceiveInv, GetPacketInfo
  PROVE  /\ ReceiveInv' /\ Framed' = Framed
         /\ handling = <<>> /\ handling' = <<packets[1]>>
         /\ Len(packets) >= 1 /\ Len(packets') = Len(packets) - 1
         /\ \A i \in 1 .. Len(packets') : packets'[i] = packets[i + 1]
<1>1. /\ packets # <<>> /\ handling = <<>>
      /\ handling' = <<Head(packets)>> /\ packets' = Tail(packets)
      /\ UNCHANGED <<body, start, received, recvBuffer, dataSize, prevReadPos,
                     readPos, framing, closed, net, handled>>
  BY DEF GetPacketInfo
<1>2. ReceiveTypes /\ Starts /\ Queue
  BY DEF ReceiveInv
<1>3. /\ Head(packets) \in Queueable /\ Tail(packets) \in Seq(Queueable)
      /\ Len(Tail(packets)) = Len(packets) - 1
      /\ \A i \in 1 .. Len(Tail(packets)) : Tail(packets)[i] = packets[i + 1]
      /\ Head(packets) = packets[1] /\ Len(packets) >= 1 /\ Len(packets) \in Nat
  BY <1>1, <1>2, HeadTailProperties DEF ReceiveTypes
<1>4. /\ Len(handling) = 0 /\ Len(handling') = 1
      /\ handling' \in Seq(Queueable) /\ handling'[1] = packets[1]
  BY <1>1, <1>3
<1>5. Framed' = Framed
  BY <1>1, <1>2, <1>3, <1>4 DEF Framed, ReceiveTypes
<1>6. ReceiveTypes' /\ Starts'
  BY <1>1, <1>2, <1>3, <1>4 DEF ReceiveTypes, Starts
<1>7. Queue'
  <2>1. IsNth(packets[1], handled + 1)
    BY <1>2, <1>3, <1>4 DEF Queue, ReceiveTypes
  <2>2. ASSUME NEW i \in 1 .. Len(packets) - 1
        PROVE  IsNth(packets[i + 1], handled + 1 + i)
    <3>1. i + 1 \in 1 .. Len(packets) /\ handled + 1 + i = handled + 0 + (i + 1)
      BY <1>2, <1>3 DEF ReceiveTypes
    <3> QED
      BY <1>2, <1>4, <3>1 DEF Queue
  <2> QED
    BY <1>1, <1>2, <1>3, <1>4, <1>5, <2>1, <2>2 DEF Queue, IsNth
<1>8. (Lies(0)' <=> Lies(0)) /\ (Lies(prevReadPos)' <=> Lies(prevReadPos))
  BY <1>1 DEF Lies
<1>9. ReceiveInv'
  BY <1>1, <1>5, <1>6, <1>7, <1>8 DEF ReceiveInv, Reading
<1> QED
  BY <1>1, <1>3, <1>5, <1>9

\* The packet is handled.
LEMMA AnswerReceive ==
  ASSUME ReceiveInv, Answer PROVE ReceiveInv' /\ Framed' = Framed
<1>1. /\ handling # <<>> /\ handling' = <<>> /\ handled' = handled + 1
      /\ UNCHANGED <<body, start, received, recvBuffer, dataSize, prevReadPos,
                     readPos, framing, packets, closed, net>>
  BY DEF Answer, receiveVars
<1>2. ReceiveTypes /\ Starts /\ Queue
  BY DEF ReceiveInv
<1>3. Len(handling) = 1 /\ Len(handling') = 0
  <2>1. Len(handling) \in Nat \ {0} /\ Len(handling) <= 1
    BY <1>1, <1>2, EmptySeq DEF ReceiveTypes
  <2>2. Len(handling') = 0
    BY <1>1
  <2>3. Len(handling) = 1
    <3> DEFINE n == Len(handling)
    <3>1. n \in Nat /\ n # 0 /\ n <= 1
      BY <2>1
    <3> HIDE DEF n
    <3>2. n = 1
      BY <3>1
    <3> QED
      BY <3>2 DEF n
  <2> QED
    BY <2>2, <2>3
<1>4. Framed' = Framed
  BY <1>1, <1>2, <1>3 DEF Framed, ReceiveTypes
<1>5. ReceiveTypes' /\ Starts'
  BY <1>1, <1>2 DEF ReceiveTypes, Starts
<1>6. Queue'
  <2>1. \A x, n : IsNth(x, n)' <=> IsNth(x, n)
    BY <1>1 DEF IsNth
  <2>2. handled' + Len(handling') = handled + Len(handling)
    BY <1>1, <1>2, <1>3 DEF ReceiveTypes
  <2>3. Framed' <= Len(body')
    BY <1>1, <1>2, <1>4 DEF Queue
  <2>4. handling' = <<>> /\ packets' = packets
    BY <1>1
  <2>5. \A i \in 1 .. Len(packets') :
            IsNth(packets[i], handled + Len(handling) + i)'
    BY <1>2, <2>1, <2>2, <2>4 DEF Queue
  <2> QED
    BY <2>3, <2>4, <2>5 DEF Queue
<1>7. (Lies(0)' <=> Lies(0)) /\ (Lies(prevReadPos)' <=> Lies(prevReadPos))
  BY <1>1 DEF Lies
<1> QED
  BY <1>1, <1>4, <1>5, <1>6, <1>7 DEF ReceiveInv, Reading

LEMMA ReceiveNext ==
  ASSUME ReceiveInv, [Next]_vars, Orderly'
  PROVE  ReceiveInv'
<1>1. ~closed' /\ WellFormed'
  BY DEF Orderly
<1>2. CASE Client
  BY <1>1, <1>2, ClientReceive
<1>3. CASE Select \/ NotWritable \/ Send
  <2>1. /\ UNCHANGED <<receiveVars, handling, handled>>
        /\ (net' = "frame" <=> net = "frame")
    BY <1>3 DEF Select, NotWritable, Send, Steps
  <2> QED
    BY <2>1, StillReceive
<1>4. CASE Receive
  BY <1>4, RecvSocketReceive, FrameReceive, FrameEndReceive DEF Receive, Steps
<1>5. CASE GetPacketInfo
  BY <1>5, GetPacketInfoReceive
<1>6. CASE Answer
  BY <1>6, AnswerReceive
<1>7. CASE Notify \/ Append_ \/ UNCHANGED vars
  BY <1>7, StillReceive DEF Notify, Append_, vars, hostVars
<1> QED
  BY <1>1, <1>2, <1>3, <1>4, <1>5, <1>6, <1>7, Steps_

-----------------------------------------------------------------------------
\* A packet that is pending is the client's last, all of which has been
\* received: recv has nothing to take.
LEMMA NothingPending ==
  ASSUME ReceiveInv, Len(body) <= handled + 1, RecvSocket
  PROVE  Len(handling) = 0 /\ Len(packets) = 0
<1> DEFINE m == Len(body)
           e == start[m + 1]
           f == Framed
           pending == Len(handling) + Len(packets)
<1>1. ReceiveTypes /\ Starts /\ Queue /\ Reading
  BY DEF ReceiveInv
<1>2. /\ f = handled + pending /\ pending \in Nat /\ handled \in Nat
      /\ m \in Nat /\ f <= m /\ m <= handled + 1 /\ f \in Nat
  <2>1. /\ Len(handling) \in Nat /\ Len(packets) \in Nat /\ handled \in Nat
        /\ m \in Nat
    BY <1>1 DEF ReceiveTypes
  <2>2. f = handled + pending /\ pending \in Nat /\ f \in Nat
    BY <2>1 DEF Framed
  <2> QED
    BY <1>1, <2>1, <2>2 DEF Queue
<1>3. f = m => received - dataSize + readPos + 1 = e
  BY <1>1 DEF Reading
<1>4. /\ received \in Nat /\ dataSize \in Nat /\ readPos \in Nat
      /\ readPos <= dataSize /\ received < e /\ e \in Nat
  BY <1>1 DEF ReceiveTypes, Reading, Starts
<1>5. PICK n \in 1 .. 2 * MaxBody : received + n <= e - 1
  BY <1>1 DEF RecvSocket, SentUnits, Last, Starts
<1>6. f # m
  <2> HIDE DEF e, f, m
  <2> QED
    BY <1>3, <1>4, <1>5
<1>7. pending = 0
  <2> HIDE DEF pending, f, m
  <2> QED
    BY <1>2, <1>6
<1> QED
  BY <1>1, <1>7 DEF ReceiveTypes

LEMMA LockNext ==
  ASSUME ReceiveInv, LockInv, [Next]_vars, Orderly'
  PROVE  LockInv'
<1> SUFFICES ASSUME lockStep'
             PROVE  /\ Len(body') <= handled' + 1
                    /\ handling' # <<>> => Intact(handling[1])'
                    /\ \A i \in 1 .. Len(packets') : Intact(packets[i])'
  BY DEF LockInv
<1>1. ReceiveTypes /\ Starts /\ Queue
  BY DEF ReceiveInv
<1>2. /\ Len(body) <= handled + 1
      /\ handling # <<>> => Intact(handling[1])
      /\ \A i \in 1 .. Len(packets) : Intact(packets[i])
      /\ lockStep
  BY Steps_ DEF LockInv, Orderly, Client, Select, Receive, NotWritable, Send,
                GetPacketInfo, Answer, Notify, Append_, Steps, vars, hostVars
<1>3. ASSUME UNCHANGED <<body, start, recvBuffer, packets, handling, handled>>
      PROVE  /\ Len(body') <= handled' + 1
             /\ handling' # <<>> => Intact(handling[1])'
             /\ \A i \in 1 .. Len(packets') : Intact(packets[i])'
  BY <1>2, <1>3 DEF Intact
<1>4. CASE Client
  <2>1. /\ handled = Len(body) /\ UNCHANGED <<handled, handling, packets>>
        /\ \E b \in Bodies : body' = Append(body, b)
    BY <1>2, <1>4 DEF Client, ClientSends, Answered, hostVars
  <2>2. Len(body') = Len(body) + 1
    <3>1. PICK b \in Int : body' = Append(body, b)
      BY <2>1
    <3>2. body \in Seq(Int)
      BY <1>1 DEF ReceiveTypes
    <3> QED
      BY <3>1, <3>2, AppendProperties
  <2>3. Len(handling) = 0 /\ Len(packets) = 0
    BY <1>1, <2>1 DEF ReceiveTypes, Queue, Framed
  <2> QED
    BY <1>1, <2>1, <2>2, <2>3, EmptySeq DEF ReceiveTypes
<1>5. CASE Receive /\ RecvSocket
  <2>1. UNCHANGED <<body, packets, handling, handled>>
    BY <1>5 DEF Receive, Steps, RecvSocket
  <2>2. Len(handling) = 0 /\ Len(packets) = 0
    BY <1>2, <1>5, NothingPending
  <2> QED
    BY <1>1, <1>2, <2>1, <2>2, EmptySeq DEF ReceiveTypes
<1>6. CASE Steps("frame", "frame") /\ Frame
  <2>1. /\ UNCHANGED <<body, start, recvBuffer, handling, handled>>
        /\ net = "frame" /\ net' = "frame"
    BY <1>6 DEF Steps, Frame
  <2>2. PICK p \in Queueable : packets' = Append(packets, p) /\ Intact(p)'
    BY <1>6, <2>1, FrameReceive
  <2>3. /\ Len(packets') = Len(packets) + 1 /\ packets'[Len(packets) + 1] = p
        /\ \A i \in 1 .. Len(packets) : packets'[i] = packets[i]
        /\ Len(packets) \in Nat
    BY <1>1, <2>2, AppendProperties DEF ReceiveTypes
  <2>4. ASSUME NEW i \in 1 .. Len(packets') PROVE Intact(packets[i])'
    <3>1. CASE i \in 1 .. Len(packets)
      BY <1>2, <2>1, <2>3, <3>1 DEF Intact
    <3>2. CASE i = Len(packets) + 1
      BY <2>2, <2>3, <3>2 DEF Intact
    <3> QED
      BY <2>3, <3>1, <3>2
  <2> QED
    BY <1>2, <2>1, <2>4 DEF Intact
<1>7. CASE (Steps("frame", "send") /\ FrameEnd) \/ Select
           \/ NotWritable \/ Send \/ Notify \/ Append_ \/ UNCHANGED vars
  BY <1>3, <1>7 DEF FrameEnd, Select, NotWritable, Send, Notify, Append_,
                    Steps, vars, receiveVars, hostVars
<1>8. CASE GetPacketInfo
  <2>1. /\ handling' = <<packets[1]>> /\ Len(packets) >= 1
        /\ Len(packets') = Len(packets) - 1
        /\ \A i \in 1 .. Len(packets') : packets'[i] = packets[i + 1]
        /\ Len(packets) \in Nat
    BY <1>1, <1>8, GetPacketInfoReceive DEF ReceiveTypes
  <2>2. UNCHANGED <<body, start, recvBuffer, handled>>
    BY <1>8 DEF GetPacketInfo
  <2>3. Intact(handling[1])'
    <3>1. handling'[1] = packets[1] /\ Intact(packets[1])
      BY <1>2, <2>1
    <3> QED
      BY <2>2, <3>1 DEF Intact
  <2>4. ASSUME NEW i \in 1 .. Len(packets') PROVE Intact(packets[i])'
    <3>1. packets'[i] = packets[i + 1] /\ Intact(packets[i + 1])
      BY <1>2, <2>1
    <3> QED
      BY <2>2, <3>1 DEF Intact
  <2> QED
    BY <1>2, <2>2, <2>3, <2>4
<1>9. CASE Answer
  <2>1. /\ handling' = <<>> /\ handled' = handled + 1
        /\ UNCHANGED <<body, start, recvBuffer, packets>>
    BY <1>9 DEF Answer, receiveVars
  <2>2. Len(body) <= handled' + 1
    BY <1>1, <1>2, <2>1 DEF ReceiveTypes
  <2> QED
    BY <1>2, <2>1, <2>2 DEF Intact
<1> QED
  BY <1>3, <1>4, <1>5, <1>6, <1>7, <1>8, <1>9, Steps_ DEF Receive, Orderly

-----------------------------------------------------------------------------
LEMMA QuietInit == Init => notified \in Nat /\ QuietInv
  BY DEF Init, ReceiveInit, SendInit, QuietInv, Quiet, Appended, Sent, Framed,
         NotAppending, NotFlushing

\* What flushSendBuff has sent is in the buffer.
LEMMA SentFacts ==
  ASSUME SizeInv
  PROVE  /\ Sent \in Int /\ sendSize \in Int /\ 0 <= Sent /\ Sent <= sendSize
         /\ net # "flush" => Sent = 0
  BY DEF SizeInv, SendTypes, Sent

\* A step that leaves the send buffer, what is handled and what is queued.
LEMMA StillQuiet ==
  ASSUME Quiet, UNCHANGED <<body, handled, sendVars, dropped, answerEnd>>,
         Framed' = Framed
  PROVE  Quiet'
  BY DEF Quiet, Appended, Sent, sendVars

\* The client sends once the last answer has arrived, and nothing is left then.
LEMMA ClientQuiet ==
  ASSUME SizeInv, DataTypes, ReceiveInv, Quiet, lockStep, Client PROVE Quiet'
<1>1. /\ handled = Len(body) /\ append.at = "idle" /\ delivered >= answerEnd
      /\ UNCHANGED <<handled, handling, packets, sendVars, dropped, answerEnd>>
  BY DEF Client, Answered, ClientSends, hostVars
<1>2. Framed' = Framed
  BY <1>1 DEF Framed
<1>3. ~(handled < Framed)
  BY <1>1 DEF ReceiveInv, Queue, ReceiveTypes, Framed
<1>4. sendSize = Sent
  BY <1>1, SentFacts DEF Quiet, Appended, DataTypes
<1> QED
  BY <1>1, <1>2, <1>3, <1>4 DEF Quiet, Appended, Sent, sendVars

\* A packet is queued when nothing is left to send.
LEMMA FrameQuiet ==
  ASSUME SizeInv, ReceiveInv, Quiet, Steps("frame", "frame"), Frame,
         UNCHANGED sendVars
  PROVE  Quiet'
<1>1. /\ net = "frame" /\ net' = "frame"
      /\ UNCHANGED <<handling, handled, body, dropped, answerEnd>>
  BY DEF Steps, Frame
<1>2. PICK p \in Queueable : packets' = Append(packets, p)
  BY <1>1, FrameReceive
<1>3. ReceiveTypes /\ ReceiveInv'
  BY <1>1, FrameReceive DEF ReceiveInv
<1>4. Len(packets') = Len(packets) + 1
  BY <1>2, <1>3, AppendProperties DEF ReceiveTypes
<1>5. Framed' = Framed + 1 /\ handled <= Framed /\ Framed \in Nat
  BY <1>1, <1>3, <1>4 DEF Framed, ReceiveTypes
<1>6. Framed' <= Len(body)
  BY <1>1, <1>3 DEF ReceiveInv, Queue
<1>7. handled < Len(body)
  BY <1>3, <1>5, <1>6 DEF ReceiveTypes
<1>8. sendSize = 0
  BY <1>1, <1>7, SentFacts DEF Quiet
<1> QED
  BY <1>1, <1>8 DEF Quiet, Appended, Sent, sendVars

\* A flush only takes from what is left to send.
LEMMA SendQuiet == ASSUME SizeInv, DataTypes, Quiet, Send PROVE Quiet'
<1>1. /\ UNCHANGED <<body, handled, handling, packets, dropped, answerEnd>>
      /\ UNCHANGED <<accepted, append>>
  BY DEF Send, Steps, receiveVars, SendSocket, CompareSize, MoveRest, LoadRest,
         SubtractSent, ResetSize
<1>2. Framed' = Framed /\ Appended' = Appended
  BY <1>1 DEF Framed, Appended
<1>3. /\ Sent \in Int /\ sendSize \in Int /\ 0 <= Sent /\ Sent <= sendSize
      /\ accepted \in Nat /\ delivered \in Nat
  BY SentFacts DEF DataTypes
<1>4. SUFFICES
        /\ Sent' \in Int /\ sendSize' \in Int /\ delivered' \in Int
        /\ sendSize' - Sent' <= accepted - delivered'
        /\ sendSize = Sent => sendSize' = Sent'
        /\ sendSize = 0 => sendSize' = 0 /\ Sent' = 0
  <2>1. append.at # "idle" => sendSize = 0
    BY <1>3 DEF Quiet, SizeInv, SendTypes
  <2> QED
    BY <1>1, <1>2, <2>1 DEF Quiet
<1>5. CASE SendSocket
  <2>0. (0 .. sendSize) \cup {0} = 0 .. sendSize
    BY <1>3
  <2>1. PICK n \in 0 .. sendSize :
            /\ delivered' = delivered \/ delivered' = delivered + n
            /\ flush' = [at |-> "compare", sent |-> n, reg |-> 0]
            /\ sendSize' = sendSize
    BY <1>5, <2>0 DEF SendSocket
  <2>2. Sent = 0 /\ Sent' = n
    BY <1>5, <2>1 DEF SendSocket, Sent
  <2>3. sendSize <= accepted - delivered
    BY <1>3, <2>2 DEF Quiet
  <2> QED
    BY <1>3, <2>1, <2>2, <2>3
<1>6. CASE CompareSize \/ MoveRest \/ LoadRest
  <2>1. /\ sendSize' = sendSize /\ delivered' = delivered
        /\ flush'.sent = flush.sent /\ flush.at # "idle" /\ flush'.at # "idle"
    BY <1>6 DEF CompareSize, MoveRest, LoadRest, SizeInv, SendTypes
  <2>2. Sent' = Sent
    BY <2>1 DEF Sent
  <2> QED
    BY <1>3, <2>1, <2>2 DEF Quiet
<1>7. CASE SubtractSent
  <2>1. /\ sendSize' = flush.reg - flush.sent /\ delivered' = delivered
        /\ Sent = flush.sent /\ Sent' = 0
    BY <1>7 DEF SubtractSent, Sent, NotFlushing
  <2>2. /\ flush.reg \in Int /\ flush.sent \in Int
        /\ flush.sent <= flush.reg /\ flush.reg <= sendSize
    BY <1>7 DEF SubtractSent, SizeInv, SendTypes
  <2> QED
    BY <1>3, <2>1, <2>2 DEF Quiet
<1>8. CASE ResetSize
  <2>1. sendSize' = 0 /\ delivered' = delivered /\ Sent' = 0
    BY <1>8 DEF ResetSize, NothingLeft, Sent, NotFlushing
  <2> QED
    BY <1>3, <2>1 DEF Quiet
<1> QED
  BY <1>5, <1>6, <1>7, <1>8 DEF Send

\* The handler answers into an empty buffer.
LEMMA AnswerQuiet ==
  ASSUME SizeInv, DataTypes, ReceiveInv, LockInv, lockStep, Quiet, Answer
  PROVE  Quiet'
<1>1. /\ handling # <<>> /\ handled' = handled + 1 /\ UNCHANGED body
      /\ Framed' = Framed /\ Sends("answer")
  BY AnswerReceive DEF Answer, receiveVars
<1>2. ReceiveTypes /\ Queue /\ Len(body) <= handled + 1
  BY DEF ReceiveInv, LockInv
<1>3. handled < Framed
  <2>1. Len(handling) \in Nat \ {0}
    BY <1>1, <1>2, EmptySeq DEF ReceiveTypes
  <2>2. Len(packets) \in Nat /\ handled \in Nat
    BY <1>2 DEF ReceiveTypes
  <2> QED
    BY <2>1, <2>2 DEF Framed
<1>4. sendSize = 0 /\ Sent = 0
  BY <1>3, SentFacts DEF Quiet
<1>5. PICK size \in Responses :
          IF SpaceFor(size)
          THEN /\ SendData(size) /\ dropped' = dropped
               /\ answerEnd' = accepted + size
          ELSE /\ dropped' = dropped \cup {"answer"}
               /\ UNCHANGED <<sendVars, answerEnd>>
  BY <1>1 DEF Sends
<1>6. SpaceFor(size) /\ size \in Nat
  BY <1>4 DEF SpaceFor
<1>7. /\ append' = [at |-> "copy", pos |-> sendSize, size |-> size, reg |-> 0]
      /\ UNCHANGED <<sendSize, accepted, delivered, flush>>
      /\ dropped' = dropped /\ answerEnd' = accepted + size
  BY <1>5, <1>6 DEF SendData
<1>8. handled' = Len(body')
  <2> DEFINE m == Len(body)
  <2>1. /\ m \in Nat /\ handled \in Nat /\ Framed \in Int
        /\ Framed <= m /\ m <= handled + 1
    BY <1>2 DEF ReceiveTypes, Queue, Framed
  <2>2. body' = body
    BY <1>1
  <2> HIDE DEF m
  <2>3. handled' = m
    BY <1>1, <1>3, <2>1
  <2> QED
    BY <2>2, <2>3 DEF m
<1>9. Sent' = Sent /\ Appended' = size
  BY <1>7 DEF Sent, Appended
<1>10. Framed \in Nat /\ Len(body) \in Nat /\ Framed <= Len(body)
  BY <1>2 DEF ReceiveTypes, Queue, Framed
<1> QED
  BY <1>1, <1>4, <1>7, <1>8, <1>9, <1>10 DEF Quiet

\* Nobody is answered while SendData is at an answer.
LEMMA AppendQuiet ==
  ASSUME SizeInv, DataTypes, ReceiveInv, Quiet, Append_ PROVE Quiet'
<1>1. /\ UNCHANGED <<body, handled, handling, packets, dropped, answerEnd,
                     delivered, flush>>
      /\ append.at # "idle" /\ Appending
  BY DEF Append_, Appending, Copy, LoadSize, AddSize, receiveVars
<1>2. Framed' = Framed /\ Sent' = Sent
  BY <1>1 DEF Framed, Sent
<1>3. /\ append.pos = 0 /\ Sent = 0 /\ handled = Len(body)
      /\ append.size \in Nat /\ append.reg \in Int /\ sendSize = 0
  BY <1>1, SentFacts DEF Quiet, SizeInv, SendTypes
<1>4. CASE Copy \/ LoadSize
  <2>1. /\ append'.size = append.size /\ append'.pos = append.pos
        /\ append'.at # "idle" /\ UNCHANGED <<sendSize, accepted>>
    BY <1>4 DEF Copy, LoadSize, SizeInv, SendTypes
  <2> QED
    BY <1>1, <1>2, <1>3, <2>1 DEF Quiet, Appended
<1>5. CASE AddSize
  <2>1. append.reg = 0
    BY <1>3, <1>5 DEF AddSize, SizeInv, SendTypes
  <2>2. /\ sendSize' = append.size /\ accepted' = accepted + append.size
        /\ append'.at = "idle"
    BY <1>3, <1>5, <2>1 DEF AddSize, NotAppending
  <2>3. ~(handled < Len(body)) /\ ~(handled < Framed)
    BY <1>3 DEF ReceiveInv, ReceiveTypes, Queue, Framed
  <2>4. Appended = append.size /\ Appended' = 0
    BY <1>1, <2>2 DEF Appended
  <2>5. sendSize' - Sent' <= accepted' - delivered'
    BY <1>1, <1>2, <1>3, <2>2 DEF Quiet, DataTypes
  <2> QED
    BY <1>1, <1>2, <1>3, <2>2, <2>3, <2>4, <2>5 DEF Quiet, DataTypes
<1> QED
  BY <1>1, <1>4, <1>5 DEF Appending

LEMMA QuietNext ==
  ASSUME SizeInv, DataTypes, ReceiveInv, LockInv, QuietInv, [Next]_vars,
         notified \in Nat, Orderly'
  PROVE  QuietInv'
<1>1. CASE Notify
  BY <1>1 DEF Notify, QuietInv
<1>2. CASE ~Notify
  <2>1. UNCHANGED <<lockStep, notified>>
    BY <1>2, Steps_ DEF Orderly, Client, Select, Receive, NotWritable, Send,
                GetPacketInfo, Answer, Append_, Steps, SendSocket, CompareSize,
                MoveRest, LoadRest, SubtractSent, ResetSize, vars, hostVars
  <2> SUFFICES ASSUME lockStep, Quiet PROVE Quiet'
    BY <2>1 DEF QuietInv
  <2>2. CASE Client
    BY <2>2, ClientQuiet
  <2>3. CASE Select \/ NotWritable \/ UNCHANGED vars
             \/ (Receive /\ (RecvSocket \/ FrameEnd))
    <3>1. UNCHANGED <<body, handled, handling, packets, sendVars, dropped,
                      answerEnd>>
      BY <2>3 DEF Select, NotWritable, Receive, RecvSocket, FrameEnd, Frame,
                  Steps, vars, receiveVars, hostVars
    <3> QED
      BY <3>1, StillQuiet DEF Framed
  <2>4. CASE Steps("frame", "frame") /\ Frame /\ UNCHANGED sendVars
    BY <2>4, FrameQuiet
  <2>5. CASE Send
    BY <2>5, SendQuiet
  <2>6. CASE GetPacketInfo
    <3>1. Framed' = Framed
      BY <2>6, GetPacketInfoReceive
    <3>2. UNCHANGED <<body, handled, sendVars, dropped, answerEnd>>
      BY <2>6 DEF GetPacketInfo
    <3> QED
      BY <3>1, <3>2, StillQuiet
  <2>7. CASE Answer
    BY <2>7, AnswerQuiet
  <2>8. CASE Append_
    BY <2>8, AppendQuiet
  <2> QED
    BY <1>2, <2>2, <2>3, <2>4, <2>5, <2>6, <2>7, <2>8, Steps_
       DEF Orderly, Receive
<1> QED
  BY <1>1, <1>2
-----------------------------------------------------------------------------
LEMMA OrderlyInit == Init => OrderlyInv
<1> SUFFICES ASSUME Init PROVE body \in Seq(Int)
  BY ReceiveInvInit, QuietInit DEF OrderlyInv
<1> QED
  BY DEF Init, ReceiveInit

\* A session that is orderly after a step was so before it.
LEMMA StaysOrderly ==
  ASSUME body \in Seq(Int), [Next]_vars, Orderly'
  PROVE  Orderly
<1>1. ~closed /\ WellFormed'
  BY StaysOpen DEF Orderly
<1>2. CASE UNCHANGED body
  BY <1>1, <1>2 DEF Orderly, WellFormed
<1>3. CASE \E b \in Bodies : body' = Append(body, b)
  <2>1. PICK b \in Int : body' = Append(body, b)
    BY <1>3
  <2>2. /\ DOMAIN body \subseteq DOMAIN body'
        /\ \A k \in DOMAIN body : body'[k] = body[k]
    BY <2>1, AppendProperties
  <2> QED
    BY <1>1, <2>2 DEF Orderly, WellFormed
<1> QED
  BY <1>2, <1>3, Steps_ DEF Orderly, Client, ClientSends, Select, Receive,
     RecvSocket, Frame, FrameEnd, NotWritable, Send, GetPacketInfo, Answer,
     Append_, Notify, receiveVars, vars

LEMMA OrderlyNext == StreamInv /\ OrderlyInv /\ [Next]_vars => OrderlyInv'
<1> SUFFICES ASSUME StreamInv, OrderlyInv, [Next]_vars PROVE OrderlyInv'
  OBVIOUS
<1>1. body' \in Seq(Int)
  <2>1. CASE UNCHANGED body
    BY <2>1 DEF OrderlyInv
  <2>2. CASE \E b \in Bodies : body' = Append(body, b)
    <3>1. PICK b \in Int : body' = Append(body, b)
      BY <2>2
    <3> QED
      BY <3>1, AppendProperties DEF OrderlyInv
  <2> QED
    BY <2>1, <2>2 DEF Next, Noting, Network, Requested, Client, ClientSends,
       Select, Receive, RecvSocket, Frame, FrameEnd, CloseSession, NotWritable,
       Send, GetPacketInfo, Answer, Append_, Notify, ForcingClose, receiveVars,
       vars
<1>2. notified' \in Nat
  BY DEF OrderlyInv, Next, Noting, Network, Requested, Client, Select, Receive,
     CloseSession, NotWritable, Send, GetPacketInfo, Answer, Append_, Notify,
     ForcingClose, Steps, vars, hostVars
<1>3. ASSUME Orderly' PROVE ReceiveInv' /\ LockInv' /\ QuietInv'
  <2>1. Orderly
    BY <1>3, StaysOrderly DEF OrderlyInv
  <2>2. ReceiveInv /\ LockInv /\ QuietInv /\ notified \in Nat
    BY <2>1 DEF OrderlyInv
  <2>3. SizeInv /\ DataTypes
    BY <2>1 DEF Orderly, StreamInv, SizesHold
  <2> QED
    BY <1>3, <2>2, <2>3, ReceiveNext, LockNext, QuietNext
<1> QED
  BY <1>1, <1>2, <1>3 DEF OrderlyInv

(* pRecvBuffer has room for all that recvSocket asks recv for, however recv*)
(* cuts the stream into pieces, if no header announces more than MaxBody or*)
(* less than nothing: recvBufferProcess leaves over less than one packet.  *)
THEOREM ReceiveAlwaysFits == Spec => []ReceiveFits
<1>1. OrderlyInv => ReceiveFits
  <2> SUFFICES ASSUME OrderlyInv, net = "recv", Orderly,
                      \A k \in DOMAIN body : body[k] <= MaxBody
               PROVE  dataSize + 2 * MaxBody <= RecvBufferSize
    BY DEF ReceiveFits
  <2>1. ReceiveTypes /\ Starts /\ Queue /\ Reading
    BY DEF OrderlyInv, ReceiveInv
  <2>2. readPos = 0 /\ (dataSize > 0 => dataSize < HeaderSize + body[Framed + 1])
    BY <2>1 DEF Reading, ReceiveTypes
  <2>3. Framed \in Nat /\ Framed <= Len(body) /\ Len(body) \in Nat
    BY <2>1 DEF Queue, ReceiveTypes, Framed
  <2>4. dataSize > 0 => Framed # Len(body)
    <3> DEFINE e == start[Len(body) + 1]
    <3>1. Framed = Len(body) => received - dataSize + readPos + 1 = e
      BY <2>1 DEF Reading
    <3>2. received < e
      BY <2>1 DEF Reading
    <3>3. received \in Nat /\ dataSize \in Nat
      BY <2>1 DEF ReceiveTypes
    <3> HIDE DEF e
    <3> QED
      BY <2>2, <3>1, <3>2, <3>3
  <2>5. dataSize > 0 => Framed + 1 \in DOMAIN body
    <3> HIDE DEF Framed
    <3> DEFINE n == Len(body)
    <3>1. n \in Nat /\ Framed \in Nat /\ Framed <= n
          /\ (dataSize > 0 => Framed # n) /\ DOMAIN body = 1 .. n
      BY <2>1, <2>3, <2>4 DEF ReceiveTypes
    <3> HIDE DEF n
    <3> QED
      BY <3>1
  <2>6. dataSize \in Nat /\ dataSize <= HeaderSize + MaxBody - 1
    <3> DEFINE b == body[Framed + 1]
    <3>1. dataSize > 0 => b \in Nat /\ b <= MaxBody /\ dataSize < HeaderSize + b
      BY <2>1, <2>2, <2>5 DEF ReceiveTypes
    <3>2. dataSize \in Nat
      BY <2>1 DEF ReceiveTypes
    <3> HIDE DEF b
    <3> QED
      BY <3>1, <3>2
  <2>7. /\ HeaderSize + MaxBody - 1 + 2 * MaxBody <= RecvBufferSize
        /\ RecvBufferSize \in Nat
    BY ReceiveBufferAssumption
  <2> QED
    BY <2>6, <2>7
<1> QED
  BY StreamInit, StreamNext, OrderlyInit, OrderlyNext, <1>1, PTL DEF Spec

\* Frame alone makes the queue longer.
LEMMA OnlyFrameQueues ==
  ASSUME ReceiveInv, [Next]_vars, Len(packets') > Len(packets), Orderly'
  PROVE  Frame /\ net = "frame" /\ net' = "frame" /\ UNCHANGED <<handling, handled>>
<1>1. packets' # packets
  <2>1. Len(packets) \in Nat
    BY DEF ReceiveInv, ReceiveTypes
  <2> QED
    BY <2>1
<1>2. ~GetPacketInfo
  <2>1. Len(packets) \in Nat
    BY DEF ReceiveInv, ReceiveTypes
  <2> QED
    BY <2>1, GetPacketInfoReceive
<1>3. CASE Client
  BY <1>1, <1>3 DEF Client, ClientSends
<1>4. CASE Select \/ NotWritable \/ Send \/ Answer \/ Notify \/ Append_
           \/ UNCHANGED vars
  BY <1>1, <1>4 DEF Select, NotWritable, Send, Answer, Notify, Append_, vars,
                    receiveVars
<1>5. CASE Receive
  BY <1>1, <1>5 DEF Receive, Steps, RecvSocket, FrameEnd
<1> QED
  BY <1>2, <1>3, <1>4, <1>5, Steps_ DEF Orderly

(* The packets queued are the client's, each once and in order, and each   *)
(* points to the body the client sent, while no size is negative.          *)
THEOREM FramingStaysExact == Spec => FramingExact
<1>1. OrderlyInv /\ [Next]_vars =>
        [Len(packets') > Len(packets) /\ Orderly' =>
           /\ Last(packets').packet = handled + Len(handling) + Len(packets')
           /\ Last(packets').size = body[Last(packets').packet]
           /\ LastIntact']_vars
  <2> SUFFICES ASSUME OrderlyInv, [Next]_vars, Len(packets') > Len(packets),
                      Orderly'
               PROVE  /\ Last(packets').packet
                             = handled + Len(handling) + Len(packets')
                      /\ Last(packets').size = body[Last(packets').packet]
                      /\ LastIntact'
    OBVIOUS
  <2>0. ReceiveInv
    BY StaysOrderly DEF OrderlyInv
  <2>1. PICK p \in Queueable :
            /\ packets' = Append(packets, p)
            /\ IsNth(p, Framed + 1) /\ Intact(p)'
    BY <2>0, OnlyFrameQueues, FrameReceive
  <2>2. /\ ReceiveTypes
        /\ Len(packets') = Len(packets) + 1 /\ packets'[Len(packets) + 1] = p
    BY <2>0, <2>1, AppendProperties DEF ReceiveInv, ReceiveTypes
  <2>3. Last(packets') = p
    BY <2>2 DEF Last
  <2>4. p.packet = handled + Len(handling) + Len(packets')
    BY <2>1, <2>2 DEF IsNth, Framed, ReceiveTypes
  <2>5. p.size = body[p.packet]
    BY <2>1 DEF IsNth
  <2>6. LastIntact'
    BY <2>1, <2>3 DEF LastIntact, Intact
  <2> QED
    BY <2>3, <2>4, <2>5, <2>6
<1> QED
  BY StreamInit, StreamNext, OrderlyInit, OrderlyNext, <1>1, PTL
     DEF Spec, FramingExact

(* A packet's body is as the client sent it until its handler has run,     *)
(* when the client waits for each answer and the session is open.          *)
THEOREM LockStepStaysIntact == Spec => []IntactForLockStep
<1>1. OrderlyInv => IntactForLockStep
  <2> SUFFICES ASSUME ReceiveInv, LockInv, lockStep, NEW i \in DOMAIN Pending
               PROVE  Intact(Pending[i])
    BY DEF IntactForLockStep, OrderlyInv
  <2>1. /\ handling \in Seq(Queueable) /\ packets \in Seq(Queueable)
        /\ Len(handling) <= 1
    BY DEF ReceiveInv, ReceiveTypes
  <2>2. /\ i \in 1 .. Len(handling) + Len(packets)
        /\ Pending[i] = IF i <= Len(handling) THEN handling[i]
                        ELSE packets[i - Len(handling)]
    BY <2>1, ConcatProperties DEF Pending
  <2>3. CASE i <= Len(handling)
    <3>1. i = 1 /\ handling # <<>>
      BY <2>1, <2>2, <2>3
    <3> QED
      BY <2>2, <2>3, <3>1 DEF LockInv
  <2>4. CASE ~(i <= Len(handling))
    <3>1. i - Len(handling) \in 1 .. Len(packets)
      BY <2>1, <2>2, <2>4
    <3> QED
      BY <2>2, <2>4, <3>1 DEF LockInv
  <2> QED
    BY <2>3, <2>4
<1> QED
  BY StreamInit, StreamNext, OrderlyInit, OrderlyNext, <1>1, PTL DEF Spec

(* A client that waits for each answer never loses one to a full buffer,   *)
(* as long as no notifications fill it: SendData finds the buffer empty.   *)
THEOREM LockStepStaysServed == Spec => []LockStepNeverDropped
<1>1. OrderlyInv => LockStepNeverDropped
  BY DEF OrderlyInv, QuietInv, Quiet, LockStepNeverDropped
<1> QED
  BY StreamInit, StreamNext, OrderlyInit, OrderlyNext, <1>1, PTL DEF Spec
=============================================================================
