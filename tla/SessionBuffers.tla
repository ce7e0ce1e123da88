--------------------------- MODULE SessionBuffers ---------------------------
(***************************************************************************)
(* One session's data between its client and the handlers: the client sends*)
(* requests, the network thread receives, frames and queues them, the logic*)
(* thread handles them and answers, and the network thread sends what was  *)
(* answered. Either thread may close the session. The two buffers are those*)
(* of ReceiveBuffer and SendBuffer; the session's slot is followed until it*)
(* has been closed and left, which is how its next connection finds it.    *)
(***************************************************************************)
EXTENDS ReceiveBuffer, SendBuffer

CONSTANTS
    Responses,           \* the sizes of responses and notifications
    MaxNotifications,    \* bound on the notifications for the session
    MaxFramed            \* bound on the packets queued: a negative size
                         \* frames the same units again and again

ASSUME SessionBuffersAssumption ==
    /\ Responses \subseteq 1 .. SendBufferSize
    /\ MaxNotifications \in Nat
    /\ MaxFramed \in Nat /\ MaxRequests <= MaxFramed

VARIABLES
    lockStep,     \* the client waits for the answer before it sends more
    net,          \* where the network thread is in its round
    handling,     \* the packet whose handler runs, or none: <<p>>, <<>>
    handled,      \* how many packets were handled
    notified,     \* how many notifications were made
    answerEnd,    \* the last unit of the last answer
    dropped,      \* what SendData has refused: answers, notifications
    collided,     \* history: Colliding has been true
    clearedAt,    \* history: where the network thread was when the logic
                  \* thread cleared the session
    late          \* history: SendData has written to a closed session

hostVars == <<lockStep, net, handling, handled, notified, answerEnd, dropped,
              collided, clearedAt, late>>
vars == <<receiveVars, sendVars, hostVars>>

Init ==
    /\ ReceiveInit /\ SendInit
    /\ lockStep \in BOOLEAN
    /\ net = "select"
    /\ handling = <<>> /\ handled = 0 /\ notified = 0 /\ answerEnd = 0
    /\ dropped = {}
    /\ collided = FALSE /\ clearedAt = "nowhere" /\ late = FALSE
-----------------------------------------------------------------------------
Answered ==
    /\ handled = Len(body) /\ "answer" \notin dropped
    /\ append.at = "idle" /\ delivered >= answerEnd

Client ==
    /\ ~closed
    /\ lockStep => Answered
    /\ ClientSends
    /\ UNCHANGED <<sendVars, hostVars>>
-----------------------------------------------------------------------------
\* How many packets have been queued.
Framed == handled + Len(handling) + Len(packets)

Steps(from, to) ==
    /\ net = from /\ net' = to
    /\ UNCHANGED <<lockStep, handling, handled, notified, answerEnd, dropped,
                   clearedAt>>

\* The session's part of a round of the network thread. A session that the
\* client has closed is readable too.
Select ==
    /\ ~closed
    /\ \/ Steps("select", "recv")
       \/ Steps("select", "send") /\ received = SentUnits
    /\ UNCHANGED <<receiveVars, sendVars>>

\* (The session may have been cleared since, and recv have gone before.)
Receive ==
    /\ \/ Steps("recv", "frame") /\ RecvSocket
       \/ Steps("frame", "frame") /\ Frame /\ Framed < MaxFramed
       \/ Steps("frame", "send") /\ FrameEnd
    /\ UNCHANGED sendVars

\* Clear, within closeSession.
SizeUncleared == sendSize
ClearedSize == 0

Clear ==
    /\ closed' = TRUE
    /\ dataSize' = 0 /\ prevReadPos' = 0 /\ sendSize' = ClearedSize

\* recv fails or the client has closed, a packet is too big, or send fails.
\* closeSession does nothing to a session that is closed.
CloseSession ==
    /\ \/ Steps("recv", "select")
       \/ Steps("frame", "select") /\ TooBig
       \/ Steps("send", "select") /\ sendSize > 0
    /\ IF closed THEN UNCHANGED <<closed, dataSize, prevReadPos, sendSize>>
       ELSE Clear
    /\ readPos' = 0 /\ framing' = 0
    /\ UNCHANGED <<body, start, received, recvBuffer, packets, sendBuffer,
                   accepted, delivered, garbled, append, flush>>

\* Or flushSendBuff finds that the session is closed.
NotWritable ==
    /\ Steps("send", "select")
    /\ UNCHANGED <<receiveVars, sendVars>>

Send ==
    /\ \/ Steps("send", "flush") /\ SendSocket
       \/ Steps("flush", "flush") /\ (CompareSize \/ MoveRest \/ LoadRest)
       \/ Steps("flush", "select") /\ (SubtractSent \/ ResetSize)
    /\ UNCHANGED receiveVars

Network == Select \/ Receive \/ CloseSession \/ NotWritable \/ Send
-----------------------------------------------------------------------------
\* The logic thread, which is at one packet at a time.
GetPacketInfo ==
    /\ handling = <<>> /\ append.at = "idle" /\ packets # <<>>
    /\ handling' = <<Head(packets)>>
    /\ packets' = Tail(packets)
    /\ UNCHANGED <<body, start, received, recvBuffer, dataSize, prevReadPos,
                   readPos, framing, closed, sendVars, lockStep, net, handled,
                   notified, answerEnd, dropped, clearedAt>>

\* A send buffer that is full drops the packet, and nobody asks.
Sends(what) ==
    \E size \in Responses :
        IF SpaceFor(size)
        THEN /\ SendData(size) /\ dropped' = dropped
             /\ answerEnd' = IF what = "answer" THEN accepted + size ELSE answerEnd
        ELSE /\ dropped' = dropped \cup {what}
             /\ UNCHANGED <<sendVars, answerEnd>>

Answer ==
    /\ handling # <<>>
    /\ handling' = <<>> /\ handled' = handled + 1
    /\ Sends("answer")
    /\ UNCHANGED <<receiveVars, lockStep, net, notified, clearedAt>>

Notify ==
    /\ handling = <<>> /\ append.at = "idle" /\ notified < MaxNotifications
    /\ notified' = notified + 1
    /\ Sends("notification")
    /\ UNCHANGED <<receiveVars, lockStep, net, handling, handled, clearedAt>>

Append_ ==
    /\ Appending
    /\ UNCHANGED <<receiveVars, lockStep, net, handling, handled, notified,
                   answerEnd, dropped, clearedAt>>

\* Between two packets the logic thread may close the session, wherever the
\* network thread is with it.
ForcingClose ==
    /\ ~closed /\ handling = <<>> /\ append.at = "idle"
    /\ Clear
    /\ clearedAt' = net
    /\ UNCHANGED <<body, start, received, recvBuffer, readPos, framing, packets,
                   sendBuffer, accepted, delivered, garbled, append, flush,
                   lockStep, net, handling, handled, notified, answerEnd,
                   dropped>>
-----------------------------------------------------------------------------
\* What lies past the end of pRecvBuffer is other data: once recv has written
\* there the program has no defined behaviour, and the threads stop.
Noting(step) ==
    /\ ~Overrun
    /\ step
    /\ collided' = (collided \/ Colliding')
    /\ late' = (late \/ (closed /\ accepted' # accepted))

Requested == GetPacketInfo \/ Answer \/ Append_

Next ==
    \/ Client
    \/ Noting(Network) \/ Noting(Requested)
    \/ Noting(Notify) \/ Noting(ForcingClose)

\* The threads run on, and the client reads: its socket is writable again and
\* again. It need not send, and nobody need cause a notification or a close.
Spec ==
    /\ Init /\ [][Next]_vars
    /\ WF_vars(Noting(Network)) /\ WF_vars(Noting(Requested))
    /\ SF_vars(Noting(Send))
-----------------------------------------------------------------------------
\* The session is open, and no header that the client has sent is negative.
WellFormed == \A k \in DOMAIN body : body[k] >= 0
Orderly == ~closed /\ WellFormed

(* Whatever the two threads do to each other between their reads and writes*)
(* of SendSize, it stays within the buffer, and so does every access to it,*)
(* in a session that is open, that the network thread has closed, or that  *)
(* the logic thread has, except in the middle of flushSendBuff.            *)
SendSizeInRange == clearedAt # "flush" => sendSize \in 0 .. SendBufferSize

(* A slot is left as connectedSession, which resets nothing, needs it: with*)
(* both buffers empty. It is not if SendData has answered a request that   *)
(* was pending at the close, or if the logic thread has cleared the session*)
(* while the network thread was receiving from it or flushing to it.       *)
LeftAlone == closed /\ net = "select" /\ append.at = "idle"

SlotLeftEmpty ==
    LeftAlone /\ ~late /\ clearedAt \notin {"recv", "frame", "flush"} =>
        sendSize = 0 /\ dataSize = 0 /\ prevReadPos = 0

LastIntact == Intact(Last(packets))

(* The packets queued are those the client sent, each once and in order,   *)
(* and what they point to is the body the client sent, however recv cut    *)
(* the stream into pieces; as long as no size is negative, which queues a  *)
(* packet again, or something that is none.                                *)
FramingExact ==
    [][Len(packets') > Len(packets) /\ Orderly' =>
         /\ Last(packets').packet = handled + Len(handling) + Len(packets')
         /\ Last(packets').size = body[Last(packets').packet]
         /\ LastIntact']_vars

(* pRecvBuffer has room for all that recvSocket asks recv for, in whatever *)
(* pieces the stream comes, if no header announces a body above MaxBody:   *)
(* such a body collects in the buffer, because the limit is looked at after*)
(* all of it has come. (A negative size counts units twice.)               *)
ReceiveFits ==
    net = "recv" /\ Orderly /\ (\A k \in DOMAIN body : body[k] <= MaxBody) =>
        dataSize + 2 * MaxBody <= RecvBufferSize

(* A packet's body is as the client sent it until its handler has run, if  *)
(* the client waits for each answer, and until the session is closed, when *)
(* the buffer becomes another's. (If it does not wait, the next receive    *)
(* overwrites the body, or moves another packet there.)                    *)
Pending == handling \o packets

IntactForLockStep ==
    lockStep /\ Orderly => \A i \in DOMAIN Pending : Intact(Pending[i])

(* Nothing is lost, doubled or reordered on the way to the client, by      *)
(* partial sends and by threads that take turns in any way, unless SendData*)
(* has run into the part of flushSendBuff after its send.                  *)
StreamIntact ==
    ~collided /\ ~closed =>
        /\ ~garbled
        /\ flush.at = "idle" =>
              /\ sendSize = accepted - delivered
              /\ \A p \in 0 .. sendSize - 1 : sendBuffer[p] = delivered + 1 + p

(* A client that waits for each answer never loses one to a full buffer,   *)
(* as long as no notifications fill it and the session is open.            *)
LockStepNeverDropped ==
    lockStep /\ notified = 0 /\ Orderly => dropped = {}

(* All that was sent is answered, and the answers that found room arrive:  *)
(* of a client whose headers are not negative, whose session is not closed *)
(* and who has not overrun the receive buffer.                             *)
AnswersArrive ==
    []<>(\/ (handled = Len(body) /\ delivered = accepted)
         \/ collided \/ ~Orderly \/ Overrun)
=============================================================================
