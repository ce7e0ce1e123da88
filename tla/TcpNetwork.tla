----------------------------- MODULE TcpNetwork -----------------------------
(***************************************************************************)
(* NetworkLib::TcpNetwork: the sessions in their pool, the deque of free   *)
(* tags, the sockets and the packet queue. The network thread ("net")      *)
(* accepts, receives, flushes and closes; the logic thread ("logic") takes *)
(* packets, sends and forces closes. Only the queue and the deque of tags  *)
(* are under a mutex: an access to anything else is a step of its own      *)
(* wherever the other thread could tell.                                   *)
(*                                                                         *)
(* What is in a packet and how the buffers carry it is left to             *)
(* SessionBuffers: the data received yield packets one after the other, or *)
(* one that is too big. The id is the client's, unchecked: one with the id *)
(* of a CONNECT or a CLOSE is one to whoever takes it.                     *)
(***************************************************************************)
EXTENDS Integers, Sequences, FiniteSets

CONSTANTS
    PoolSize,         \* MaxClientCount + ExtraClientCount
    Handles,          \* the socket handles of the system, which it may re-use
    MaxConnections,   \* bound on _connectSeq
    MaxVoid,          \* bound on the sessions forced to close and those
                      \* whose client sends a CONNECT or a CLOSE, together
    MaxQueue,         \* bound: clients connect and send while the queue is
                      \* shorter,
    MaxPackets,       \* and send while fewer of their packets are in it
    IndexAssigned     \* whether the pool's ClientSessions have their Index

NoHandle == 0         \* SocketFD of a session that is not connected
Nobody   == 0         \* Seq of a session that is not connected

ASSUME TcpNetworkAssumption ==
    /\ PoolSize \in Nat \ {0}
    /\ Handles \subseteq Nat \ {NoHandle}
    /\ MaxConnections \in Nat
    /\ MaxVoid \in Nat
    /\ MaxQueue \in Nat /\ MaxPackets \in Nat
    /\ IndexAssigned \in BOOLEAN

Slots       == 0 .. PoolSize - 1
Connections == 1 .. MaxConnections
Threads     == {"net", "logic"}

VARIABLES
    session,      \* _clientSessionPool: Seq and SocketFD
    tags,         \* its _poolIndex
    queue,        \* _packetQueue, with the connection a PACKET came from
    readfds,      \* _readfds
    connectSeq,   \* _connectSeq
    isNetworkRunning,  \* _isNetworkRunning
    socket,       \* the system's sockets: the connection behind each handle
    pc, slot, fd, \* of each thread: where it is, the session, the handle
    ready,        \* read_set: what select found readable
    forced,       \* history: the sessions ForcingClose has gone to close
    forged,       \* history: those whose client sent a CONNECT or a CLOSE
    overlapped    \* history: the sessions both threads went to close at once

threadVars  == <<pc, slot, fd, ready>>
historyVars == <<forced, forged, overlapped>>
networkVars == <<session, tags, queue, readfds, connectSeq, socket,
                 isNetworkRunning>>

NotConnected == [seq |-> Nobody, fd |-> NoHandle]
IsConnected(s) == session[s].fd # NoHandle

Packet == [id : {"CONNECT", "PACKET", "CLOSE"}, session : Slots,
           from : Connections \cup {Nobody}]

TcpNetworkInit ==
    /\ session = [s \in Slots |-> NotConnected]
    /\ tags = [i \in 1 .. PoolSize |-> i - 1]
    /\ queue = <<>>
    /\ readfds = {}
    /\ connectSeq = 0
    /\ isNetworkRunning = FALSE
    /\ socket = [h \in Handles |-> Nobody]
    /\ slot = [t \in Threads |-> 0]
    /\ fd = [t \in Threads |-> NoHandle]
    /\ ready = {}
    /\ forced = {} /\ forged = {} /\ overlapped = {}

QueuedFirst(id, s, c) == <<[id |-> id, session |-> s, from |-> c]>> \o queue
Queued(id, s, c) == Append(queue, [id |-> id, session |-> s, from |-> c])

Void == forced \cup forged

Goto(t, label) == pc' = [pc EXCEPT ![t] = label]
-----------------------------------------------------------------------------
\* The network thread selects, accepts, and then serves session after session.
\* Receive decides whether a socket held any data; only a socket in readfds by
\* now can. A closed handle makes select fail, and the loop tries again.
Select ==
    /\ pc["net"] = "select" /\ isNetworkRunning
    /\ \A h \in readfds : socket[h] # Nobody
    /\ ready' = readfds
    /\ Goto("net", "accept")
    /\ UNCHANGED <<networkVars, historyVars, slot, fd>>

LeaveRun ==
    /\ pc["net"] = "select" /\ ~isNetworkRunning
    /\ Goto("net", "done")
    /\ UNCHANGED <<networkVars, historyVars, slot, fd, ready>>

\* newSession: accept and GetTag. With no tag left the socket is closed at
\* once; no more than that changes, and the sessions are next, as they are
\* when there is nobody to accept.
Accept ==
    /\ pc["net"] = "accept"
    /\ tags # <<>>
    /\ connectSeq < MaxConnections /\ Len(queue) < MaxQueue
    /\ \E h \in Handles :
        /\ socket[h] = Nobody
        /\ socket' = [socket EXCEPT ![h] = connectSeq + 1]
        /\ fd' = [fd EXCEPT !["net"] = h]
    /\ connectSeq' = connectSeq + 1
    /\ slot' = [slot EXCEPT !["net"] = Head(tags)]
    /\ tags' = Tail(tags)
    /\ Goto("net", "connect")
    /\ UNCHANGED <<session, queue, readfds, ready,
                   historyVars, isNetworkRunning>>

ConnectedSession ==
    /\ pc["net"] = "connect"
    /\ readfds' = readfds \cup {fd["net"]}
    /\ session' = [session EXCEPT ![slot["net"]] =
                       [seq |-> connectSeq, fd |-> fd["net"]]]
    /\ Goto("net", "announce")
    /\ UNCHANGED <<tags, queue, connectSeq, socket, slot, fd, ready,
                   historyVars, isNetworkRunning>>

AnnounceConnect ==
    /\ pc["net"] = "announce"
    /\ queue' = Queued("CONNECT", slot["net"], Nobody)
    /\ Goto("net", "accept")
    /\ UNCHANGED <<session, tags, readfds, connectSeq, socket,
                   slot, fd, ready, historyVars, isNetworkRunning>>

NoMoreToAccept ==
    /\ pc["net"] = "accept"
    /\ slot' = [slot EXCEPT !["net"] = 0]
    /\ fd' = [fd EXCEPT !["net"] = NoHandle]
    /\ Goto("net", "serve")
    /\ UNCHANGED <<networkVars, ready, historyVars>>

\* ClientSession::Index, 0 from its initializer. In the source nothing assigns
\* it, though a derived class, which has the pool, may.
IndexAsCommitted(i) == 0
Index(i) == IF IndexAssigned THEN i ELSE 0

\* The session a thread is at: runCheckSelectClients goes on with the Index.
At(t) == IF t = "net" THEN Index(slot["net"]) ELSE slot["logic"]

IsSlotOrEnd(i) == i <= PoolSize
IsSlot(i) == i < PoolSize

\* The local variables that go out of scope are reset.
NextSlot ==
    /\ fd' = [fd EXCEPT !["net"] = NoHandle]
    /\ IF IsSlot(slot["net"] + 1)
       THEN /\ slot' = [slot EXCEPT !["net"] = @ + 1]
            /\ Goto("net", "serve")
            /\ ready' = ready
       ELSE /\ slot' = [slot EXCEPT !["net"] = 0]
            /\ Goto("net", "select")
            /\ ready' = {}

\* runCheckSelectClients and the FD_ISSET of runProcessReceive.
Serve ==
    /\ pc["net"] = "serve"
    /\ IF IsConnected(slot["net"])
       THEN /\ fd' = [fd EXCEPT !["net"] = session[slot["net"]].fd]
            /\ Goto("net", IF fd'["net"] \in ready THEN "receive" ELSE "flush")
            /\ UNCHANGED <<slot, ready>>
       ELSE NextSlot
    /\ UNCHANGED <<networkVars, historyVars>>

PacketsWaiting == Cardinality({i \in DOMAIN queue : queue[i].id = "PACKET"})

\* The connection whose data a receive for the session reads.
Sender(s) == IF IsConnected(s) THEN socket[session[s].fd] ELSE Nobody

\* recvSocket: data, or none; otherwise the end of the connection or an error.
Receive ==
    /\ pc["net"] = "receive"
    /\ \/ Sender(At("net")) # Nobody /\ Goto("net", "frame")
       \/ Goto("net", "test")
    /\ UNCHANGED <<networkVars, slot, fd, ready, historyVars>>

\* One round of recvBufferProcess: a packet with the id its header has.
FramePacket ==
    LET s == At("net")
    IN  /\ pc["net"] = "frame"
        /\ Len(queue) < MaxQueue /\ PacketsWaiting < MaxPackets
        /\ \/ /\ queue' = Queued("PACKET", s, Sender(s))
              /\ forged' = forged
           \/ /\ Cardinality(forced) + Cardinality(forged) < MaxVoid
              /\ \E id \in {"CONNECT", "CLOSE"} : queue' = Queued(id, s, Nobody)
              /\ forged' = forged \cup {s}
        /\ UNCHANGED <<session, tags, readfds, connectSeq, socket, threadVars,
                       forced, overlapped, isNetworkRunning>>

\* No whole packet is left, or one that is too big.
FrameEnds ==
    /\ pc["net"] = "frame"
    /\ Goto("net", "flush") \/ Goto("net", "test")
    /\ UNCHANGED <<networkVars, slot, fd, ready, historyVars>>

\* runProcessWrite: the socket takes what waits, or there is an error, as there
\* is if the session is not connected any more.
Flush ==
    /\ pc["net"] = "flush"
    /\ \/ IsConnected(At("net")) /\ NextSlot
       \/ Goto("net", "test") /\ UNCHANGED <<slot, fd, ready>>
    /\ UNCHANGED <<networkVars, historyVars>>
-----------------------------------------------------------------------------
\* closeSession, by either thread. Where it returns to:
Return(t) == IF t = "net" THEN NextSlot
             ELSE Goto("logic", "check")
                  /\ slot' = [slot EXCEPT !["logic"] = @ + 1]
                  /\ fd' = [fd EXCEPT !["logic"] = NoHandle]
                  /\ ready' = ready

\* On the way to close s: past a test of IsConnected (ForcingClose has one of
\* its own), and the session not yet cleared.
WithinClose(t, s) ==
    /\ At(t) = s
    /\ \/ pc[t] \in {"closesocket", "fdclr", "clear"}
       \/ t = "logic" /\ pc[t] \in {"force", "test"}

ToCloseUntested(s) == TRUE
ToClose(s) == IsConnected(s)

Overlap(t, s) == IF \E o \in Threads \ {t} : WithinClose(o, s) THEN {s} ELSE {}

CloseTest(t) ==
    /\ pc[t] = "test"
    /\ IF ToClose(At(t))
       THEN /\ Goto(t, "closesocket") /\ UNCHANGED <<slot, fd, ready>>
            /\ overlapped' = overlapped \cup Overlap(t, At(t))
       ELSE Return(t) /\ overlapped' = overlapped
    /\ UNCHANGED <<networkVars, forced, forged>>

CloseSocket(t) ==
    /\ pc[t] = "closesocket"
    /\ socket' = [h \in Handles |-> IF h = fd[t] THEN Nobody ELSE socket[h]]
    /\ Goto(t, "fdclr")
    /\ UNCHANGED <<session, tags, queue, readfds, connectSeq, slot,
                   fd, ready, historyVars, isNetworkRunning>>

FdClr(t) ==
    /\ pc[t] = "fdclr"
    /\ readfds' = readfds \ {fd[t]}
    /\ Goto(t, "clear")
    /\ UNCHANGED <<session, tags, queue, connectSeq, socket,
                   slot, fd, ready, historyVars, isNetworkRunning>>

ClearedButSocket(s) == [session[s] EXCEPT !.seq = Nobody]
Cleared(s) == NotConnected

Clear(t) ==
    /\ pc[t] = "clear"
    /\ session' = [session EXCEPT ![At(t)] = Cleared(At(t))]
    /\ Goto(t, "release")
    /\ UNCHANGED <<tags, queue, readfds, connectSeq, socket, slot, fd, ready,
                   historyVars, isNetworkRunning>>

ReleaseTag(t) ==
    /\ pc[t] = "release"
    /\ tags' = Append(tags, At(t))
    /\ Goto(t, "report")
    /\ UNCHANGED <<session, queue, readfds, connectSeq, socket,
                   slot, fd, ready, historyVars, isNetworkRunning>>

ReportClose(t) ==
    /\ pc[t] = "report"
    /\ queue' = Queued("CLOSE", At(t), Nobody)
    /\ Return(t)
    /\ UNCHANGED <<session, tags, readfds, connectSeq, socket,
                   historyVars, isNetworkRunning>>

CloseSession(t) ==
    \/ CloseTest(t) \/ CloseSocket(t) \/ FdClr(t)
    \/ Clear(t) \/ ReleaseTag(t) \/ ReportClose(t)

Net ==
    \/ Select \/ LeaveRun
    \/ Accept \/ ConnectedSession \/ AnnounceConnect \/ NoMoreToAccept
    \/ Serve \/ Receive \/ FramePacket \/ FrameEnds \/ Flush \/ CloseSession("net")
=============================================================================
