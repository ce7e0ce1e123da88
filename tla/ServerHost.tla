----------------------------- MODULE ServerHost -----------------------------
(***************************************************************************)
(* The whole process: main (Main.cpp) starts the network and the logic     *)
(* thread, waits for a key, stops both and releases the network; the logic *)
(* thread (ServerHost::Run) takes packets and, whenever it finds none,     *)
(* checks for timeouts, which may close sessions under the network thread. *)
(* IsLoginCheck is on; with the 0 of ServerConfig.ini forced stays {}.     *)
(***************************************************************************)
EXTENDS TcpNetwork

VARIABLES
    main,       \* where main is
    isRun,      \* _isRun
    known       \* the sessions ConnectedUserManager has a connect time of

hostVars == <<main, isRun, known>>
vars == <<networkVars, threadVars, historyVars, hostVars>>

Init ==
    /\ TcpNetworkInit
    /\ pc = [t \in Threads |-> "off"]
    /\ main = "init" /\ isRun = FALSE /\ known = {}
-----------------------------------------------------------------------------
\* TcpNetwork::Init starts the network thread as its last step.
InitNetwork ==
    /\ main = "init"
    /\ isNetworkRunning' = TRUE
    /\ Goto("net", "select")
    /\ main' = "construct"
    /\ UNCHANGED <<session, tags, queue, readfds, connectSeq, socket,
                   slot, fd, ready, historyVars, isRun, known>>

\* The rest of ServerHost::Init, and the start of the logic thread.
StartLogic ==
    /\ main = "construct"
    /\ isRun' = TRUE
    /\ Goto("logic", "outer")
    /\ main' = "getchar"
    /\ UNCHANGED <<networkVars, slot, fd, ready, historyVars,
                   known>>

\* A socket call of Init fails. The error is logged as %s, which reads a
\* string at an address that is the error's number; what comes back from it is
\* ignored by main.
InitFails ==
    /\ main = "init"
    /\ \/ main' = "terminated" /\ pc' = pc
       \/ main' = "getchar" /\ Goto("logic", "outer")
    /\ UNCHANGED <<networkVars, slot, fd, ready, historyVars,
                   isRun, known>>

Stop ==
    /\ main = "getchar"
    /\ isRun' = FALSE /\ main' = "join"
    /\ UNCHANGED <<networkVars, threadVars, historyVars, known>>

NotTold == isNetworkRunning
NetworkRunsOn == FALSE

\* TcpNetwork::Release: to join a thread that was never started throws in a
\* destructor.
Release ==
    /\ main = "join" /\ pc["logic"] = "done"
    /\ main' = IF pc["net"] = "off" THEN "terminated" ELSE "joinNetwork"
    /\ isNetworkRunning' = NetworkRunsOn
    /\ UNCHANGED <<session, tags, queue, readfds, connectSeq, socket,
                   threadVars, historyVars, isRun, known>>

Exit ==
    /\ main = "joinNetwork" /\ pc["net"] = "done"
    /\ main' = "exited"
    /\ UNCHANGED <<networkVars, threadVars, historyVars, isRun,
                   known>>
-----------------------------------------------------------------------------
\* The logic thread.
TestIsRun ==
    /\ pc["logic"] = "outer"
    /\ Goto("logic", IF isRun THEN "get" ELSE "done")
    /\ UNCHANGED <<networkVars, slot, fd, ready, historyVars,
                   hostVars>>

StartCheck ==
    /\ Goto("logic", "check")
    /\ slot' = [slot EXCEPT !["logic"] = 0]

\* GetPacketInfo and Process. A packet with the id 0 ends the loop.
Process ==
    /\ pc["logic"] = "get" /\ queue # <<>>
    /\ queue' = Tail(queue)
    /\ LET p == Head(queue)
       IN  /\ known' = CASE p.id = "CONNECT" -> known \cup {p.session}
                         [] p.id = "CLOSE"   -> known \ {p.session}
                         [] p.id = "PACKET"  -> known
           /\ \/ UNCHANGED <<pc, slot>>
              \/ p.id = "PACKET" /\ StartCheck
    /\ UNCHANGED <<session, tags, readfds, connectSeq, socket,
                   isNetworkRunning, fd, ready, historyVars, main,
                   isRun>>

QueueEmpty ==
    /\ pc["logic"] = "get" /\ queue = <<>>
    /\ StartCheck
    /\ UNCHANGED <<networkVars, fd, ready, historyVars, hostVars>>

\* LoginCheck, from session to session, whose time may be over if it has a
\* connect time. ForcingClose reads SocketFD twice.
ForcingClose ==
    /\ pc["logic"] = "check"
    /\ \E s \in known :
        /\ s >= slot["logic"] /\ IsConnected(s)
        /\ Cardinality(forged) + Cardinality(forced \cup {s}) <= MaxVoid
        /\ slot' = [slot EXCEPT !["logic"] = s]
        /\ forced' = forced \cup {s}
        /\ overlapped' = overlapped \cup Overlap("logic", s)
    /\ Goto("logic", "force")
    /\ UNCHANGED <<networkVars, fd, ready, forged, hostVars>>

ReadSocketFD ==
    /\ pc["logic"] = "force"
    /\ fd' = [fd EXCEPT !["logic"] = session[slot["logic"]].fd]
    /\ Goto("logic", "test")
    /\ UNCHANGED <<networkVars, slot, ready, historyVars, hostVars>>

CheckDone ==
    /\ pc["logic"] = "check"
    /\ Goto("logic", "outer")
    /\ slot' = [slot EXCEPT !["logic"] = 0]
    /\ UNCHANGED <<networkVars, fd, ready, historyVars,
                   hostVars>>

Logic ==
    \/ TestIsRun \/ Process \/ QueueEmpty
    \/ ForcingClose \/ ReadSocketFD \/ CheckDone
    \/ (CloseSession("logic") /\ UNCHANGED hostVars)
-----------------------------------------------------------------------------
Network == Net /\ UNCHANGED hostVars
Starting == InitNetwork \/ InitFails \/ StartLogic
Stopping == Release \/ Exit

Ended == main \in {"exited", "terminated"} /\ UNCHANGED vars

Next == Network \/ Logic \/ Starting \/ Stop \/ Stopping \/ Ended

\* The system schedules every thread. Nobody need press a key, and no
\* client need connect.
Spec ==
    /\ Init /\ [][Next]_vars
    /\ WF_vars(Network) /\ WF_vars(Logic) /\ WF_vars(Starting \/ Stopping)
-----------------------------------------------------------------------------
NetLabels == {"off", "select", "accept", "connect", "announce", "serve",
              "receive", "frame", "flush", "done"}
LogicLabels == {"off", "outer", "get", "check", "force", "done"}
CloseLabels == {"test", "closesocket", "fdclr", "clear", "release", "report"}

(* Type invariant of the network and of the threads.                       *)
ServerHostTypeOK ==
    /\ session \in [Slots -> [seq : Connections \cup {Nobody},
                              fd  : Handles \cup {NoHandle}]]
    /\ tags \in Seq(Slots)
    /\ queue \in Seq(Packet)
    /\ readfds \subseteq Handles
    /\ connectSeq \in 0 .. MaxConnections
    /\ isNetworkRunning \in BOOLEAN
    /\ socket \in [Handles -> Connections \cup {Nobody}]
    /\ pc \in [Threads -> NetLabels \cup LogicLabels \cup CloseLabels]
    /\ slot \in [Threads -> 0 .. PoolSize]
    /\ slot["net"] \in Slots
    /\ pc["logic"] \in CloseLabels \cup {"force"} => slot["logic"] \in Slots
    /\ fd \in [Threads -> Handles \cup {NoHandle}]
    /\ ready \subseteq Handles
    /\ forced \subseteq Slots /\ forged \subseteq Slots /\ overlapped \subseteq forced
    /\ isRun \in BOOLEAN /\ known \subseteq Slots

(* A session's tag is in the deque exactly while no connection has the     *)
(* session, and there once, even when both threads go to close it, unless  *)
(* the two pass the test of IsConnected before either has cleared it.      *)
Tagged(s) == Cardinality({i \in DOMAIN tags : tags[i] = s})

Held(s) ==
    \/ IsConnected(s)
    \/ pc["net"] = "connect" /\ slot["net"] = s
    \/ \E t \in Threads : pc[t] = "release" /\ At(t) = s

TagsExact ==
    \A s \in Slots \ overlapped : Tagged(s) = (IF Held(s) THEN 0 ELSE 1)

(* As long as the two threads have not gone to close one session at once,  *)
(* every session has a socket of its own, and the connection behind it is  *)
(* the session's own. After that a close may hit a handle that another     *)
(* connection has by now.                                                  *)
Owns(s) == socket[session[s].fd] = session[s].seq

SocketsOwned ==
    overlapped = {} =>
        \A s \in Slots : IsConnected(s) =>
            Owns(s) \/ \E t \in Threads : WithinClose(t, s)

(* The order of PacketOrder: nothing is queued for a session out of turn,  *)
(* until the logic thread itself goes to close it or its client sends a    *)
(* CONNECT or a CLOSE.                                                     *)
Opened ==
    {s \in Slots : \/ IsConnected(s) /\ ~(pc["net"] = "announce" /\ slot["net"] = s)
                   \/ pc["net"] \in {"release", "report"} /\ At("net") = s}

Order == INSTANCE PacketOrder WITH
    packets <- [i \in DOMAIN queue |->
                   [id |-> queue[i].id, session |-> queue[i].session]],
    open <- Opened \ Void,
    void <- Void

ImplementsPacketOrder == Order!Spec

(* What PacketProcess takes for granted of the packet it gets next: a      *)
(* CONNECT of a session it holds for closed, anything else of an open one, *)
(* unless the session is one of those.                                     *)
PacketsExpected ==
    queue # <<>> =>
        LET p == Head(queue)
        IN  p.session \notin Void =>
                (p.id = "CONNECT" <=> p.session \notin known)

(* A packet is taken while the connection it came from still has the       *)
(* session, or else a CLOSE of the session waits behind it, or the network *)
(* thread is about to queue one: until that CLOSE is handled the handlers  *)
(* may answer, by the session, to another connection, and never after it.  *)
CloseBehind(i, s) ==
    \E j \in DOMAIN queue : j > i /\ queue[j].id = "CLOSE" /\ queue[j].session = s

Leaving(s) == pc["net"] \in {"release", "report"} /\ At("net") = s

PacketsOfOwner ==
    overlapped = {} =>
        \A i \in DOMAIN queue :
            LET s == queue[i].session
            IN  queue[i].id = "PACKET" /\ s \notin Void =>
                    \/ session[s].seq = queue[i].from
                    \/ CloseBehind(i, s) \/ Leaving(s)

(* recvBufferProcess returns again and again: a header that announces a    *)
(* negative size moves it back, and may hold the network thread for ever.  *)
FramingEnds == []<>(pc["net"] # "frame")

(* Every session's socket is read again and again, while the network runs, *)
(* no close was forced and every framing ends: what a client sends and its *)
(* departure are noticed, and the session of one that has gone is freed.   *)
Received(s) == pc["net"] = "receive" /\ At("net") = s

SessionsServed ==
    FramingEnds =>
        \A s \in Slots :
            []<>(~IsConnected(s) \/ Received(s) \/ ~isNetworkRunning \/ forced # {})

(* A key ends the process if the queue is found empty often enough and     *)
(* every framing ends: with an exit, or after a failed Init with           *)
(* std::terminate.                                                         *)
StopHeeded ==
    FramingEnds /\ ([]<>(pc["logic"] \in {"check", "done"})) =>
        (main = "join"
            ~> main = IF pc["net"] = "off" THEN "terminated" ELSE "exited")
=============================================================================
