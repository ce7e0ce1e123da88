-------------------------- MODULE ServerHostProofs --------------------------
(***************************************************************************)
(* Proofs about the two threads of ServerHost, for every number of         *)
(* sessions, handles, connections and forced closes: who holds a session's *)
(* tag and socket, and in which order packets are queued.                  *)
(***************************************************************************)
EXTENDS ServerHost, FiniteSetTheorems, TLAPS

\* The steps of closeSession from its test to the clearing of the session.
Closing == {"closesocket", "fdclr", "clear"}

DataTypes ==
    /\ session \in [Slots -> [seq : Connections \cup {Nobody},
                              fd  : Handles \cup {NoHandle}]]
    /\ tags \in Seq(Slots)
    /\ queue \in Seq(Packet)
    /\ readfds \subseteq Handles /\ ready \subseteq Handles
    /\ connectSeq \in 0 .. MaxConnections
    /\ socket \in [Handles -> Connections \cup {Nobody}]
    /\ forced \subseteq Slots /\ overlapped \subseteq forced
    /\ forged \subseteq Slots /\ known \subseteq Slots

\* The two threads keep to their own labels, and the logic thread closes only
\* what ForcingClose told it to.
ThreadTypes ==
    /\ pc \in [Threads -> NetLabels \cup LogicLabels \cup CloseLabels]
    /\ pc["net"] \in NetLabels \cup CloseLabels
    /\ pc["logic"] \in LogicLabels \cup CloseLabels
    /\ slot \in [Threads -> 0 .. PoolSize]
    /\ slot["net"] \in Slots
    /\ pc["logic"] \in CloseLabels \cup {"force"} => slot["logic"] \in forced
    /\ fd \in [Threads -> Handles \cup {NoHandle}]
    /\ pc["net"] = "connect" => fd["net"] \in Handles

\* main starts each thread once.
MainInv ==
    /\ main = "init" => pc["net"] = "off"
    /\ main \in {"init", "construct"} => pc["logic"] = "off"

FlagTypes == isNetworkRunning \in BOOLEAN /\ isRun \in BOOLEAN

TypeInv == DataTypes /\ ThreadTypes /\ MainInv

\* Every connection has a session of its own, by the number it got.
SeqInv ==
    /\ \A s \in Slots : IsConnected(s) => session[s].seq \in 1 .. connectSeq
    /\ \A s1, s2 \in Slots :
           IsConnected(s1) /\ IsConnected(s2) /\ session[s1].seq = session[s2].seq
               => s1 = s2
    /\ pc["net"] = "connect" =>
           /\ connectSeq \in Nat \ {0}
           /\ \A s \in Slots : IsConnected(s) => session[s].seq < connectSeq

\* What a thread on its way may rely on, unless the other one joined it.
CloseInv ==
    \A s \in Slots \ overlapped :
        /\ ~(WithinClose("net", s) /\ WithinClose("logic", s))
        /\ \A t \in Threads : WithinClose(t, s) => IsConnected(s)
        /\ pc["net"] = "connect" /\ slot["net"] = s => ~IsConnected(s)
        /\ \A t \in Threads :
               pc[t] = "release" /\ At(t) = s =>
                   /\ ~IsConnected(s)
                   /\ ~(pc["net"] = "connect" /\ slot["net"] = s)
        /\ ~(\A t \in Threads : pc[t] = "release" /\ At(t) = s)

TagInv ==
    \A s \in Slots \ overlapped :
        /\ \A i \in DOMAIN tags : tags[i] = s => ~Held(s)
        /\ Held(s) \/ \E i \in DOMAIN tags : tags[i] = s
        /\ \A i, j \in DOMAIN tags : tags[i] = s /\ tags[j] = s => i = j

\* The handle a thread read is still the session's.
Serving == {"receive", "frame", "flush", "test"} \cup Closing
FdInv ==
    IndexAssigned =>
        /\ pc["net"] \in Serving /\ IsConnected(At("net"))
               => fd["net"] = session[At("net")].fd
        /\ pc["logic"] \in Closing \cup {"test"} /\ slot["logic"] \notin overlapped
               => fd["logic"] = session[slot["logic"]].fd

SocketInv ==
    IndexAssigned /\ overlapped = {} =>
        /\ \A s \in Slots : IsConnected(s) =>
               \/ Owns(s)
               \/ \E t \in Threads : At(t) = s /\ pc[t] \in {"fdclr", "clear"}
        /\ pc["net"] = "connect" => socket[fd["net"]] = connectSeq

\* Positions of the queue, and one before it and one behind it.
Is(q, i, s, id) == q[i].session = s /\ q[i].id = id
Shut(q, i, s, K) == IF i = 0 THEN s \notin K ELSE Is(q, i, s, "CLOSE")
Running(q, i, s, K) ==
    IF i = 0 THEN s \in K ELSE q[i].session = s /\ q[i].id # "CLOSE"
WantsOpen(q, j, s, O) ==
    IF j = Len(q) + 1 THEN s \in O ELSE q[j].session = s /\ q[j].id # "CONNECT"
WantsShut(q, j, s, O) ==
    IF j = Len(q) + 1 THEN s \notin O ELSE Is(q, j, s, "CONNECT")

Alternates(q, s, K, O) ==
    \A i \in 0 .. Len(q), j \in 1 .. Len(q) + 1 :
        i < j =>
            /\ Shut(q, i, s, K) /\ WantsOpen(q, j, s, O) =>
                   \E k \in 1 .. Len(q) : i < k /\ k < j /\ Is(q, k, s, "CONNECT")
            /\ Running(q, i, s, K) /\ WantsShut(q, j, s, O) =>
                   \E k \in 1 .. Len(q) : i < k /\ k < j /\ Is(q, k, s, "CLOSE")

OpenInv ==
    /\ pc["net"] = "announce" /\ slot["net"] \notin forced
           => IsConnected(slot["net"])
    /\ pc["net"] \in {"release", "report"} => ~IsConnected(At("net"))
    /\ pc["net"] = "frame" /\ At("net") \notin forced => IsConnected(At("net"))

OrderInv == \A s \in Slots \ Void : Alternates(queue, s, known, Opened)

USE TcpNetworkAssumption DEF TcpNetworkAssumption
-----------------------------------------------------------------------------
LEMMA SlotFacts ==
  /\ 0 \in Slots /\ Slots \subseteq Int
  /\ \A s \in Slots : s \in 0 .. PoolSize
  /\ \A s \in Slots : IF IsSlot(s + 1) THEN s + 1 \in Slots ELSE TRUE
  /\ \A s \in Slots : s + 1 \in 0 .. PoolSize
  /\ \A s \in Slots : Index(s) \in Slots
  BY DEF Slots, IsSlot, Index, IndexAsCommitted

LEMMA TypeInit == Init => TypeInv
<1> SUFFICES ASSUME Init PROVE TypeInv
  OBVIOUS
<1>1. DataTypes
  <2>1. session \in [Slots -> [seq : Connections \cup {Nobody},
                               fd  : Handles \cup {NoHandle}]]
    BY DEF Init, TcpNetworkInit, NotConnected
  <2>2. queue \in Seq(Packet) /\ tags \in Seq(Slots)
    BY DEF Init, TcpNetworkInit, Slots
  <2>3. socket \in [Handles -> Connections \cup {Nobody}]
    BY DEF Init, TcpNetworkInit
  <2> QED
    BY <2>1, <2>2, <2>3 DEF DataTypes, Init, TcpNetworkInit
<1>2. ThreadTypes
  BY SlotFacts
  DEF Init, TcpNetworkInit, ThreadTypes, Threads, NetLabels, LogicLabels, CloseLabels
<1> QED
  BY <1>1, <1>2 DEF TypeInv, MainInv, Init, Threads

LEMMA FlagTypesInit == Init => FlagTypes
  BY DEF Init, TcpNetworkInit, FlagTypes
-----------------------------------------------------------------------------
(* Types.                                                                  *)

dataVars == <<session, tags, queue, readfds, connectSeq, socket, forced,
              forged, overlapped, known>>

LEMMA DataStays ==
  ASSUME DataTypes, UNCHANGED dataVars, ready' \subseteq Handles
  PROVE  DataTypes'
  BY DEF DataTypes, dataVars

LEMMA NextSlotTypes ==
  ASSUME TypeInv, NextSlot, forced' = forced
  PROVE  /\ ThreadTypes'
         /\ ready' \subseteq Handles
<1> USE DEF TypeInv, ThreadTypes, NextSlot, Goto, Threads
<1>1. ready' \subseteq Handles
  BY DEF DataTypes
<1>2. slot' \in [Threads -> 0 .. PoolSize] /\ slot'["net"] \in Slots
  BY SlotFacts
<1>3. pc' \in [Threads -> NetLabels \cup LogicLabels \cup CloseLabels]
      /\ pc'["net"] \in {"serve", "select"} /\ pc'["logic"] = pc["logic"]
      /\ slot'["logic"] = slot["logic"]
  BY DEF NetLabels
<1>4. fd' \in [Threads -> Handles \cup {NoHandle}]
  OBVIOUS
<1> QED
  BY <1>1, <1>2, <1>3, <1>4 DEF NetLabels

LEMMA ReturnTypes ==
  ASSUME TypeInv, NEW t \in Threads, pc[t] \in CloseLabels, Return(t),
         forced' = forced
  PROVE  /\ ThreadTypes'
         /\ ready' \subseteq Handles
<1>1. CASE t = "net"
  BY <1>1, NextSlotTypes DEF Return
<1>2. CASE t = "logic"
  <2> USE <1>2 DEF TypeInv, ThreadTypes, Return, Goto, Threads
  <2>1. slot["logic"] + 1 \in 0 .. PoolSize
    BY SlotFacts DEF DataTypes
  <2>2. slot' \in [Threads -> 0 .. PoolSize] /\ slot'["net"] = slot["net"]
    BY <2>1
  <2>3. pc' \in [Threads -> NetLabels \cup LogicLabels \cup CloseLabels]
        /\ pc'["net"] = pc["net"] /\ pc'["logic"] = "check"
    BY DEF LogicLabels
  <2>4. fd' \in [Threads -> Handles \cup {NoHandle}] /\ fd'["net"] = fd["net"]
    OBVIOUS
  <2>5. ready' \subseteq Handles
    BY DEF DataTypes
  <2> QED
    BY <2>2, <2>3, <2>4, <2>5 DEF LogicLabels, CloseLabels
<1> QED
  BY <1>1, <1>2 DEF Threads

\* A step that moves one thread to a label of its own.
LEMMA GotoTypes ==
  ASSUME ThreadTypes, NEW t \in Threads, NEW label, Goto(t, label),
         label \in CloseLabels \cup
             IF t = "net" THEN NetLabels \ {"connect"} ELSE LogicLabels \ {"force"},
         t = "logic" /\ label \in CloseLabels => pc["logic"] \in CloseLabels \cup {"force"},
         slot' = slot, fd' = fd, forced \subseteq forced'
  PROVE  ThreadTypes'
  BY DEF ThreadTypes, Goto, Threads, NetLabels, CloseLabels, LogicLabels

LEMMA AtSlot ==
  ASSUME TypeInv, NEW t \in Threads
  PROVE  /\ t = "net" => At(t) \in Slots
         /\ pc[t] \in CloseLabels => At(t) \in Slots
         /\ t = "logic" /\ pc[t] = "force" => At(t) \in Slots
  BY SlotFacts DEF TypeInv, DataTypes, ThreadTypes, At, Threads, CloseLabels

LEMMA QueueTypes ==
  ASSUME TypeInv, NEW id \in {"CONNECT", "PACKET", "CLOSE"}, NEW s \in Slots,
         NEW c \in Connections \cup {Nobody}, queue' = Queued(id, s, c)
  PROVE  queue' \in Seq(Packet)
  BY DEF TypeInv, DataTypes, Queued, Packet

LEMMA SocketFacts ==
  ASSUME TypeInv, NEW s \in Slots, IsConnected(s)
  PROVE  session[s].fd \in Handles /\ socket[session[s].fd] \in Connections \cup {Nobody}
  BY DEF TypeInv, DataTypes, IsConnected

LEMMA CloseTypes ==
  ASSUME TypeInv, NEW t \in Threads, CloseSession(t), known' = known
  PROVE  DataTypes' /\ ThreadTypes'
<1> USE DEF TypeInv
<1>1. At(t) \in Slots /\ pc[t] \in CloseLabels
  BY AtSlot DEF CloseSession, CloseTest, CloseSocket, FdClr, Clear, ReleaseTag,
     ReportClose, CloseLabels
<1>2. ASSUME NEW label \in CloseLabels, Goto(t, label), UNCHANGED <<slot, fd>>,
             forced' = forced
      PROVE  ThreadTypes'
  BY <1>1, <1>2, GotoTypes
<1>3. ready' \subseteq Handles /\ forced' = forced /\ ThreadTypes'
  <2>1. CASE ReportClose(t) \/ (CloseTest(t) /\ ~ToClose(At(t)))
    BY <2>1, <1>1, ReturnTypes DEF ReportClose, CloseTest, historyVars
  <2>2. CASE CloseTest(t) /\ ToClose(At(t))
    BY <2>2, <1>2 DEF CloseTest, DataTypes, CloseLabels
  <2>3. CASE CloseSocket(t) \/ FdClr(t) \/ Clear(t) \/ ReleaseTag(t)
    BY <2>3, <1>2 DEF CloseSocket, FdClr, Clear, ReleaseTag, DataTypes, CloseLabels,
       historyVars
  <2> QED
    BY <2>1, <2>2, <2>3 DEF CloseSession
<1>4. DataTypes'
  <2> USE <1>1, <1>3 DEF DataTypes
  <2>1. CASE CloseTest(t)
    <3>1. Overlap(t, At(t)) \subseteq forced
      <4>1. CASE t = "logic"
        BY <4>1, <1>1 DEF Overlap, ThreadTypes, At
      <4>2. CASE t = "net"
        <5>1. WithinClose("logic", At(t)) => At(t) \in forced
          BY DEF WithinClose, ThreadTypes, At, CloseLabels
        <5> QED
          BY <4>2, <5>1 DEF Overlap, Threads
      <4> QED
        BY <4>1, <4>2 DEF Threads
    <3> QED
      BY <2>1, <3>1 DEF CloseTest, networkVars
  <2>2. CASE CloseSocket(t)
    BY <2>2 DEF CloseSocket, historyVars
  <2>3. CASE FdClr(t)
    BY <2>3 DEF FdClr, historyVars
  <2>4. CASE Clear(t)
    BY <2>4 DEF Clear, historyVars, Cleared, NotConnected
  <2>5. CASE ReleaseTag(t)
    BY <2>5 DEF ReleaseTag, historyVars
  <2>6. CASE ReportClose(t)
    BY <2>6, QueueTypes DEF ReportClose, historyVars
  <2> QED
    BY <2>1, <2>2, <2>3, <2>4, <2>5, <2>6 DEF CloseSession
<1> QED
  BY <1>3, <1>4

LEMMA NetTypes ==
  ASSUME TypeInv, Net, known' = known
  PROVE  DataTypes' /\ ThreadTypes'
<1> USE DEF TypeInv
<1>1. "net" \in Threads
  BY DEF Threads
<1>2. ASSUME UNCHANGED <<networkVars, historyVars>>, ready' \subseteq Handles
      PROVE  DataTypes'
  BY <1>2, DataStays DEF networkVars, historyVars, dataVars
<1>3. CASE Select
  BY <1>1, <1>2, <1>3, GotoTypes DEF Select, DataTypes, historyVars, NetLabels
<1>4. CASE LeaveRun
  BY <1>1, <1>2, <1>4, GotoTypes DEF LeaveRun, DataTypes, historyVars, NetLabels
<1>5. CASE Accept
  <2>1. PICK h \in Handles :
            /\ socket' = [socket EXCEPT ![h] = connectSeq + 1]
            /\ fd' = [fd EXCEPT !["net"] = h]
    BY <1>5 DEF Accept
  <2>2. connectSeq' \in Connections /\ Head(tags) \in Slots /\ tags' \in Seq(Slots)
    BY <1>5 DEF Accept, DataTypes, Connections
  <2>3. DataTypes'
    BY <1>5, <2>1, <2>2 DEF Accept, DataTypes, historyVars, Connections
  <2>4. ThreadTypes'
    BY <1>5, <2>1, <2>2, SlotFacts DEF Accept, ThreadTypes, Goto, Threads, NetLabels,
       CloseLabels, historyVars
  <2> QED
    BY <2>3, <2>4
<1>6. CASE ConnectedSession
  <2>1. fd["net"] \in Handles /\ connectSeq \in Connections \cup {Nobody}
    BY <1>6 DEF ConnectedSession, ThreadTypes, DataTypes, Connections, Nobody
  <2>2. DataTypes'
    BY <1>6, <2>1 DEF ConnectedSession, DataTypes, historyVars
  <2> QED
    BY <1>1, <1>6, <2>2, GotoTypes DEF ConnectedSession, historyVars, NetLabels
<1>7. CASE AnnounceConnect
  <2>1. connectSeq \in Connections \cup {Nobody}
    BY DEF DataTypes, Connections, Nobody
  <2>2. DataTypes'
    BY <1>7, <2>1, QueueTypes DEF AnnounceConnect, DataTypes, ThreadTypes, historyVars
  <2> QED
    BY <1>1, <1>7, <2>2, GotoTypes DEF AnnounceConnect, historyVars, NetLabels
<1>8. CASE NoMoreToAccept
  <2>1. DataTypes'
    BY <1>2, <1>8 DEF NoMoreToAccept, DataTypes
  <2>2. ThreadTypes'
    BY <1>8, SlotFacts DEF NoMoreToAccept, ThreadTypes, Goto, Threads, NetLabels,
       CloseLabels, historyVars
  <2> QED
    BY <2>1, <2>2
<1>9. CASE Serve
  <2>1. CASE IsConnected(slot["net"])
    <3>1. /\ fd' = [fd EXCEPT !["net"] = session[slot["net"]].fd]
          /\ \E label \in {"receive", "flush"} : Goto("net", label)
          /\ UNCHANGED <<slot, ready>>
      BY <1>9, <2>1 DEF Serve
    <3>2. session[slot["net"]].fd \in Handles
      BY <2>1, SocketFacts DEF ThreadTypes
    <3>3. ThreadTypes'
      BY <3>1, <3>2, <1>9 DEF Serve, ThreadTypes, Goto, Threads, NetLabels,
         CloseLabels, historyVars
    <3> QED
      BY <1>2, <1>9, <3>1, <3>3 DEF Serve, DataTypes
  <2>2. CASE ~IsConnected(slot["net"])
    BY <1>2, <1>9, <2>2, NextSlotTypes DEF Serve, historyVars
  <2> QED
    BY <2>1, <2>2
<1>10. CASE Receive \/ FrameEnds
  <2>1. PICK label \in {"frame", "flush", "test"} : Goto("net", label)
    BY <1>10 DEF Receive, FrameEnds
  <2>2. UNCHANGED <<networkVars, slot, fd, ready, historyVars>>
    BY <1>10 DEF Receive, FrameEnds
  <2>3. ThreadTypes'
    BY <1>1, <2>1, <2>2, GotoTypes DEF historyVars, NetLabels, CloseLabels
  <2> QED
    BY <1>2, <2>2, <2>3 DEF DataTypes
<1>13. CASE FramePacket
  <2> SUFFICES ASSUME NEW s, s = At("net"), NEW c, c = Sender(s)
               PROVE  DataTypes' /\ ThreadTypes'
    OBVIOUS
  <2>1. s \in Slots /\ c \in Connections \cup {Nobody}
    BY <1>1, AtSlot, SocketFacts DEF Sender
  <2>2. /\ UNCHANGED <<session, tags, readfds, connectSeq, socket, threadVars,
                       forced, overlapped, known>>
        /\ forged' = forged \/ forged' = forged \cup {s}
        /\ \/ queue' = Queued("PACKET", s, c)
           \/ \E id \in {"CONNECT", "CLOSE"} : queue' = Queued(id, s, Nobody)
    BY <1>13 DEF FramePacket
  <2>3. queue' \in Seq(Packet)
    BY <2>1, <2>2, QueueTypes DEF Nobody
  <2>4. DataTypes'
    BY <2>1, <2>2, <2>3 DEF DataTypes, threadVars
  <2> QED
    BY <2>2, <2>4 DEF ThreadTypes, threadVars
<1>11. CASE Flush
  <2>1. ready' \subseteq Handles /\ ThreadTypes'
    BY <1>1, <1>11, NextSlotTypes, GotoTypes DEF Flush, historyVars, CloseLabels, DataTypes
  <2> QED
    BY <1>2, <1>11, <2>1 DEF Flush
<1>12. CASE CloseSession("net")
  BY <1>1, <1>12, CloseTypes
<1> QED
  BY <1>3, <1>4, <1>5, <1>6, <1>7, <1>8, <1>9, <1>10, <1>11, <1>12,
     <1>13 DEF Net

LEMMA LogicTypes ==
  ASSUME TypeInv, Logic
  PROVE  DataTypes' /\ ThreadTypes'
<1> USE DEF TypeInv
<1>1. "logic" \in Threads
  BY DEF Threads
<1>2. ASSUME UNCHANGED <<networkVars, ready, historyVars>>, known' = known
      PROVE  DataTypes'
  BY <1>2, DataStays DEF networkVars, historyVars, dataVars, DataTypes
\* The moves that also set where LoginCheck is.
<1>3. ASSUME NEW label \in LogicLabels, NEW s \in Slots, Goto("logic", label),
             slot' = [slot EXCEPT !["logic"] = s], fd' = fd,
             forced \subseteq forced', label = "force" => s \in forced'
      PROVE  ThreadTypes'
  BY <1>3, SlotFacts DEF ThreadTypes, Goto, Threads, NetLabels, CloseLabels, LogicLabels
<1>4. CASE TestIsRun
  <2>1. PICK label \in {"get", "done"} : Goto("logic", label)
    BY <1>4 DEF TestIsRun
  <2>2. UNCHANGED <<networkVars, slot, fd, ready, historyVars, known>>
    BY <1>4 DEF TestIsRun, hostVars
  <2>3. ThreadTypes'
    BY <1>1, <2>1, <2>2, GotoTypes DEF LogicLabels, CloseLabels, historyVars
  <2> QED
    BY <1>2, <2>2, <2>3
<1>5. CASE Process
  <2>1. queue' \in Seq(Packet) /\ Head(queue) \in Packet
    BY <1>5 DEF Process, DataTypes
  <2>2. known' \subseteq Slots
    <3>1. Head(queue).session \in Slots
      BY <2>1 DEF Packet
    <3>2. \/ known' = known
          \/ known' = known \cup {Head(queue).session}
          \/ known' = known \ {Head(queue).session}
      BY <1>5, <2>1 DEF Process, Packet
    <3> QED
      BY <3>1, <3>2 DEF DataTypes
  <2>3. DataTypes'
    BY <1>5, <2>1, <2>2 DEF Process, DataTypes, historyVars
  <2>4. ThreadTypes'
    <3>1. CASE UNCHANGED <<pc, slot>>
      BY <1>5, <3>1 DEF Process, ThreadTypes, historyVars
    <3>2. CASE StartCheck
      BY <1>3, <1>5, <3>2, SlotFacts DEF Process, StartCheck, LogicLabels, historyVars
    <3> QED
      BY <1>5, <3>1, <3>2 DEF Process
  <2> QED
    BY <2>3, <2>4
<1>6. CASE QueueEmpty
  BY <1>2, <1>3, <1>6, SlotFacts DEF QueueEmpty, StartCheck, hostVars, LogicLabels, historyVars
<1>7. CASE ForcingClose
  <2>1. PICK s \in known :
            /\ slot' = [slot EXCEPT !["logic"] = s]
            /\ forced' = forced \cup {s}
            /\ overlapped' = overlapped \cup Overlap("logic", s)
    BY <1>7 DEF ForcingClose
  <2>2. s \in Slots /\ Overlap("logic", s) \subseteq {s}
    BY DEF DataTypes, Overlap
  <2>3. DataTypes'
    BY <1>7, <2>1, <2>2 DEF ForcingClose, DataTypes, networkVars, hostVars
  <2>4. ThreadTypes'
    BY <1>3, <1>7, <2>1, <2>2 DEF ForcingClose, LogicLabels
  <2> QED
    BY <2>3, <2>4
<1>8. CASE ReadSocketFD
  <2>1. session[slot["logic"]].fd \in Handles \cup {NoHandle}
    BY <1>8 DEF ReadSocketFD, DataTypes, ThreadTypes
  <2>2. ThreadTypes'
    BY <1>8, <2>1 DEF ReadSocketFD, ThreadTypes, Goto, Threads, NetLabels, CloseLabels,
       LogicLabels, historyVars
  <2> QED
    BY <1>2, <1>8, <2>2 DEF ReadSocketFD, hostVars
<1>9. CASE CheckDone
  BY <1>2, <1>3, <1>9, SlotFacts DEF CheckDone, hostVars, LogicLabels, historyVars
<1>10. CASE CloseSession("logic") /\ UNCHANGED hostVars
  BY <1>1, <1>10, CloseTypes DEF hostVars
<1> QED
  BY <1>4, <1>5, <1>6, <1>7, <1>8, <1>9, <1>10 DEF Logic

LEMMA OneThread ==
  ASSUME ThreadTypes, NEW t \in Threads, NEW label, Goto(t, label)
  PROVE  pc'[t] = label /\ \A o \in Threads \ {t} : pc'[o] = pc[o]
  BY DEF Goto, ThreadTypes

LEMMA MainNext ==
  ASSUME TypeInv, [Next]_vars
  PROVE  MainInv'
<1> USE DEF TypeInv, MainInv
<1>1. CASE Network
  <2>1. UNCHANGED main /\ pc["net"] # "off" /\ (pc' = pc \/ \E label : Goto("net", label))
    BY <1>1 DEF Network, Net, Select, LeaveRun, Accept, ConnectedSession, AnnounceConnect,
       NoMoreToAccept, Serve, Receive, FramePacket, FrameEnds, Flush, NextSlot, CloseSession, CloseTest, CloseSocket,
       FdClr, Clear, ReleaseTag, ReportClose, Return, hostVars, threadVars
  <2> QED
    BY <2>1, OneThread DEF Threads
<1>2. CASE Logic
  BY <1>2 DEF Logic, TestIsRun, Process, QueueEmpty, ForcingClose, ReadSocketFD, CheckDone,
     CloseSession, CloseTest, CloseSocket, FdClr, Clear, ReleaseTag, ReportClose, hostVars
<1>3. CASE Starting \/ Stop \/ Stopping \/ Ended \/ UNCHANGED vars
  <2>1. CASE InitNetwork
    BY <2>1, OneThread DEF InitNetwork, Threads
  <2>2. CASE ~InitNetwork
    BY <1>3, <2>2 DEF Starting, InitFails, StartLogic, Stop, Stopping, Release,
       Exit, Ended, vars, threadVars, hostVars
  <2> QED
    BY <2>1, <2>2
<1> QED
  BY <1>1, <1>2, <1>3 DEF Next

LEMMA TypeNext ==
  ASSUME TypeInv, [Next]_vars
  PROVE  TypeInv'
<1> SUFFICES DataTypes' /\ ThreadTypes'
  BY MainNext DEF TypeInv
<1>1. CASE Network
  BY <1>1, NetTypes DEF Network, hostVars
<1>2. CASE Logic
  BY <1>2, LogicTypes
<1>3. CASE Starting \/ Stop \/ Stopping \/ Ended \/ UNCHANGED vars
  <2> USE DEF TypeInv
  <2>1. DataTypes'
    BY <1>3 DEF Starting, InitNetwork, InitFails, StartLogic, Stop, Stopping, Release,
       Exit, Ended, vars, networkVars, threadVars, historyVars, hostVars, DataTypes
  <2>2. /\ UNCHANGED <<slot, fd, forced>>
        /\ pc' = pc \/ Goto("net", "select") \/ Goto("logic", "outer")
    BY <1>3 DEF Starting, InitNetwork, InitFails, StartLogic, Stop, Stopping, Release,
       Exit, Ended, vars, threadVars, historyVars
  <2>3. "net" \in Threads /\ "logic" \in Threads
    BY DEF Threads
  <2>4. ThreadTypes'
    <3>1. CASE pc' = pc
      BY <2>2, <3>1 DEF ThreadTypes
    <3>2. CASE Goto("net", "select") \/ Goto("logic", "outer")
      BY <2>2, <2>3, <3>2, GotoTypes DEF NetLabels, LogicLabels, CloseLabels
    <3> QED
      BY <2>2, <3>1, <3>2
  <2> QED
    BY <2>1, <2>4
<1> QED
  BY <1>1, <1>2, <1>3 DEF Next

LEMMA FlagTypesNext == FlagTypes /\ [Next]_vars => FlagTypes'
<1> SUFFICES ASSUME FlagTypes, [Next]_vars PROVE FlagTypes'
  OBVIOUS
<1>1. /\ isNetworkRunning' = isNetworkRunning \/ isNetworkRunning' = TRUE
             \/ isNetworkRunning' = FALSE
      /\ isRun' = isRun \/ isRun' = TRUE \/ isRun' = FALSE
  <2>1. CASE Network
    <3>1. UNCHANGED hostVars
      BY <2>1 DEF Network
    <3>2. UNCHANGED isNetworkRunning
      BY <2>1 DEF Network, Net, Select, LeaveRun, Accept, ConnectedSession, AnnounceConnect,
         NoMoreToAccept, Serve, Receive, FramePacket, FrameEnds, Flush, CloseSession, CloseTest, CloseSocket,
         FdClr, Clear, ReleaseTag, ReportClose, networkVars
    <3> QED
      BY <3>1, <3>2 DEF hostVars
  <2>2. CASE Logic
    BY <2>2 DEF Logic, TestIsRun, Process, QueueEmpty, ForcingClose, ReadSocketFD, CheckDone,
       CloseSession, CloseTest, CloseSocket, FdClr, Clear, ReleaseTag, ReportClose,
       networkVars, hostVars
  <2>3. CASE Starting \/ Stop \/ Stopping \/ Ended \/ UNCHANGED vars
    BY <2>3 DEF Starting, InitNetwork, InitFails, StartLogic, Stop, Stopping, Release,
       Exit, Ended, vars, networkVars, hostVars, NetworkRunsOn
  <2> QED
    BY <2>1, <2>2, <2>3 DEF Next
<1> QED
  BY <1>1 DEF FlagTypes

\* What the other invariants start from.
LEMMA TypesHold == Spec => [](TypeInv /\ FlagTypes)
<1>1. Init => TypeInv /\ FlagTypes
  BY TypeInit, FlagTypesInit
<1>2. TypeInv /\ FlagTypes /\ [Next]_vars => TypeInv' /\ FlagTypes'
  BY TypeNext, FlagTypesNext
<1> QED
  BY <1>1, <1>2, PTL DEF Spec

(* Every variable keeps its type: whatever the interleaving, each thread   *)
(* stays within its own part of the code, works on sessions of the pool,   *)
(* and goes to force a close only of a session recorded as forced.         *)
THEOREM ServerHostTypes == Spec => []ServerHostTypeOK
<1>1. TypeInv /\ FlagTypes => ServerHostTypeOK
  BY DEF TypeInv, DataTypes, ThreadTypes, FlagTypes, ServerHostTypeOK
<1> QED
  BY <1>1, TypesHold, PTL
-----------------------------------------------------------------------------
(* The kinds of steps there are as regards the sessions. In most a thread  *)
(* only moves between places where it holds nothing.                       *)

Holding == {"connect", "release"} \cup Closing

Free(t) ==
    IF t = "net" THEN {"off", "select", "accept", "serve", "receive", "frame",
                       "flush", "test", "done"}
    ELSE {"off", "outer", "get", "check", "done"}

SessionsSame == UNCHANGED <<session, tags, socket, connectSeq, forced, overlapped>>

Still == SessionsSame /\ UNCHANGED <<pc, slot, fd>>

Quiet(t) ==
    /\ SessionsSame
    /\ \A o \in Threads \ {t} : pc'[o] = pc[o] /\ slot'[o] = slot[o] /\ fd'[o] = fd[o]
    /\ pc[t] \notin Holding /\ pc'[t] \in Free(t)
    /\ t = "net" /\ pc'["net"] \in Serving =>
           \/ pc["net"] \in Serving /\ slot'["net"] = slot["net"] /\ fd'["net"] = fd["net"]
           \/ fd'["net"] = session[slot'["net"]].fd
    /\ t = "net" /\ pc'["net"] = "frame" =>
           slot'["net"] = slot["net"] /\ IsConnected(At("net"))

Enters(t) == CloseTest(t) /\ ToClose(At(t))

Kind ==
    \/ Still \/ Quiet("net") \/ Quiet("logic")
    \/ Accept \/ ConnectedSession \/ ForcingClose \/ ReadSocketFD
    \/ \E t \in Threads : \/ Enters(t) \/ CloseSocket(t) \/ FdClr(t)
                          \/ Clear(t) \/ ReleaseTag(t)

LEMMA ReturnQuiet ==
  ASSUME TypeInv, NEW t \in Threads, Return(t), SessionsSame,
         pc[t] \notin Holding
  PROVE  Quiet(t)
<1> USE DEF TypeInv, ThreadTypes, Threads, Return, Goto, Quiet, Free
<1>1. CASE t = "net"
  <2>1. pc'["net"] \in {"serve", "select"} /\ pc'["logic"] = pc["logic"]
        /\ slot'["logic"] = slot["logic"] /\ fd'["logic"] = fd["logic"]
    BY <1>1 DEF NextSlot
  <2> QED
    BY <1>1, <2>1 DEF Serving, Closing
<1>2. CASE t = "logic"
  BY <1>2
<1> QED
  BY <1>1, <1>2

LEMMA NetKinds ==
  ASSUME TypeInv, Net, ~CloseSession("net")
  PROVE  Still \/ Quiet("net") \/ Accept \/ ConnectedSession
<1> USE DEF TypeInv
<1>1. "net" \in Threads /\ Threads \ {"net"} = {"logic"}
  BY DEF Threads
<1>2. ASSUME NEW label \in Free("net"), Goto("net", label), SessionsSame,
             pc["net"] \notin Holding,
             (slot' = slot /\ fd' = fd) \/ label \notin Serving,
             label \in Serving => pc["net"] \in Serving,
             label = "frame" => IsConnected(At("net")),
             slot'["logic"] = slot["logic"], fd'["logic"] = fd["logic"]
      PROVE  Quiet("net")
  BY <1>1, <1>2, OneThread DEF Quiet, Serving
<1> USE DEF Free, Serving, Closing, Holding, SessionsSame
<1>3. CASE Select
  BY <1>2, <1>3 DEF Select, networkVars, historyVars
<1>4. CASE LeaveRun
  BY <1>2, <1>4 DEF LeaveRun, networkVars, historyVars
<1>5. CASE AnnounceConnect
  BY <1>2, <1>5 DEF AnnounceConnect, networkVars, historyVars
<1>6. CASE NoMoreToAccept
  BY <1>2, <1>6 DEF NoMoreToAccept, networkVars, historyVars, ThreadTypes, Threads
<1>7. CASE Serve
  <2>1. CASE IsConnected(slot["net"])
    <3>1. PICK label \in {"receive", "flush"} :
              /\ Goto("net", label)
              /\ fd' = [fd EXCEPT !["net"] = session[slot["net"]].fd]
              /\ slot' = slot
      BY <1>7, <2>1 DEF Serve
    <3>2. /\ fd'["logic"] = fd["logic"] /\ fd'["net"] = session[slot'["net"]].fd
      BY <3>1 DEF ThreadTypes, Threads
    <3> QED
      BY <1>1, <1>7, <3>1, <3>2, OneThread DEF Serve, Quiet, networkVars, historyVars
  <2>2. CASE ~IsConnected(slot["net"])
    <3>1. Return("net")
      BY <1>7, <2>2 DEF Serve, Return
    <3> QED
      BY <1>1, <1>7, <3>1, ReturnQuiet DEF Serve, networkVars, historyVars
  <2> QED
    BY <2>1, <2>2
<1>8. CASE Receive
  <2>1. CASE Sender(At("net")) # Nobody /\ Goto("net", "frame")
    BY <1>2, <1>8, <2>1 DEF Receive, Sender, networkVars, historyVars
  <2>2. CASE Goto("net", "test")
    BY <1>2, <1>8, <2>2 DEF Receive, networkVars, historyVars
  <2> QED
    BY <1>8, <2>1, <2>2 DEF Receive
<1>10. CASE FramePacket
  BY <1>10 DEF FramePacket, Still, threadVars
<1>11. CASE FrameEnds
  <2>1. PICK label \in {"flush", "test"} : Goto("net", label)
    BY <1>11 DEF FrameEnds
  <2> QED
    BY <1>2, <1>11, <2>1 DEF FrameEnds, networkVars, historyVars
<1>9. CASE Flush
  <2>1. CASE NextSlot
    BY <1>1, <1>9, <2>1, ReturnQuiet DEF Flush, networkVars, historyVars, Return
  <2>2. CASE Goto("net", "test") /\ UNCHANGED <<slot, fd, ready>>
    BY <1>2, <1>9, <2>2 DEF Flush, networkVars, historyVars
  <2> QED
    BY <1>9, <2>1, <2>2 DEF Flush
<1> QED
  BY <1>3, <1>4, <1>5, <1>6, <1>7, <1>8, <1>9, <1>10, <1>11 DEF Net

LEMMA LogicKinds ==
  ASSUME TypeInv, Logic, ~CloseSession("logic")
  PROVE  Still \/ Quiet("logic") \/ ForcingClose \/ ReadSocketFD
<1> USE DEF TypeInv
<1>1. "logic" \in Threads /\ Threads \ {"logic"} = {"net"}
  BY DEF Threads
<1>2. ASSUME NEW label \in Free("logic"), Goto("logic", label), SessionsSame,
             pc["logic"] \notin Holding,
             slot'["net"] = slot["net"], fd' = fd
      PROVE  Quiet("logic")
  BY <1>1, <1>2, OneThread DEF Quiet
<1>3. ASSUME StartCheck, SessionsSame, pc["logic"] = "get", fd' = fd
      PROVE  Quiet("logic")
  BY <1>2, <1>3 DEF StartCheck, Free, Holding, Closing, ThreadTypes, Threads
<1> USE DEF Free, Closing, Holding, SessionsSame
<1>4. CASE TestIsRun
  <2>1. PICK label \in {"get", "done"} : Goto("logic", label)
    BY <1>4 DEF TestIsRun
  <2> QED
    BY <1>2, <1>4, <2>1 DEF TestIsRun, networkVars, historyVars
<1>5. CASE Process
  <2>1. CASE UNCHANGED <<pc, slot>>
    BY <1>5, <2>1 DEF Process, Still, historyVars
  <2>2. CASE StartCheck
    BY <1>3, <1>5, <2>2 DEF Process, historyVars
  <2> QED
    BY <1>5, <2>1, <2>2 DEF Process
<1>6. CASE QueueEmpty
  BY <1>3, <1>6 DEF QueueEmpty, networkVars, historyVars
<1>7. CASE CheckDone
  BY <1>2, <1>7 DEF CheckDone, networkVars, historyVars, ThreadTypes, Threads
<1> QED
  BY <1>4, <1>5, <1>6, <1>7 DEF Logic

LEMMA CloseKinds ==
  ASSUME TypeInv, NEW t \in Threads, CloseSession(t)
  PROVE  \/ Quiet(t) \/ Enters(t) \/ CloseSocket(t) \/ FdClr(t)
         \/ Clear(t) \/ ReleaseTag(t)
<1>1. CASE ReportClose(t)
  BY <1>1, ReturnQuiet DEF ReportClose, SessionsSame, historyVars, Holding, Closing
<1>2. CASE CloseTest(t) /\ ~ToClose(At(t))
  BY <1>2, ReturnQuiet DEF CloseTest, SessionsSame, networkVars, Holding, Closing
<1> QED
  BY <1>1, <1>2 DEF CloseSession, Enters

LEMMA MainKinds ==
  ASSUME TypeInv, Starting \/ Stop \/ Stopping \/ Ended \/ UNCHANGED vars
  PROVE  Still \/ Quiet("net") \/ Quiet("logic")
<1>1. /\ SessionsSame /\ UNCHANGED <<slot, fd>>
      /\ pc' = pc \/ (pc["net"] = "off" /\ Goto("net", "select"))
             \/ (pc["logic"] = "off" /\ Goto("logic", "outer"))
  BY DEF Starting, InitNetwork, InitFails, StartLogic, Stop, Stopping, Release,
     Exit, Ended, vars, threadVars, networkVars, historyVars, SessionsSame, TypeInv, MainInv
<1> QED
  BY <1>1, OneThread DEF TypeInv, Threads, Still, Quiet, Free, Serving, Closing, Holding

LEMMA Kinds == TypeInv /\ [Next]_vars => Kind
<1> SUFFICES ASSUME TypeInv, [Next]_vars PROVE Kind
  OBVIOUS
<1>1. CASE Network
  BY <1>1, NetKinds, CloseKinds DEF Network, Kind, Threads
<1>2. CASE Logic
  BY <1>2, LogicKinds, CloseKinds DEF Kind, Threads
<1>3. CASE Starting \/ Stop \/ Stopping \/ Ended \/ UNCHANGED vars
  BY <1>3, MainKinds DEF Kind
<1> QED
  BY <1>1, <1>2, <1>3 DEF Next
-----------------------------------------------------------------------------
(* Who holds a session.                                                    *)

HoldInv == SeqInv /\ CloseInv /\ TagInv /\ OpenInv

\* A step after which every session is held by whoever held it.
Calm ==
    /\ UNCHANGED <<session, tags, connectSeq>>
    /\ forced \subseteq forced' /\ overlapped \subseteq overlapped'
    /\ \A s \in Slots \ overlapped', t \in Threads : WithinClose(t, s)' => WithinClose(t, s)
    /\ \A t \in Threads : (pc'[t] = "release") <=> (pc[t] = "release")
    /\ \A t \in Threads : pc[t] = "release" => At(t)' = At(t)
    /\ (pc'["net"] = "connect") <=> (pc["net"] = "connect")
    /\ pc'["net"] \in {"announce", "report"} => pc'["net"] = pc["net"]
    /\ pc'["net"] \in {"connect", "announce", "report"} => slot'["net"] = slot["net"]
    /\ pc'["net"] = "frame" =>
           slot'["net"] = slot["net"] /\ (pc["net"] = "frame" \/ IsConnected(At("net")))

LEMMA CalmStep ==
  ASSUME TypeInv, HoldInv, Calm
  PROVE  HoldInv'
<1> USE DEF Calm, HoldInv
<1>1. \A s : IsConnected(s)' <=> IsConnected(s)
  BY DEF IsConnected
<1>2. \A s : Held(s)' <=> Held(s)
  BY <1>1 DEF Held
<1>3. SeqInv'
  BY <1>1 DEF SeqInv
<1>4. CloseInv'
  BY <1>1 DEF CloseInv, Threads
<1>5. TagInv'
  BY <1>2 DEF TagInv
<1>6. OpenInv'
  BY <1>1 DEF OpenInv, At, Index, Threads
<1> QED
  BY <1>3, <1>4, <1>5, <1>6

LEMMA CalmKinds ==
  ASSUME TypeInv, 
         \/ Still \/ Quiet("net") \/ Quiet("logic") \/ ReadSocketFD
         \/ \E t \in Threads : CloseSocket(t) \/ FdClr(t)
  PROVE  Calm
<1> USE DEF TypeInv
<1>1. CASE Still
  BY <1>1 DEF Still, SessionsSame, Calm, WithinClose, At
<1>2. ASSUME NEW t \in Threads, Quiet(t) PROVE Calm
  <2>1. CASE t = "net"
    <3>1. pc'["net"] \in Free("net") /\ pc["net"] \notin Holding
          /\ pc'["logic"] = pc["logic"] /\ slot'["logic"] = slot["logic"] /\ SessionsSame
          /\ (pc'["net"] = "frame" => slot'["net"] = slot["net"] /\ IsConnected(At("net")))
      BY <1>2, <2>1 DEF Quiet, Threads
    <3> QED
      BY <3>1 DEF SessionsSame, Calm, WithinClose, At, Free, Holding, Threads
  <2>2. CASE t = "logic"
    <3>1. pc'["logic"] \in Free("logic") /\ pc["logic"] \notin Holding
          /\ pc'["net"] = pc["net"] /\ slot'["net"] = slot["net"] /\ SessionsSame
      BY <1>2, <2>2 DEF Quiet, Threads
    <3> QED
      BY <3>1 DEF SessionsSame, Calm, WithinClose, At, Free, Holding, Threads
  <2> QED
    BY <2>1, <2>2 DEF Threads
<1>3. ASSUME NEW t \in Threads, NEW label, Goto(t, label),
             UNCHANGED <<session, tags, connectSeq, slot, forced, overlapped>>,
             \/ t = "logic" /\ pc["logic"] = "force" /\ label = "test"
             \/ pc[t] = "closesocket" /\ label = "fdclr"
             \/ pc[t] = "fdclr" /\ label = "clear"
      PROVE  Calm
  <2>1. pc'[t] = label /\ \A o \in Threads \ {t} : pc'[o] = pc[o]
    BY <1>3, OneThread
  <2>2. \A o \in Threads : At(o)' = At(o)
    BY <1>3 DEF At, Index
  <2>3. \A s : \A o \in Threads : WithinClose(o, s)' => WithinClose(o, s)
    BY <1>3, <2>1, <2>2 DEF WithinClose
  <2> QED
    BY <1>3, <2>1, <2>2, <2>3 DEF Calm, Threads
<1>4. CASE ReadSocketFD
  BY <1>3, <1>4 DEF ReadSocketFD, networkVars, historyVars, Threads
<1>5. ASSUME NEW t \in Threads, CloseSocket(t) \/ FdClr(t) PROVE Calm
  BY <1>3, <1>5 DEF CloseSocket, FdClr, historyVars
<1> QED
  BY <1>1, <1>2, <1>4, <1>5 DEF Threads

LEMMA TailFacts ==
  ASSUME NEW S, NEW q \in Seq(S), q # <<>>
  PROVE  /\ Head(q) = q[1] /\ Head(q) \in S /\ Tail(q) \in Seq(S)
         /\ Len(q) \in Nat \ {0} /\ DOMAIN q = 1 .. Len(q)
         /\ DOMAIN Tail(q) = 1 .. Len(q) - 1 /\ Len(Tail(q)) = Len(q) - 1
         /\ \A i \in DOMAIN Tail(q) : Tail(q)[i] = q[i + 1] /\ i + 1 \in DOMAIN q
         /\ \A i \in DOMAIN q : i = 1 \/ (i - 1 \in DOMAIN Tail(q) /\ Tail(q)[i - 1] = q[i])
  OBVIOUS

LEMMA AppendFacts ==
  ASSUME NEW S, NEW q \in Seq(S), NEW e \in S
  PROVE  /\ Append(q, e) \in Seq(S) /\ Len(q) \in Nat
         /\ DOMAIN q = 1 .. Len(q) /\ DOMAIN Append(q, e) = 1 .. Len(q) + 1
         /\ Len(Append(q, e)) = Len(q) + 1
         /\ Append(q, e)[Len(q) + 1] = e
         /\ \A i \in DOMAIN q : Append(q, e)[i] = q[i]
  OBVIOUS

LEMMA AcceptHolds ==
  ASSUME TypeInv, HoldInv, Accept
  PROVE  HoldInv'
<1> USE DEF HoldInv
<1> DEFINE a == Head(tags)
<1>1. /\ tags # <<>> /\ tags' = Tail(tags) /\ connectSeq' = connectSeq + 1
      /\ UNCHANGED <<session, forced, overlapped>>
      /\ pc["net"] = "accept"
  BY DEF Accept, historyVars
<1>2. pc'["net"] = "connect" /\ pc'["logic"] = pc["logic"]
      /\ slot'["net"] = a /\ slot'["logic"] = slot["logic"]
  BY DEF Accept, Goto, TypeInv, ThreadTypes, Threads
<1>3. /\ a = tags[1] /\ a \in Slots /\ 1 \in DOMAIN tags /\ connectSeq \in Nat
  BY <1>1, TailFacts DEF TypeInv, DataTypes
<1> HIDE DEF a
<1>4. \A s : IsConnected(s)' <=> IsConnected(s)
  BY <1>1 DEF IsConnected
<1>5. a \notin overlapped => ~Held(a)
  BY <1>3 DEF TagInv
<1>6. At("logic")' = At("logic")
  BY <1>2 DEF At
<1>7. \A s : Held(s)' <=> Held(s) \/ s = a
  BY <1>1, <1>2, <1>4, <1>6 DEF Held, Threads
<1>8. SeqInv'
  BY <1>1, <1>3, <1>4 DEF SeqInv, TypeInv
<1>9. CloseInv'
  <2>1. \A s : ~WithinClose("net", s)' /\ (WithinClose("logic", s)' <=> WithinClose("logic", s))
    BY <1>2, <1>6 DEF WithinClose
  <2> QED
    BY <1>1, <1>2, <1>4, <1>5, <1>6, <2>1 DEF CloseInv, Threads, Held
<1>10. TagInv'
  <2> SUFFICES ASSUME NEW s \in Slots \ overlapped
               PROVE  /\ \A i \in DOMAIN tags' : tags'[i] = s => ~Held(s)'
                      /\ Held(s)' \/ \E i \in DOMAIN tags' : tags'[i] = s
                      /\ \A i, j \in DOMAIN tags' : tags'[i] = s /\ tags'[j] = s => i = j
    BY <1>1 DEF TagInv
  <2>1. tags \in Seq(Slots) /\ Len(tags) \in Nat /\ DOMAIN tags = 1 .. Len(tags)
    BY DEF TypeInv, DataTypes
  <2>2. /\ \A i \in DOMAIN tags' : tags'[i] = tags[i + 1] /\ i + 1 \in DOMAIN tags /\ i \in Nat \ {0}
        /\ \A i \in DOMAIN tags : i = 1 \/ (i - 1 \in DOMAIN tags' /\ tags'[i - 1] = tags[i])
    BY <1>1, <2>1, TailFacts
  <2>3. \A i \in DOMAIN tags' : tags'[i] = s => s # a
    <3> SUFFICES ASSUME NEW i \in DOMAIN tags', tags'[i] = s, s = a PROVE FALSE
      OBVIOUS
    <3>1. i + 1 = 1
      BY <1>3, <2>2 DEF TagInv
    <3> QED
      BY <2>1, <2>2, <3>1
  <2>4. \A i, j \in DOMAIN tags' : tags'[i] = s /\ tags'[j] = s => i = j
    <3> SUFFICES ASSUME NEW i \in DOMAIN tags', NEW j \in DOMAIN tags', tags'[i] = s, tags'[j] = s
                 PROVE  i = j
      OBVIOUS
    <3>1. i + 1 = j + 1
      BY <2>2 DEF TagInv
    <3> QED
      BY <2>2, <3>1
  <2>5. Held(s)' \/ \E i \in DOMAIN tags' : tags'[i] = s
    BY <1>3, <1>7, <2>2 DEF TagInv
  <2>6. \A i \in DOMAIN tags' : tags'[i] = s => ~Held(s)'
    BY <1>7, <2>2, <2>3 DEF TagInv
  <2> QED
    BY <2>4, <2>5, <2>6
<1>11. OpenInv'
  BY <1>2 DEF OpenInv
<1> QED
  BY <1>8, <1>9, <1>10, <1>11

LEMMA ConnectedSessionHolds ==
  ASSUME TypeInv, HoldInv, ConnectedSession
  PROVE  HoldInv'
<1> USE DEF HoldInv
<1> SUFFICES ASSUME NEW a, a = slot["net"] PROVE HoldInv'
  OBVIOUS
<1>1. /\ UNCHANGED <<tags, connectSeq, slot, forced, overlapped>>
      /\ pc["net"] = "connect"
  BY DEF ConnectedSession, historyVars
<1>2. pc'["net"] = "announce" /\ pc'["logic"] = pc["logic"]
  BY DEF ConnectedSession, Goto, TypeInv, ThreadTypes, Threads
<1>3. /\ a \in Slots /\ IsConnected(a)' /\ session'[a].seq = connectSeq
      /\ \A s \in Slots : s # a => session'[s] = session[s] /\ (IsConnected(s)' <=> IsConnected(s))
  <2>1. a \in Slots /\ fd["net"] \in Handles /\ fd["net"] # NoHandle
    BY <1>1 DEF TypeInv, ThreadTypes
  <2>2. session' = [session EXCEPT ![a] = [seq |-> connectSeq, fd |-> fd["net"]]]
    BY DEF ConnectedSession
  <2> QED
    BY <2>1, <2>2 DEF TypeInv, DataTypes, IsConnected
<1>4. At("logic")' = At("logic")
  BY <1>1 DEF At
<1>5. a \notin overlapped =>
          /\ ~IsConnected(a) /\ ~WithinClose("logic", a)
          /\ ~(pc["logic"] = "release" /\ At("logic") = a)
  BY <1>1, <1>3 DEF CloseInv, Threads
<1>6. SeqInv'
  BY <1>1, <1>2, <1>3 DEF SeqInv, TypeInv, DataTypes
<1>7. CloseInv'
  <2>1. \A s : ~WithinClose("net", s)' /\ (WithinClose("logic", s)' <=> WithinClose("logic", s))
    BY <1>2, <1>4 DEF WithinClose
  <2> QED
    BY <1>1, <1>2, <1>3, <1>4, <1>5, <2>1 DEF CloseInv, Threads
<1>8. TagInv'
  <2>1. \A s \in Slots \ overlapped : Held(s)' <=> Held(s)
    BY <1>1, <1>2, <1>3, <1>4 DEF Held, Threads
  <2> QED
    BY <1>1, <2>1 DEF TagInv
<1>9. OpenInv'
  BY <1>1, <1>2, <1>3 DEF OpenInv
<1> QED
  BY <1>6, <1>7, <1>8, <1>9

\* ForcingClose, and closeSession past its test.
LEMMA EnterHolds ==
  ASSUME TypeInv, HoldInv, NEW t \in Threads, NEW s \in Slots, IsConnected(s),
         UNCHANGED <<session, tags, connectSeq>>, forced \subseteq forced',
         overlapped' = overlapped \cup Overlap(t, s),
         pc[t] \notin {"connect", "release"},
         pc'[t] \in {"closesocket", "force"},
         At(t)' = s, t = "net" => pc'[t] = "closesocket" /\ slot' = slot,
         \A o \in Threads \ {t} : pc'[o] = pc[o] /\ slot'[o] = slot[o] /\ At(o)' = At(o)
  PROVE  HoldInv'
<1> USE DEF HoldInv
<1>1. \A x : IsConnected(x)' <=> IsConnected(x)
  BY DEF IsConnected
<1>2. \A x : Held(x)' <=> Held(x)
  <2>1. \A o \in Threads : pc'[o] = "release" <=> pc[o] = "release"
    OBVIOUS
  <2>2. \A o \in Threads : pc[o] = "release" => At(o)' = At(o)
    OBVIOUS
  <2>3. pc'["net"] = "connect" <=> pc["net"] = "connect"
    BY DEF Threads
  <2>4. slot'["net"] = slot["net"]
    BY DEF Threads
  <2> QED
    BY <1>1, <2>1, <2>2, <2>3, <2>4 DEF Held
<1>3. SeqInv'
  BY <1>1 DEF SeqInv, Threads
<1>4. CloseInv'
  <2> SUFFICES ASSUME NEW x \in Slots \ overlapped'
               PROVE  /\ ~(WithinClose("net", x)' /\ WithinClose("logic", x)')
                      /\ \A o \in Threads : WithinClose(o, x)' => IsConnected(x)
                      /\ pc'["net"] = "connect" /\ slot'["net"] = x => ~IsConnected(x)
                      /\ \A o \in Threads :
                             pc'[o] = "release" /\ At(o)' = x =>
                                 /\ ~IsConnected(x)
                                 /\ ~(pc'["net"] = "connect" /\ slot'["net"] = x)
                      /\ ~(\A o \in Threads : pc'[o] = "release" /\ At(o)' = x)
    BY <1>1 DEF CloseInv
  <2>1. \A o \in Threads \ {t} : WithinClose(o, x)' <=> WithinClose(o, x)
    BY DEF WithinClose
  <2>2. WithinClose(t, x)' => x = s
    BY DEF WithinClose
  <2>3. x = s => \A o \in Threads \ {t} : ~WithinClose(o, x)
    BY DEF Overlap
  <2>4. x \in Slots \ overlapped
    OBVIOUS
  <2>5. ~(WithinClose("net", x)' /\ WithinClose("logic", x)')
    BY <2>1, <2>2, <2>3 DEF Threads
  <2>6. \A o \in Threads : WithinClose(o, x)' => IsConnected(x)
    BY <2>1, <2>2, <2>4 DEF CloseInv
  <2> QED
    BY <2>4, <2>5, <2>6 DEF CloseInv, Threads
<1>5. TagInv'
  BY <1>2 DEF TagInv
<1>6. OpenInv'
  <2>1. CASE t = "net"
    BY <2>1 DEF OpenInv, Threads
  <2>2. CASE t = "logic"
    BY <1>1, <2>2 DEF OpenInv, Threads
  <2> QED
    BY <2>1, <2>2 DEF Threads
<1> QED
  BY <1>3, <1>4, <1>5, <1>6

LEMMA ForcingCloseHolds ==
  ASSUME TypeInv, HoldInv, ForcingClose
  PROVE  HoldInv'
<1>1. PICK s \in known :
          /\ IsConnected(s)
          /\ slot' = [slot EXCEPT !["logic"] = s]
          /\ forced' = forced \cup {s}
          /\ overlapped' = overlapped \cup Overlap("logic", s)
  BY DEF ForcingClose
<1>2. s \in Slots
  BY DEF TypeInv, DataTypes
<1>3. pc'["logic"] = "force" /\ pc'["net"] = pc["net"] /\ pc["logic"] = "check"
  BY DEF ForcingClose, Goto, TypeInv, ThreadTypes, Threads
<1>4. At("logic")' = s /\ At("net")' = At("net") /\ slot'["net"] = slot["net"]
  BY <1>1 DEF At, Index, TypeInv, ThreadTypes, Threads
<1>5. UNCHANGED <<session, tags, connectSeq>>
  BY DEF ForcingClose, networkVars
<1> QED
  BY <1>1, <1>2, <1>3, <1>4, <1>5, EnterHolds DEF Threads

LEMMA EntersHolds ==
  ASSUME TypeInv, HoldInv, NEW t \in Threads, Enters(t)
  PROVE  HoldInv'
<1> SUFFICES ASSUME NEW s, s = At(t) PROVE HoldInv'
  OBVIOUS
<1>1. /\ pc[t] = "test" /\ Goto(t, "closesocket") /\ UNCHANGED <<slot, forced>>
      /\ IsConnected(s) /\ overlapped' = overlapped \cup Overlap(t, s)
      /\ UNCHANGED <<session, tags, connectSeq>>
  BY DEF Enters, CloseTest, ToClose, networkVars
<1>2. s \in Slots
  BY <1>1, AtSlot DEF CloseLabels
<1>3. pc'[t] = "closesocket" /\ \A o \in Threads \ {t} : pc'[o] = pc[o]
  BY <1>1, OneThread DEF TypeInv
<1>4. \A o \in Threads : At(o)' = At(o) /\ slot'[o] = slot[o]
  BY <1>1 DEF At, Index
<1> QED
  BY <1>1, <1>2, <1>3, <1>4, EnterHolds

LEMMA ClearHolds ==
  ASSUME TypeInv, HoldInv, NEW t \in Threads, Clear(t)
  PROVE  HoldInv'
<1> USE DEF HoldInv
<1> SUFFICES ASSUME NEW a, a = At(t) PROVE HoldInv'
  OBVIOUS
<1>1. /\ pc[t] = "clear" /\ Goto(t, "release")
      /\ UNCHANGED <<slot, tags, connectSeq, forced, overlapped>>
      /\ session' = [session EXCEPT ![a] = NotConnected]
  BY DEF Clear, Cleared, historyVars
<1>2. a \in Slots /\ (t = "logic" => a \in forced)
  BY <1>1, AtSlot DEF CloseLabels, TypeInv, ThreadTypes, At
<1>3. pc'[t] = "release" /\ \A o \in Threads \ {t} : pc'[o] = pc[o]
  BY <1>1, OneThread DEF TypeInv
<1>4. \A o \in Threads : At(o)' = At(o) /\ slot'[o] = slot[o]
  BY <1>1 DEF At, Index
<1>5. /\ ~IsConnected(a)'
      /\ \A s \in Slots : IsConnected(s)' => s # a /\ IsConnected(s)
      /\ \A s \in Slots : s # a => session'[s] = session[s] /\ (IsConnected(s)' <=> IsConnected(s))
  BY <1>1, <1>2 DEF TypeInv, DataTypes, IsConnected, NotConnected
<1>6. WithinClose(t, a)
  BY <1>1 DEF WithinClose
<1>7. a \notin overlapped =>
          /\ IsConnected(a)
          /\ \A o \in Threads \ {t} : ~WithinClose(o, a) /\ ~(pc[o] = "release" /\ At(o) = a)
          /\ ~(pc["net"] = "connect" /\ slot["net"] = a)
  BY <1>2, <1>6 DEF CloseInv, Threads
<1>8. SeqInv'
  BY <1>1, <1>3, <1>5 DEF SeqInv, Threads
<1>9. CloseInv'
  <2> SUFFICES ASSUME NEW x \in Slots \ overlapped
               PROVE  /\ ~(WithinClose("net", x)' /\ WithinClose("logic", x)')
                      /\ \A o \in Threads : WithinClose(o, x)' => IsConnected(x)'
                      /\ pc'["net"] = "connect" /\ slot'["net"] = x => ~IsConnected(x)'
                      /\ \A o \in Threads :
                             pc'[o] = "release" /\ At(o)' = x =>
                                 /\ ~IsConnected(x)'
                                 /\ ~(pc'["net"] = "connect" /\ slot'["net"] = x)
                      /\ ~(\A o \in Threads : pc'[o] = "release" /\ At(o)' = x)
    BY <1>1 DEF CloseInv
  <2>1. \A o \in Threads : WithinClose(o, x)' => WithinClose(o, x) /\ o # t
    BY <1>3, <1>4 DEF WithinClose
  <2>2. CASE x = a
    BY <1>1, <1>3, <1>4, <1>5, <1>7, <2>1, <2>2 DEF Threads
  <2>3. CASE x # a
    BY <1>1, <1>3, <1>4, <1>5, <2>1, <2>3 DEF Threads, CloseInv
  <2> QED
    BY <2>2, <2>3
<1>10. TagInv'
  <2>1. \A s \in Slots \ overlapped : Held(s)' <=> Held(s)
    <3> SUFFICES ASSUME NEW s \in Slots \ overlapped PROVE Held(s)' <=> Held(s)
      OBVIOUS
    <3>1. CASE s = a
      <4>1. Held(s)
        BY <1>7, <3>1 DEF Held
      <4>2. Held(s)'
        BY <1>3, <1>4, <3>1 DEF Held
      <4> QED
        BY <4>1, <4>2
    <3>2. CASE s # a
      <4>1. \A o \in Threads : pc'[o] = "release" /\ At(o)' = s <=> pc[o] = "release" /\ At(o) = s
        BY <1>3, <1>4, <3>2, <1>1
      <4>2. pc'["net"] = "connect" <=> pc["net"] = "connect"
        BY <1>1, <1>3 DEF Threads
      <4> QED
        BY <1>1, <1>5, <3>2, <4>1, <4>2 DEF Held
    <3> QED
      BY <3>1, <3>2
  <2> QED
    BY <1>1, <2>1 DEF TagInv
<1>11. OpenInv'
  <2>1. CASE t = "net"
    BY <1>3, <1>4, <1>5, <2>1 DEF OpenInv, Threads
  <2>2. CASE t = "logic"
    <3>1. pc'["net"] = pc["net"] /\ slot'["net"] = slot["net"] /\ At("net")' = At("net")
          /\ slot["net"] \in Slots /\ At("net") \in Slots
      BY <1>3, <1>4, <2>2, AtSlot DEF Threads, TypeInv, ThreadTypes
    <3> QED
      BY <1>1, <1>2, <1>5, <2>2, <3>1 DEF OpenInv
  <2> QED
    BY <2>1, <2>2 DEF Threads
<1> QED
  BY <1>8, <1>9, <1>10, <1>11

LEMMA ReleaseTagHolds ==
  ASSUME TypeInv, HoldInv, NEW t \in Threads, ReleaseTag(t)
  PROVE  HoldInv'
<1> USE DEF HoldInv
<1> SUFFICES ASSUME NEW a, a = At(t) PROVE HoldInv'
  OBVIOUS
<1>1. /\ pc[t] = "release" /\ Goto(t, "report") /\ tags' = Append(tags, a)
      /\ UNCHANGED <<session, slot, connectSeq, forced, overlapped>>
  BY DEF ReleaseTag, historyVars
<1>2. a \in Slots
  BY <1>1, AtSlot DEF CloseLabels
<1>3. pc'[t] = "report" /\ \A o \in Threads \ {t} : pc'[o] = pc[o]
  BY <1>1, OneThread DEF TypeInv
<1>4. \A o \in Threads : At(o)' = At(o) /\ slot'[o] = slot[o]
  BY <1>1 DEF At, Index
<1>5. \A s : IsConnected(s)' <=> IsConnected(s)
  BY <1>1 DEF IsConnected
<1>6. a \notin overlapped =>
          /\ ~IsConnected(a)
          /\ \A o \in Threads \ {t} : ~(pc[o] = "release" /\ At(o) = a)
          /\ ~(pc["net"] = "connect" /\ slot["net"] = a)
          /\ Held(a)
  BY <1>1, <1>2 DEF CloseInv, Threads, Held
<1>7. \A o \in Threads : (pc'[o] = "release") <=> (pc[o] = "release" /\ o # t)
  BY <1>3
<1>8. pc'["net"] = "connect" <=> pc["net"] = "connect"
  BY <1>1, <1>3 DEF Threads
<1>9. SeqInv'
  BY <1>1, <1>5, <1>8 DEF SeqInv
<1>10. CloseInv'
  <2>1. \A s : \A o \in Threads : WithinClose(o, s)' => WithinClose(o, s)
    BY <1>3, <1>4 DEF WithinClose
  <2> QED
    BY <1>1, <1>4, <1>5, <1>7, <1>8, <2>1 DEF CloseInv, Threads
<1>11. a \notin overlapped => ~Held(a)'
  BY <1>4, <1>5, <1>6, <1>7, <1>8 DEF Held, Threads
<1>12. \A s \in Slots : s # a => (Held(s)' <=> Held(s))
  BY <1>1, <1>4, <1>5, <1>7, <1>8 DEF Held, Threads
<1>13. TagInv'
  <2> SUFFICES ASSUME NEW s \in Slots \ overlapped
               PROVE  /\ \A i \in DOMAIN tags' : tags'[i] = s => ~Held(s)'
                      /\ Held(s)' \/ \E i \in DOMAIN tags' : tags'[i] = s
                      /\ \A i, j \in DOMAIN tags' : tags'[i] = s /\ tags'[j] = s => i = j
    BY <1>1 DEF TagInv
  <2>1. /\ Len(tags) \in Nat /\ DOMAIN tags = 1 .. Len(tags)
        /\ DOMAIN tags' = 1 .. Len(tags) + 1 /\ tags'[Len(tags) + 1] = a
        /\ \A i \in DOMAIN tags : tags'[i] = tags[i]
    BY <1>1, <1>2, AppendFacts DEF TypeInv, DataTypes
  <2>2. CASE s = a
    <3>1. \A i \in DOMAIN tags : tags[i] # s
      BY <1>6, <2>2 DEF TagInv
    <3>2. \A i \in DOMAIN tags' : tags'[i] = s <=> i = Len(tags) + 1
      BY <2>1, <2>2, <3>1
    <3> QED
      BY <1>11, <2>1, <2>2, <3>2
  <2>3. CASE s # a
    <3>1. \A i \in DOMAIN tags' : tags'[i] = s => i \in DOMAIN tags /\ tags[i] = s
      BY <2>1, <2>3
    <3>2. Held(s) \/ \E i \in DOMAIN tags : tags[i] = s
      BY DEF TagInv
    <3>3. Held(s)' \/ \E i \in DOMAIN tags' : tags'[i] = s
      BY <1>12, <2>1, <2>3, <3>2
    <3> QED
      BY <1>12, <2>3, <3>1, <3>3 DEF TagInv
  <2> QED
    BY <2>2, <2>3
<1>14. OpenInv'
  BY <1>1, <1>3, <1>4, <1>5 DEF OpenInv, Threads
<1> QED
  BY <1>9, <1>10, <1>13, <1>14

LEMMA HoldInit == Init => HoldInv
<1> SUFFICES ASSUME Init PROVE HoldInv
  OBVIOUS
<1>1. \A s \in Slots : ~IsConnected(s)
  BY DEF Init, TcpNetworkInit, IsConnected, NotConnected
<1>2. \A t \in Threads : pc[t] = "off"
  BY DEF Init
<1>3. \A s \in Slots : ~Held(s)
  BY <1>1, <1>2 DEF Held, Threads
<1>4. TagInv
  <2>1. \A i \in 1 .. PoolSize : tags[i] = i - 1
    BY DEF Init, TcpNetworkInit
  <2>2. DOMAIN tags = 1 .. PoolSize
    BY DEF Init, TcpNetworkInit
  <2>3. \A s \in Slots : s + 1 \in 1 .. PoolSize /\ (s + 1) - 1 = s
    BY DEF Slots
  <2> QED
    BY <1>3, <2>1, <2>2, <2>3 DEF TagInv
<1> QED
  BY <1>1, <1>2, <1>4 DEF HoldInv, SeqInv, CloseInv, OpenInv, Threads, WithinClose

LEMMA HoldNext == TypeInv /\ HoldInv /\ [Next]_vars => HoldInv'
  BY Kinds, CalmKinds, CalmStep, AcceptHolds, ConnectedSessionHolds, ForcingCloseHolds,
     EntersHolds, ClearHolds, ReleaseTagHolds DEF Kind

LEMMA HoldsAlways == Spec => [](TypeInv /\ HoldInv)
<1>1. Init => TypeInv /\ HoldInv
  BY TypeInit, HoldInit
<1>2. TypeInv /\ HoldInv /\ [Next]_vars => TypeInv' /\ HoldInv'
  BY TypeNext, HoldNext
<1> QED
  BY <1>1, <1>2, PTL DEF Spec

LEMMA TagsCounted ==
  ASSUME TypeInv, HoldInv
  PROVE  TagsExact
<1> SUFFICES ASSUME NEW s \in Slots \ overlapped
             PROVE  Tagged(s) = (IF Held(s) THEN 0 ELSE 1)
  BY DEF TagsExact
<1> DEFINE T == {i \in DOMAIN tags : tags[i] = s}
<1>1. CASE Held(s)
  <2>1. T = {}
    BY <1>1 DEF HoldInv, TagInv
  <2> QED
    BY <1>1, <2>1, FS_EmptySet DEF Tagged
<1>2. CASE ~Held(s)
  <2>1. PICK i \in DOMAIN tags : tags[i] = s
    BY <1>2 DEF HoldInv, TagInv
  <2>2. T = {i}
    BY <2>1 DEF HoldInv, TagInv
  <2> QED
    BY <1>2, <2>2, FS_Singleton DEF Tagged
<1> QED
  BY <1>1, <1>2

(* While a connection has a session, the session's tag is not in the deque;*)
(* otherwise it is there once. Only closing a session with both threads at *)
(* once (overlapped) can end that, and only for that session.              *)
THEOREM TagsStayExact == Spec => []TagsExact
  BY HoldsAlways, TagsCounted, PTL
-----------------------------------------------------------------------------
(* The handles the threads have read, and the sockets behind them.         *)

LEMMA AtNet == ASSUME IndexAssigned PROVE At("net") = slot["net"]
  BY DEF At, Index

\* Steps after which the thread t holds no handle, or the one it had.
LEMMA FdKeeps ==
  ASSUME IndexAssigned, TypeInv, HoldInv, FdInv, UNCHANGED session,
         overlapped \subseteq overlapped',
         \/ pc'["net"] \notin Serving
         \/ pc["net"] \in Serving /\ slot'["net"] = slot["net"] /\ fd'["net"] = fd["net"]
         \/ fd'["net"] = session[slot'["net"]].fd,
         \/ pc'["logic"] \notin Closing \cup {"test"}
         \/ /\ pc["logic"] \in Closing \cup {"test"}
            /\ slot'["logic"] = slot["logic"] /\ fd'["logic"] = fd["logic"]
         \/ fd'["logic"] = session[slot'["logic"]].fd
  PROVE  FdInv'
<1>1. At("net") = slot["net"] /\ At("net")' = slot'["net"]
  BY DEF At, Index
<1> QED
  BY <1>1 DEF FdInv, IsConnected

LEMMA FdNext ==
  ASSUME IndexAssigned, TypeInv, HoldInv, FdInv, Kind
  PROVE  FdInv'
<1> USE DEF Threads
<1>1. CASE Still
  BY <1>1, FdKeeps DEF Still, SessionsSame
<1>2. CASE Quiet("net")
  BY <1>2, FdKeeps DEF Quiet, SessionsSame
<1>3. CASE Quiet("logic")
  BY <1>3, FdKeeps DEF Quiet, SessionsSame, Free, Closing
<1>4. CASE Accept
  BY <1>4, FdKeeps DEF Accept, historyVars, Goto, TypeInv, ThreadTypes, Serving, Closing
<1>5. CASE ForcingClose
  <2>1. pc'["logic"] = "force" /\ pc'["net"] = pc["net"] /\ slot'["net"] = slot["net"]
        /\ UNCHANGED <<session, fd>> /\ overlapped \subseteq overlapped'
    BY <1>5 DEF ForcingClose, networkVars, Goto, TypeInv, ThreadTypes
  <2> QED
    BY <2>1, FdKeeps DEF Closing
<1>6. CASE ReadSocketFD
  <2>1. fd'["logic"] = session[slot'["logic"]].fd /\ fd'["net"] = fd["net"]
        /\ UNCHANGED <<session, slot, overlapped>> /\ pc'["net"] = pc["net"]
    BY <1>6 DEF ReadSocketFD, networkVars, historyVars, Goto, TypeInv, ThreadTypes
  <2> QED
    BY <2>1, FdKeeps
<1>7. ASSUME NEW t \in Threads, Enters(t) \/ CloseSocket(t) \/ FdClr(t) \/ ReleaseTag(t)
      PROVE  FdInv'
  <2>1. PICK label : Goto(t, label) /\ (label \in Closing => pc[t] \in Closing \cup {"test"})
                     /\ label \notin {"receive", "frame", "flush", "test"}
    BY <1>7 DEF Enters, CloseTest, CloseSocket, FdClr, ReleaseTag, Closing
  <2>2. UNCHANGED <<session, slot, fd>> /\ overlapped \subseteq overlapped'
    BY <1>7 DEF Enters, CloseTest, CloseSocket, FdClr, ReleaseTag, networkVars, historyVars
  <2>3. pc'[t] = label /\ \A o \in Threads \ {t} : pc'[o] = pc[o]
    BY <2>1, OneThread DEF TypeInv
  <2> QED
    BY <2>1, <2>2, <2>3, FdKeeps DEF Serving, Closing
<1>8. CASE ConnectedSession
  <2>1. /\ pc'["net"] = "announce" /\ pc'["logic"] = pc["logic"] /\ pc["net"] = "connect"
        /\ UNCHANGED <<slot, fd, overlapped>>
        /\ \A s \in Slots : s # slot["net"] => session'[s] = session[s]
    BY <1>8 DEF ConnectedSession, historyVars, Goto, TypeInv, ThreadTypes, DataTypes
  <2>2. pc["logic"] \in Closing \cup {"test"} /\ slot["logic"] \notin overlapped
            => slot["logic"] \in Slots /\ slot["logic"] # slot["net"]
    <3> SUFFICES ASSUME pc["logic"] \in Closing \cup {"test"}, slot["logic"] \notin overlapped
                 PROVE  slot["logic"] \in Slots /\ slot["logic"] # slot["net"]
      OBVIOUS
    <3>1. slot["logic"] \in Slots
      BY DEF TypeInv, ThreadTypes, DataTypes, CloseLabels, Closing
    <3>2. WithinClose("logic", slot["logic"])
      BY DEF WithinClose, At, Closing
    <3> QED
      BY <2>1, <3>1, <3>2 DEF HoldInv, CloseInv
  <2> QED
    BY <2>1, <2>2 DEF FdInv, Serving, Closing
<1>9. ASSUME NEW t \in Threads, Clear(t) PROVE FdInv'
  <2> SUFFICES ASSUME NEW a, a = At(t) PROVE FdInv'
    OBVIOUS
  <2>1. /\ pc[t] = "clear" /\ Goto(t, "release") /\ UNCHANGED <<slot, fd, overlapped>>
        /\ session' = [session EXCEPT ![a] = NotConnected]
    BY <1>9 DEF Clear, Cleared, historyVars
  <2>2. a \in Slots
    BY <2>1, AtSlot DEF CloseLabels
  <2>3. pc'[t] = "release" /\ \A o \in Threads \ {t} : pc'[o] = pc[o]
    BY <2>1, OneThread DEF TypeInv
  <2>4. /\ \A s \in Slots : s # a => session'[s] = session[s]
        /\ ~IsConnected(a)'
    BY <2>1, <2>2 DEF TypeInv, DataTypes, IsConnected, NotConnected
  <2>5. At("net")' = slot["net"] /\ At("net") = slot["net"] /\ slot["net"] \in Slots
    BY <2>1 DEF At, Index, TypeInv, ThreadTypes
  <2>6. CASE t = "net"
    <3>1. pc["logic"] \in Closing \cup {"test"} /\ slot["logic"] \notin overlapped
              => slot["logic"] \in Slots /\ slot["logic"] # a
      <4> SUFFICES ASSUME pc["logic"] \in Closing \cup {"test"}, slot["logic"] \notin overlapped
                   PROVE  slot["logic"] \in Slots /\ slot["logic"] # a
        OBVIOUS
      <4>1. slot["logic"] \in Slots
        BY DEF TypeInv, ThreadTypes, DataTypes, CloseLabels, Closing
      <4>2. WithinClose("logic", slot["logic"]) /\ WithinClose("net", a)
        BY <2>1, <2>6 DEF WithinClose, At, Closing
      <4> QED
        BY <4>1, <4>2 DEF HoldInv, CloseInv
    <3> QED
      BY <2>1, <2>3, <2>4, <2>6, <3>1 DEF FdInv, Serving, Closing
  <2>7. CASE t = "logic"
    <3>1. IsConnected(slot["net"])' => IsConnected(slot["net"]) /\ slot["net"] # a
      BY <2>1, <2>4, <2>5 DEF IsConnected
    <3>2. pc'["logic"] = "release" /\ pc'["net"] = pc["net"]
      BY <2>3, <2>7
    <3>3. pc'["net"] \in Serving /\ IsConnected(At("net"))'
              => fd'["net"] = session'[At("net")'].fd
      <4> SUFFICES ASSUME pc["net"] \in Serving, IsConnected(slot["net"])'
                   PROVE  fd["net"] = session'[slot["net"]].fd
        BY <2>1, <2>5, <3>2 DEF IsConnected
      <4>1. fd["net"] = session[slot["net"]].fd
        BY <2>5, <3>1 DEF FdInv
      <4> QED
        BY <2>4, <2>5, <3>1, <4>1
    <3> QED
      BY <3>2, <3>3 DEF FdInv, Closing
  <2> QED
    BY <2>6, <2>7
<1> QED
  BY <1>1, <1>2, <1>3, <1>4, <1>5, <1>6, <1>7, <1>8, <1>9 DEF Kind

\* The threads that have closed a session's socket and not yet cleared it.
Severed(t, s) == At(t) = s /\ pc[t] \in {"fdclr", "clear"}

LEMMA SocketKeeps ==
  ASSUME IndexAssigned, SocketInv, UNCHANGED <<session, socket, connectSeq>>,
         overlapped \subseteq overlapped',
         \A s : \A t \in Threads : Severed(t, s) => Severed(t, s)',
         pc'["net"] = "connect" => pc["net"] = "connect" /\ fd'["net"] = fd["net"]
  PROVE  SocketInv'
  BY DEF SocketInv, IsConnected, Owns, Severed

LEMMA SocketNext ==
  ASSUME IndexAssigned, TypeInv, HoldInv, FdInv, SocketInv, Kind
  PROVE  SocketInv'
<1>1. CASE Still
  BY <1>1, SocketKeeps DEF Still, SessionsSame, Severed, At, Index
<1>2. ASSUME NEW t \in Threads, Quiet(t) PROVE SocketInv'
  <2>1. /\ pc[t] \notin Holding /\ pc'[t] \in Free(t)
        /\ \A o \in Threads \ {t} : pc'[o] = pc[o] /\ slot'[o] = slot[o] /\ fd'[o] = fd[o]
        /\ SessionsSame
    BY <1>2 DEF Quiet
  <2>2. \A o \in Threads \ {t} : At(o)' = At(o)
    BY <2>1 DEF At, Index, Threads
  <2>3. \A s : \A o \in Threads : Severed(o, s) => Severed(o, s)'
    BY <2>1, <2>2 DEF Severed, Holding, Closing
  <2>4. pc'["net"] = "connect" => pc["net"] = "connect" /\ fd'["net"] = fd["net"]
    BY <2>1 DEF Threads, Free
  <2> QED
    BY <2>1, <2>3, <2>4, SocketKeeps DEF SessionsSame
<1>3. ASSUME NEW t \in Threads, NEW label, Goto(t, label), label # "connect",
             UNCHANGED <<session, socket, connectSeq>>, overlapped \subseteq overlapped',
             \A o \in Threads \ {t} : slot'[o] = slot[o] /\ fd'[o] = fd[o],
             pc[t] \notin {"fdclr", "clear"} \/ (slot' = slot /\ label = "clear")
      PROVE  SocketInv'
  <2>1. pc'[t] = label /\ \A o \in Threads \ {t} : pc'[o] = pc[o]
    BY <1>3, OneThread DEF TypeInv
  <2>2. \A o \in Threads \ {t} : At(o)' = At(o)
    BY <1>3 DEF At, Index, Threads
  <2>3. \A s : \A o \in Threads : Severed(o, s) => Severed(o, s)'
    BY <1>3, <2>1, <2>2 DEF Severed, At, Index
  <2>4. pc'["net"] = "connect" => pc["net"] = "connect" /\ fd'["net"] = fd["net"]
    BY <1>3, <2>1 DEF Threads
  <2> QED
    BY <1>3, <2>3, <2>4, SocketKeeps
<1>4. CASE ForcingClose \/ ReadSocketFD
  BY <1>3, <1>4 DEF ForcingClose, ReadSocketFD, networkVars, historyVars, Threads, TypeInv,
     ThreadTypes
<1>5. ASSUME NEW t \in Threads, Enters(t) \/ FdClr(t) \/ ReleaseTag(t) PROVE SocketInv'
  BY <1>3, <1>5 DEF Enters, CloseTest, FdClr, ReleaseTag, networkVars, historyVars
<1>6. CASE Accept
  <2> SUFFICES ASSUME overlapped = {} PROVE SocketInv'
    BY <1>6 DEF Accept, historyVars, SocketInv
  <2>1. PICK h \in Handles :
            /\ socket[h] = Nobody
            /\ socket' = [socket EXCEPT ![h] = connectSeq + 1]
            /\ fd' = [fd EXCEPT !["net"] = h]
    BY <1>6 DEF Accept
  <2>2. /\ pc["net"] = "accept" /\ pc'["net"] = "connect" /\ pc'["logic"] = pc["logic"]
        /\ connectSeq' = connectSeq + 1 /\ UNCHANGED session /\ slot'["logic"] = slot["logic"]
    BY <1>6 DEF Accept, Goto, TypeInv, ThreadTypes, Threads
  <2>3. fd'["net"] = h /\ socket'[h] = connectSeq'
    BY <2>1, <2>2 DEF TypeInv, DataTypes, ThreadTypes, Threads
  <2>4. ASSUME NEW s \in Slots, IsConnected(s), Owns(s)
        PROVE  Owns(s)'
    <3>1. session[s].seq \in 1 .. connectSeq /\ connectSeq \in Nat
      BY <2>4 DEF HoldInv, SeqInv, TypeInv, DataTypes
    <3>2. session[s].fd # h
      BY <2>1, <2>4, <3>1 DEF Owns, Nobody
    <3> QED
      BY <2>1, <2>2, <2>4, <3>2, SocketFacts DEF Owns, TypeInv, DataTypes
  <2>5. \A s : \A t \in Threads : Severed(t, s) => Severed(t, s)'
    BY <2>2 DEF Severed, At, Threads
  <2> QED
    BY <2>2, <2>3, <2>4, <2>5 DEF SocketInv, IsConnected, Severed
<1>7. CASE ConnectedSession
  <2> SUFFICES ASSUME overlapped = {} PROVE SocketInv'
    BY <1>7 DEF ConnectedSession, historyVars, SocketInv
  <2> SUFFICES ASSUME NEW a, a = slot["net"] PROVE SocketInv'
    OBVIOUS
  <2>1. /\ pc["net"] = "connect" /\ pc'["net"] = "announce" /\ pc'["logic"] = pc["logic"]
        /\ UNCHANGED <<socket, slot, connectSeq>>
        /\ session' = [session EXCEPT ![a] = [seq |-> connectSeq, fd |-> fd["net"]]]
    BY <1>7 DEF ConnectedSession, Goto, TypeInv, ThreadTypes, Threads
  <2>2. a \in Slots /\ socket[fd["net"]] = connectSeq
    BY <2>1 DEF SocketInv, TypeInv, ThreadTypes
  <2>3. Owns(a)' /\ \A s \in Slots : s # a => session'[s] = session[s]
    BY <2>1, <2>2 DEF Owns, TypeInv, DataTypes
  <2>4. \A s \in Slots : s # a => (Owns(s)' <=> Owns(s)) /\ (IsConnected(s)' <=> IsConnected(s))
    BY <2>1, <2>3 DEF Owns, IsConnected
  <2>5. \A s : \A t \in Threads : Severed(t, s) => Severed(t, s)'
    BY <2>1 DEF Severed, At, Threads
  <2> QED
    BY <2>1, <2>3, <2>4, <2>5 DEF SocketInv, Severed
<1>8. ASSUME NEW t \in Threads, CloseSocket(t) PROVE SocketInv'
  <2> SUFFICES ASSUME overlapped = {} PROVE SocketInv'
    BY <1>8 DEF CloseSocket, historyVars, SocketInv
  <2> SUFFICES ASSUME NEW a, a = At(t), NEW h, h = fd[t] PROVE SocketInv'
    OBVIOUS
  <2>1. /\ pc[t] = "closesocket" /\ Goto(t, "fdclr") /\ UNCHANGED <<session, connectSeq, slot, fd>>
        /\ socket' = [x \in Handles |-> IF x = h THEN Nobody ELSE socket[x]]
    BY <1>8 DEF CloseSocket
  <2>2. pc'[t] = "fdclr" /\ \A o \in Threads \ {t} : pc'[o] = pc[o]
    BY <2>1, OneThread DEF TypeInv
  <2>3. \A o \in Threads : At(o)' = At(o)
    BY <2>1 DEF At, Index
  <2>4. a \in Slots /\ WithinClose(t, a)
    BY <2>1, AtSlot DEF CloseLabels, WithinClose
  <2>5. IsConnected(a) /\ \A o \in Threads \ {t} : ~WithinClose(o, a)
    BY <2>4 DEF HoldInv, CloseInv, Threads
  <2>6. Owns(a)
    <3>1. \A o \in Threads : ~Severed(o, a)
      BY <2>1, <2>5 DEF Severed, WithinClose
    <3> QED
      BY <2>4, <2>5, <3>1 DEF SocketInv, Severed
  <2>7. h = session[a].fd
    BY <2>1, <2>5 DEF FdInv, Serving, Closing, Threads, At
  <2>8. ASSUME NEW s \in Slots, s # a, IsConnected(s), Owns(s)
        PROVE  Owns(s)'
    <3>1. session[s].fd # h
      BY <2>4, <2>5, <2>6, <2>7, <2>8 DEF Owns, HoldInv, SeqInv
    <3> QED
      BY <2>1, <2>8, <3>1, SocketFacts DEF Owns
  <2>9. Severed(t, a)'
    BY <2>2, <2>3 DEF Severed
  <2>10. \A s : \A o \in Threads : Severed(o, s) => Severed(o, s)'
    BY <2>1, <2>2, <2>3 DEF Severed
  <2>11. pc'["net"] = "connect" => socket'[fd'["net"]] = connectSeq'
    <3> SUFFICES ASSUME pc'["net"] = "connect" PROVE socket'[fd["net"]] = connectSeq
      BY <2>1
    <3>1. pc["net"] = "connect"
      BY <2>2 DEF Threads
    <3>2. socket[fd["net"]] = connectSeq /\ fd["net"] \in Handles
      BY <3>1 DEF SocketInv, TypeInv, ThreadTypes
    <3>3. session[a].seq < connectSeq /\ connectSeq \in Nat /\ session[a].seq \in Nat
      BY <2>4, <2>5, <3>1 DEF HoldInv, SeqInv, TypeInv, DataTypes
    <3>4. fd["net"] # h
      BY <2>6, <2>7, <3>2, <3>3 DEF Owns
    <3> QED
      BY <2>1, <3>2, <3>4
  <2>12. \A s \in Slots : IsConnected(s)' <=> IsConnected(s)
    BY <2>1 DEF IsConnected
  <2> QED
    BY <2>8, <2>9, <2>10, <2>11, <2>12 DEF SocketInv, Severed
<1>9. ASSUME NEW t \in Threads, Clear(t) PROVE SocketInv'
  <2> SUFFICES ASSUME overlapped = {} PROVE SocketInv'
    BY <1>9 DEF Clear, historyVars, SocketInv
  <2> SUFFICES ASSUME NEW a, a = At(t) PROVE SocketInv'
    OBVIOUS
  <2>1. /\ pc[t] = "clear" /\ Goto(t, "release") /\ UNCHANGED <<socket, connectSeq, slot, fd>>
        /\ session' = [session EXCEPT ![a] = NotConnected]
    BY <1>9 DEF Clear, Cleared
  <2>2. pc'[t] = "release" /\ \A o \in Threads \ {t} : pc'[o] = pc[o]
    BY <2>1, OneThread DEF TypeInv
  <2>3. \A o \in Threads : At(o)' = At(o)
    BY <2>1 DEF At, Index
  <2>4. a \in Slots
    BY <2>1, AtSlot DEF CloseLabels
  <2>5. \A s \in Slots : IsConnected(s)' => s # a /\ IsConnected(s) /\ (Owns(s) => Owns(s)')
    BY <2>1, <2>4 DEF IsConnected, Owns, NotConnected, TypeInv, DataTypes
  <2>6. \A s : s # a => \A o \in Threads : Severed(o, s) => Severed(o, s)'
    BY <2>2, <2>3 DEF Severed
  <2>7. pc'["net"] = "connect" => pc["net"] = "connect"
    BY <2>2 DEF Threads
  <2> QED
    BY <2>1, <2>5, <2>6, <2>7 DEF SocketInv, Severed
<1> QED
  BY <1>1, <1>2, <1>4, <1>5, <1>6, <1>7, <1>8, <1>9 DEF Kind, Threads

LEMMA SocketInit == Init => FdInv /\ SocketInv
<1> SUFFICES ASSUME Init PROVE FdInv /\ SocketInv
  OBVIOUS
<1>1. pc["net"] = "off" /\ pc["logic"] = "off"
  BY DEF Init, Threads
<1>2. \A s \in Slots : ~IsConnected(s)
  BY DEF Init, TcpNetworkInit, IsConnected, NotConnected
<1> QED
  BY <1>1, <1>2 DEF FdInv, SocketInv, Serving, Closing

(* Until both threads have once gone to close one session at the same time,*)
(* the connection behind every session's handle is the session's own: no   *)
(* close ever hits the socket of another, however handles are re-used. It  *)
(* takes that the sessions know their Index.                               *)
THEOREM SocketsStayOwned ==
  ASSUME IndexAssigned
  PROVE  Spec => []SocketsOwned
<1> DEFINE Inv == TypeInv /\ HoldInv /\ FdInv /\ SocketInv
<1>1. Init => Inv
  BY TypeInit, HoldInit, SocketInit
<1>2. Inv /\ [Next]_vars => Inv'
  BY TypeNext, HoldNext, Kinds, FdNext, SocketNext
<1>3. Inv => SocketsOwned
  BY DEF SocketInv, SocketsOwned, WithinClose
<1> QED
  BY <1>1, <1>2, <1>3, PTL DEF Spec
-----------------------------------------------------------------------------
(* What a step of the queue does to the order of one session's packets.    *)

LEMMA AlternatesAppend ==
  ASSUME NEW q \in Seq(Packet), NEW p \in Packet, NEW s, NEW K, NEW O, NEW O2,
         Alternates(q, s, K, O),
         IF p.session # s THEN s \in O2 <=> s \in O
         ELSE \/ p.id = "CONNECT" /\ s \notin O /\ s \in O2
              \/ p.id = "PACKET" /\ s \in O /\ s \in O2
              \/ p.id = "CLOSE" /\ s \in O /\ s \notin O2
  PROVE  Alternates(Append(q, p), s, K, O2)
<1> SUFFICES ASSUME NEW r, r = Append(q, p), NEW n, n = Len(q)
             PROVE  Alternates(r, s, K, O2)
  OBVIOUS
<1>1. /\ n \in Nat /\ Len(r) = n + 1 /\ r[n + 1] = p
      /\ \A k \in 1 .. n : r[k] = q[k]
  BY AppendFacts
<1> SUFFICES ASSUME NEW i \in 0 .. n + 1, NEW j \in 1 .. n + 2, i < j
             PROVE  /\ Shut(r, i, s, K) /\ WantsOpen(r, j, s, O2) =>
                           \E k \in 1 .. n + 1 : i < k /\ k < j /\ Is(r, k, s, "CONNECT")
                    /\ Running(r, i, s, K) /\ WantsShut(r, j, s, O2) =>
                           \E k \in 1 .. n + 1 : i < k /\ k < j /\ Is(r, k, s, "CLOSE")
  BY <1>1 DEF Alternates
<1>2. ASSUME i <= n
      PROVE  /\ Shut(r, i, s, K) <=> Shut(q, i, s, K)
             /\ Running(r, i, s, K) <=> Running(q, i, s, K)
  BY <1>1, <1>2 DEF Shut, Running, Is
\* What q says between two of its positions, r says.
<1>3. ASSUME i <= n, NEW m \in 1 .. n + 1, i < m
      PROVE  /\ Shut(r, i, s, K) /\ WantsOpen(q, m, s, O) =>
                    \E k \in 1 .. n + 1 : i < k /\ k < m /\ Is(r, k, s, "CONNECT")
             /\ Running(r, i, s, K) /\ WantsShut(q, m, s, O) =>
                    \E k \in 1 .. n + 1 : i < k /\ k < m /\ Is(r, k, s, "CLOSE")
  <2>1. /\ Shut(q, i, s, K) /\ WantsOpen(q, m, s, O) =>
               \E k \in 1 .. n : i < k /\ k < m /\ Is(q, k, s, "CONNECT")
        /\ Running(q, i, s, K) /\ WantsShut(q, m, s, O) =>
               \E k \in 1 .. n : i < k /\ k < m /\ Is(q, k, s, "CLOSE")
    BY <1>1, <1>3 DEF Alternates
  <2> QED
    BY <1>1, <1>2, <1>3, <2>1 DEF Is
<1>4. CASE j <= n
  <2>1. /\ WantsOpen(r, j, s, O2) <=> WantsOpen(q, j, s, O)
        /\ WantsShut(r, j, s, O2) <=> WantsShut(q, j, s, O)
    BY <1>1, <1>4 DEF WantsOpen, WantsShut, Is
  <2> QED
    BY <1>1, <1>3, <1>4, <2>1
<1>5. CASE j = n + 1
  <2>1. /\ WantsOpen(r, j, s, O2) => WantsOpen(q, j, s, O)
        /\ WantsShut(r, j, s, O2) => WantsShut(q, j, s, O)
    BY <1>1, <1>5 DEF WantsOpen, WantsShut, Is
  <2> QED
    BY <1>1, <1>3, <1>5, <2>1
<1>6. CASE j = n + 2
  <2>1. /\ WantsOpen(r, j, s, O2) <=> s \in O2
        /\ WantsShut(r, j, s, O2) <=> s \notin O2
        /\ WantsOpen(q, n + 1, s, O) <=> s \in O
        /\ WantsShut(q, n + 1, s, O) <=> s \notin O
    BY <1>1, <1>6 DEF WantsOpen, WantsShut
  <2>2. CASE i = n + 1
    BY <1>1, <2>1, <2>2 DEF Shut, Running, Is
  <2>3. CASE i <= n
    <3>1. CASE s \in O2 <=> s \in O
      <4>1. /\ Shut(r, i, s, K) /\ s \in O =>
                   \E k \in 1 .. n + 1 : i < k /\ k < n + 1 /\ Is(r, k, s, "CONNECT")
            /\ Running(r, i, s, K) /\ s \notin O =>
                   \E k \in 1 .. n + 1 : i < k /\ k < n + 1 /\ Is(r, k, s, "CLOSE")
        BY <1>1, <1>3, <2>1, <2>3
      <4> QED
        BY <1>1, <1>6, <2>1, <3>1, <4>1
    <3>2. CASE ~(s \in O2 <=> s \in O)
      <4>1. /\ s \in O2 => Is(r, n + 1, s, "CONNECT")
            /\ s \notin O2 => Is(r, n + 1, s, "CLOSE")
        BY <1>1, <3>2 DEF Is
      <4> QED
        BY <1>1, <1>6, <2>1, <2>3, <4>1
    <3> QED
      BY <3>1, <3>2
  <2> QED
    BY <1>1, <2>2, <2>3
<1> QED
  BY <1>1, <1>4, <1>5, <1>6

LEMMA AlternatesFirst ==
  ASSUME NEW q \in Seq(Packet), q # <<>>, NEW s, NEW K, NEW O, Alternates(q, s, K, O),
         Head(q).session = s
  PROVE  Head(q).id = "CONNECT" <=> s \notin K
<1>1. 0 \in 0 .. Len(q) /\ 1 \in 1 .. Len(q) + 1 /\ 0 < 1 /\ Len(q) \in Nat \ {0}
  BY TailFacts
<1>2. /\ ~(Shut(q, 0, s, K) /\ WantsOpen(q, 1, s, O))
      /\ ~(Running(q, 0, s, K) /\ WantsShut(q, 1, s, O))
  BY <1>1 DEF Alternates
<1>3. Head(q) = q[1]
  BY TailFacts
<1> QED
  BY <1>1, <1>2, <1>3 DEF Shut, Running, WantsOpen, WantsShut, Is

LEMMA AlternatesTail ==
  ASSUME NEW q \in Seq(Packet), q # <<>>, NEW s, NEW K, NEW K2, NEW O,
         Alternates(q, s, K, O),
         IF Head(q).session # s THEN s \in K2 <=> s \in K
         ELSE \/ Head(q).id = "CONNECT" /\ s \in K2
              \/ Head(q).id = "PACKET" /\ (s \in K2 <=> s \in K)
              \/ Head(q).id = "CLOSE" /\ s \notin K2
  PROVE  Alternates(Tail(q), s, K2, O)
<1> SUFFICES ASSUME NEW r, r = Tail(q), NEW n, n = Len(q), NEW p, p = Head(q)
             PROVE  Alternates(r, s, K2, O)
  OBVIOUS
<1>1. /\ n \in Nat \ {0} /\ Len(r) = n - 1 /\ p = q[1] /\ p \in Packet
      /\ \A k \in 1 .. n - 1 : r[k] = q[k + 1]
  BY TailFacts
<1> SUFFICES ASSUME NEW i \in 0 .. n - 1, NEW j \in 1 .. n, i < j
             PROVE  /\ Shut(r, i, s, K2) /\ WantsOpen(r, j, s, O) =>
                           \E k \in 1 .. n - 1 : i < k /\ k < j /\ Is(r, k, s, "CONNECT")
                    /\ Running(r, i, s, K2) /\ WantsShut(r, j, s, O) =>
                           \E k \in 1 .. n - 1 : i < k /\ k < j /\ Is(r, k, s, "CLOSE")
  BY <1>1 DEF Alternates
<1>2. /\ WantsOpen(r, j, s, O) <=> WantsOpen(q, j + 1, s, O)
      /\ WantsShut(r, j, s, O) <=> WantsShut(q, j + 1, s, O)
  BY <1>1 DEF WantsOpen, WantsShut, Is
\* The position of q whose place i takes.
<1>3. PICK m \in 0 .. n :
          /\ m = i + 1 \/ (m = 0 /\ i = 0 /\ p.session # s)
          /\ Shut(r, i, s, K2) => Shut(q, m, s, K)
          /\ Running(r, i, s, K2) => Running(q, m, s, K)
  <2>1. CASE i # 0
    <3>1. /\ Shut(r, i, s, K2) => Shut(q, i + 1, s, K)
          /\ Running(r, i, s, K2) => Running(q, i + 1, s, K)
      BY <1>1, <2>1 DEF Shut, Running, Is
    <3> QED
      BY <1>1, <3>1
  <2>2. CASE i = 0 /\ p.session # s
    <3>1. /\ Shut(r, 0, s, K2) => Shut(q, 0, s, K)
          /\ Running(r, 0, s, K2) => Running(q, 0, s, K)
      BY <1>1, <2>2 DEF Shut, Running
    <3> QED
      BY <1>1, <2>2, <3>1
  <2>3. CASE i = 0 /\ p.session = s
    <3>1. p.id = "CONNECT" <=> s \notin K
      BY <2>3, AlternatesFirst
    <3>2. /\ Shut(r, 0, s, K2) => Shut(q, 1, s, K)
          /\ Running(r, 0, s, K2) => Running(q, 1, s, K)
      BY <1>1, <2>3, <3>1 DEF Shut, Running, Is
    <3> QED
      BY <1>1, <2>3, <3>2
  <2> QED
    BY <2>1, <2>2, <2>3
<1>4. /\ Shut(q, m, s, K) /\ WantsOpen(q, j + 1, s, O) =>
             \E k \in 1 .. n : m < k /\ k < j + 1 /\ Is(q, k, s, "CONNECT")
      /\ Running(q, m, s, K) /\ WantsShut(q, j + 1, s, O) =>
             \E k \in 1 .. n : m < k /\ k < j + 1 /\ Is(q, k, s, "CLOSE")
  <2>1. m < j + 1 /\ j + 1 \in 1 .. Len(q) + 1 /\ m \in 0 .. Len(q)
    BY <1>1, <1>3
  <2> QED
    BY <2>1 DEF Alternates
<1>5. \A k \in 1 .. n : m < k /\ q[k].session = s =>
          k - 1 \in 1 .. n - 1 /\ i < k - 1 /\ r[k - 1] = q[k]
  <2> SUFFICES ASSUME NEW k \in 1 .. n, m < k, q[k].session = s
               PROVE  k - 1 \in 1 .. n - 1 /\ i < k - 1 /\ r[k - 1] = q[k]
    OBVIOUS
  <2>1. k # 1 /\ i < k - 1
    BY <1>1, <1>3
  <2>2. k - 1 \in 1 .. n - 1 /\ (k - 1) + 1 = k
    BY <1>1, <2>1
  <2> QED
    BY <1>1, <2>1, <2>2
<1>6. ASSUME NEW id, \E k \in 1 .. n : m < k /\ k < j + 1 /\ Is(q, k, s, id)
      PROVE  \E k \in 1 .. n - 1 : i < k /\ k < j /\ Is(r, k, s, id)
  <2>1. PICK k \in 1 .. n : m < k /\ k < j + 1 /\ Is(q, k, s, id)
    BY <1>6
  <2>2. k - 1 \in 1 .. n - 1 /\ i < k - 1 /\ k - 1 < j /\ Is(r, k - 1, s, id)
    BY <1>5, <2>1 DEF Is
  <2> QED
    BY <2>2
<1> QED
  BY <1>2, <1>3, <1>4, <1>6
-----------------------------------------------------------------------------
(* The kinds of steps there are as regards the queue.                      *)

OpenedSame == \A s \in Slots \ Void' : s \in Opened' <=> s \in Opened

Mute ==
    /\ UNCHANGED <<queue, known>>
    /\ Void' = Void \/ \E s \in Slots : Void' = Void \cup {s}
    /\ OpenedSame

\* p may be queued: next in its session's turn, or the session is void, if
\* only from now.
InTurn(p) ==
    \/ p.session \in Void' /\ OpenedSame
    \/ /\ p.session \notin Void'
       /\ \A s \in Slots \ (Void' \cup {p.session}) : s \in Opened' <=> s \in Opened
       /\ \/ p.id = "CONNECT" /\ p.session \notin Opened /\ p.session \in Opened'
          \/ p.id = "PACKET" /\ p.session \in Opened /\ p.session \in Opened'
          \/ p.id = "CLOSE" /\ p.session \in Opened /\ p.session \notin Opened'

Puts(p) ==
    /\ queue' = Append(queue, p) /\ known' = known
    /\ Void' = Void \/ Void' = Void \cup {p.session}
    /\ InTurn(p)

Takes ==
    /\ queue # <<>> /\ queue' = Tail(queue) /\ Void' = Void /\ OpenedSame
    /\ LET p == Head(queue)
       IN  \/ p.id = "CONNECT" /\ known' = known \cup {p.session}
           \/ p.id = "PACKET" /\ known' = known
           \/ p.id = "CLOSE" /\ known' = known \ {p.session}

\* Steps in which the network thread keeps its place, or was and is at none
\* that matters.
LEMMA OpenedStays ==
  ASSUME TypeInv, UNCHANGED session,
         \/ pc'["net"] = pc["net"] /\ slot'["net"] = slot["net"]
         \/ /\ pc["net"] \notin {"announce", "release", "report"}
            /\ pc'["net"] \notin {"announce", "release", "report"}
         \/ pc["net"] = "release" /\ pc'["net"] = "report" /\ slot'["net"] = slot["net"]
  PROVE  OpenedSame
<1>1. \A s : IsConnected(s)' <=> IsConnected(s)
  BY DEF IsConnected
<1>2. slot'["net"] = slot["net"] => At("net")' = At("net")
  BY DEF At, Index
<1> QED
  BY <1>1, <1>2 DEF OpenedSame, Opened

LEMMA OpenedKinds ==
  ASSUME TypeInv, HoldInv, Kind,
         pc["net"] \in {"announce", "report"} => pc'["net"] = pc["net"]
  PROVE  OpenedSame
<1>1. CASE Still
  BY <1>1, OpenedStays DEF Still, SessionsSame
<1>2. CASE Quiet("net")
  <2>1. pc'["net"] \in Free("net") /\ pc["net"] \notin Holding /\ SessionsSame
    BY <1>2 DEF Quiet
  <2> QED
    BY <2>1, OpenedStays DEF Free, Holding, SessionsSame
<1>3. CASE Quiet("logic")
  BY <1>3, OpenedStays DEF Quiet, SessionsSame, Threads
<1>4. CASE Accept
  BY <1>4, OpenedStays DEF Accept, Goto, TypeInv, ThreadTypes, Threads
<1>5. CASE ForcingClose \/ ReadSocketFD
  BY <1>5, OpenedStays DEF ForcingClose, ReadSocketFD, networkVars, Goto, TypeInv, ThreadTypes,
     Threads
<1>6. ASSUME NEW t \in Threads, Enters(t) \/ CloseSocket(t) \/ FdClr(t) \/ ReleaseTag(t)
      PROVE  OpenedSame
  <2>1. /\ UNCHANGED <<session, slot>>
        /\ \/ pc[t] = "test" /\ Goto(t, "closesocket")
           \/ pc[t] = "closesocket" /\ Goto(t, "fdclr")
           \/ pc[t] = "fdclr" /\ Goto(t, "clear")
           \/ pc[t] = "release" /\ Goto(t, "report")
    BY <1>6 DEF Enters, CloseTest, ToClose, CloseSocket, FdClr, ReleaseTag, networkVars
  <2>2. CASE t = "net"
    BY <2>1, <2>2, OneThread, OpenedStays DEF TypeInv
  <2>3. CASE t = "logic"
    <3>1. pc'["net"] = pc["net"]
      BY <2>1, <2>3, OneThread DEF TypeInv, Threads
    <3> QED
      BY <2>1, <3>1, OpenedStays
  <2> QED
    BY <2>2, <2>3 DEF Threads
<1>7. CASE ConnectedSession
  <2>1. /\ pc["net"] = "connect" /\ pc'["net"] = "announce" /\ UNCHANGED <<slot, forced>>
        /\ \A s \in Slots : s # slot["net"] => (IsConnected(s)' <=> IsConnected(s))
    BY <1>7 DEF ConnectedSession, historyVars, Goto, TypeInv, ThreadTypes, DataTypes,
       IsConnected, Threads
  <2>2. slot["net"] \in Slots \ forced => ~IsConnected(slot["net"])
    BY <2>1 DEF HoldInv, CloseInv, TypeInv, DataTypes
  <2> QED
    BY <2>1, <2>2 DEF OpenedSame, Opened, Void
<1>8. ASSUME NEW t \in Threads, Clear(t) PROVE OpenedSame
  <2> SUFFICES ASSUME NEW a, a = At(t) PROVE OpenedSame
    OBVIOUS
  <2>1. /\ pc[t] = "clear" /\ Goto(t, "release") /\ UNCHANGED <<slot, forced>>
        /\ session' = [session EXCEPT ![a] = NotConnected]
    BY <1>8 DEF Clear, Cleared, historyVars
  <2>2. a \in Slots
    BY <2>1, AtSlot DEF CloseLabels
  <2>3. pc'[t] = "release" /\ \A o \in Threads \ {t} : pc'[o] = pc[o]
    BY <2>1, OneThread DEF TypeInv
  <2>4. /\ \A s \in Slots : s # a => (IsConnected(s)' <=> IsConnected(s))
        /\ ~IsConnected(a)'
    BY <2>1, <2>2 DEF TypeInv, DataTypes, IsConnected, NotConnected
  <2>5. At("net")' = At("net")
    BY <2>1 DEF At, Index
  <2>6. CASE t = "net"
    <3>1. a \notin forced => IsConnected(a)
      BY <2>1, <2>2 DEF HoldInv, CloseInv, TypeInv, DataTypes, WithinClose
    <3> QED
      BY <2>1, <2>3, <2>4, <2>5, <2>6, <3>1 DEF OpenedSame, Opened, Void
  <2>7. CASE t = "logic"
    <3>1. a \in forced
      BY <2>1, <2>7 DEF TypeInv, ThreadTypes, CloseLabels, At
    <3>2. pc'["net"] = pc["net"]
      BY <2>3, <2>7 DEF Threads
    <3> QED
      BY <2>1, <2>4, <2>5, <3>1, <3>2 DEF OpenedSame, Opened, Void
  <2> QED
    BY <2>6, <2>7 DEF Threads
<1> QED
  BY <1>1, <1>2, <1>3, <1>4, <1>5, <1>6, <1>7, <1>8 DEF Kind

LEMMA AnnouncePuts ==
  ASSUME TypeInv, HoldInv, AnnounceConnect, UNCHANGED known
  PROVE  \E p \in Packet : p.id # "PACKET" /\ Puts(p)
<1> SUFFICES ASSUME NEW a, a = slot["net"],
                    NEW p, p = [id |-> "CONNECT", session |-> a, from |-> Nobody]
             PROVE  \E x \in Packet : x.id # "PACKET" /\ Puts(x)
  OBVIOUS
<1>1. /\ pc["net"] = "announce" /\ pc'["net"] = "accept" /\ queue' = Append(queue, p)
      /\ UNCHANGED <<session, slot, forced, forged>>
  BY DEF AnnounceConnect, Queued, historyVars, Goto, TypeInv, ThreadTypes, Threads
<1>2. a \in Slots /\ p \in Packet /\ p.session = a /\ p.id = "CONNECT"
  BY DEF TypeInv, ThreadTypes, DataTypes, Packet, Connections, Nobody
<1>3. \A s : IsConnected(s)' <=> IsConnected(s)
  BY <1>1 DEF IsConnected
<1>4. \A s \in Slots \ {a} : s \in Opened' <=> s \in Opened
  BY <1>1, <1>3 DEF Opened
<1>5. a \notin forced => a \notin Opened /\ a \in Opened'
  BY <1>1, <1>2, <1>3 DEF Opened, HoldInv, OpenInv
<1>6. InTurn(p)
  BY <1>1, <1>2, <1>4, <1>5 DEF InTurn, OpenedSame, Void
<1> QED
  BY <1>1, <1>2, <1>6 DEF Puts, Void

\* What a packet of a client is put with.
FromOwner(p) ==
    p.id = "PACKET" =>
        /\ pc["net"] = "frame" /\ At("net") = p.session
        /\ p.from = Sender(p.session) /\ UNCHANGED <<session, pc, slot>>

LEMMA FramePuts ==
  ASSUME TypeInv, HoldInv, FramePacket, UNCHANGED known
  PROVE  \E p \in Packet : FromOwner(p) /\ Puts(p)
<1> SUFFICES ASSUME NEW s, s = At("net"), NEW c, c = Sender(s)
             PROVE  \E p \in Packet : FromOwner(p) /\ Puts(p)
  OBVIOUS
<1>1. /\ pc["net"] = "frame" /\ UNCHANGED <<session, pc, slot, forced>>
      /\ \/ queue' = Append(queue, [id |-> "PACKET", session |-> s, from |-> c])
            /\ forged' = forged
         \/ forged' = forged \cup {s} /\ \E id \in {"CONNECT", "CLOSE"} :
                queue' = Append(queue, [id |-> id, session |-> s, from |-> Nobody])
  BY DEF FramePacket, Queued, threadVars
<1>2. s \in Slots /\ c \in Connections \cup {Nobody}
  BY AtSlot, SocketFacts DEF Sender, Threads
<1>3. OpenedSame
  BY <1>1, OpenedStays
<1>4. CASE queue' = Append(queue, [id |-> "PACKET", session |-> s, from |-> c])
           /\ forged' = forged
  <2> SUFFICES ASSUME NEW p, p = [id |-> "PACKET", session |-> s, from |-> c]
               PROVE  \E x \in Packet : FromOwner(x) /\ Puts(x)
    OBVIOUS
  <2>1. p \in Packet /\ p.id = "PACKET" /\ p.session = s /\ p.from = c
    BY <1>2 DEF Packet
  <2>2. Void' = Void
    BY <1>1, <1>4 DEF Void
  <2>3. s \notin Void => s \in Opened /\ s \in Opened'
    <3>1. s \notin Void => IsConnected(s) /\ IsConnected(s)'
      BY <1>1 DEF Void, HoldInv, OpenInv, IsConnected
    <3> QED
      BY <1>1, <1>2, <3>1 DEF Opened
  <2>4. InTurn(p)
    BY <1>3, <2>1, <2>2, <2>3 DEF InTurn, OpenedSame
  <2>5. FromOwner(p)
    BY <1>1, <2>1 DEF FromOwner
  <2> QED
    BY <1>4, <2>1, <2>2, <2>4, <2>5 DEF Puts
<1>5. ASSUME forged' = forged \cup {s}, NEW id \in {"CONNECT", "CLOSE"},
             queue' = Append(queue, [id |-> id, session |-> s, from |-> Nobody])
      PROVE  \E p \in Packet : FromOwner(p) /\ Puts(p)
  <2> SUFFICES ASSUME NEW p, p = [id |-> id, session |-> s, from |-> Nobody]
               PROVE  \E x \in Packet : FromOwner(x) /\ Puts(x)
    OBVIOUS
  <2>1. p \in Packet /\ p.id # "PACKET" /\ p.session = s
    BY <1>2 DEF Packet
  <2>2. Void' = Void \cup {s}
    BY <1>1, <1>5 DEF Void
  <2>3. InTurn(p)
    BY <1>3, <2>1, <2>2 DEF InTurn
  <2> QED
    BY <1>5, <2>1, <2>2, <2>3 DEF Puts, FromOwner
<1> QED
  BY <1>1, <1>4, <1>5

LEMMA ReportPuts ==
  ASSUME TypeInv, HoldInv, NEW t \in Threads, ReportClose(t), UNCHANGED known
  PROVE  \E p \in Packet : p.id # "PACKET" /\ Puts(p)
<1> SUFFICES ASSUME NEW a, a = At(t),
                    NEW p, p = [id |-> "CLOSE", session |-> a, from |-> Nobody]
             PROVE  \E x \in Packet : x.id # "PACKET" /\ Puts(x)
  OBVIOUS
<1>1. /\ pc[t] = "report" /\ queue' = Append(queue, p) /\ Return(t)
      /\ UNCHANGED <<session, forced, forged>>
  BY DEF ReportClose, Queued, historyVars
<1>2. a \in Slots /\ p \in Packet /\ p.session = a /\ p.id = "CLOSE"
  BY <1>1, AtSlot DEF CloseLabels, Packet
<1>3. \A s : IsConnected(s)' <=> IsConnected(s)
  BY <1>1 DEF IsConnected
<1>4. CASE t = "net"
  <2>1. pc'["net"] \in {"serve", "select"}
    BY <1>1, <1>4, OneThread DEF Return, NextSlot, TypeInv
  <2>2. \A s \in Slots \ {a} : s \in Opened' <=> s \in Opened
    BY <1>1, <1>3, <1>4, <2>1 DEF Opened
  <2>3. a \in Opened /\ a \notin Opened'
    BY <1>1, <1>2, <1>3, <1>4, <2>1 DEF Opened, HoldInv, OpenInv
  <2>4. InTurn(p)
    BY <1>1, <1>2, <2>2, <2>3 DEF InTurn, OpenedSame, Void
  <2> QED
    BY <1>1, <1>2, <2>4 DEF Puts, Void
<1>5. CASE t = "logic"
  <2>1. a \in forced
    BY <1>1, <1>5 DEF TypeInv, ThreadTypes, CloseLabels, At
  <2>2. pc'["net"] = pc["net"] /\ slot'["net"] = slot["net"]
    BY <1>1, <1>5, OneThread DEF Return, TypeInv, ThreadTypes, Threads
  <2>3. OpenedSame
    BY <1>1, <2>2, OpenedStays
  <2> QED
    BY <1>1, <1>2, <2>1, <2>3 DEF Puts, InTurn, Void
<1> QED
  BY <1>4, <1>5 DEF Threads

LEMMA ProcessTakes ==
  ASSUME TypeInv, HoldInv, Process
  PROVE  Takes
<1>1. /\ queue # <<>> /\ queue' = Tail(queue) /\ UNCHANGED <<session, forced, forged>>
      /\ pc["logic"] = "get"
  BY DEF Process, historyVars
<1>2. pc'["net"] = pc["net"] /\ slot'["net"] = slot["net"]
  BY DEF Process, StartCheck, Goto, TypeInv, ThreadTypes, Threads
<1>3. OpenedSame
  BY <1>1, <1>2, OpenedStays
<1>4. Head(queue).id \in {"CONNECT", "PACKET", "CLOSE"}
  <2>1. Head(queue) \in Packet
    BY <1>1, TailFacts DEF TypeInv, DataTypes
  <2> QED
    BY <2>1 DEF Packet
<1>5. LET p == Head(queue)
      IN  \/ p.id = "CONNECT" /\ known' = known \cup {p.session}
          \/ p.id = "PACKET" /\ known' = known
          \/ p.id = "CLOSE" /\ known' = known \ {p.session}
  BY <1>4 DEF Process
<1> QED
  BY <1>1, <1>3, <1>5 DEF Takes, Void

LEMMA QueueKinds ==
  ASSUME TypeInv, HoldInv, [Next]_vars
  PROVE  Mute \/ Takes \/ \E p \in Packet : FromOwner(p) /\ Puts(p)
<1>1. Kind
  BY Kinds
<1>2. ASSUME UNCHANGED <<queue, known, forged>>,
             forced' = forced \/ \E s \in Slots : forced' = forced \cup {s},
             pc["net"] \in {"announce", "report"} => pc'["net"] = pc["net"]
      PROVE  Mute
  BY <1>1, <1>2, OpenedKinds DEF Mute, Void
<1>3. CASE Network
  <2>1. UNCHANGED known
    BY <1>3 DEF Network, hostVars
  <2>2. CASE AnnounceConnect
    BY <2>1, <2>2, AnnouncePuts DEF FromOwner
  <2>3. CASE FramePacket
    BY <2>1, <2>3, FramePuts
  <2>4. CASE ReportClose("net")
    BY <2>1, <2>4, ReportPuts DEF FromOwner, Threads
  <2>5. CASE ~(AnnounceConnect \/ FramePacket \/ ReportClose("net"))
    <3>1. /\ UNCHANGED <<queue, forced, forged>> /\ pc["net"] \notin {"announce", "report"}
      BY <1>3, <2>5 DEF Network, Net, Select, LeaveRun, Accept, ConnectedSession,
         NoMoreToAccept, Serve, Receive, FrameEnds, Flush, CloseSession, CloseTest, CloseSocket, FdClr, Clear,
         ReleaseTag, networkVars, historyVars
    <3> QED
      BY <1>2, <2>1, <3>1
  <2> QED
    BY <2>2, <2>3, <2>4, <2>5
<1>4. CASE Logic
  <2>1. CASE Process
    BY <2>1, ProcessTakes
  <2>2. CASE ReportClose("logic")
    BY <1>4, <2>2, ReportPuts DEF FromOwner, Threads, Logic, TestIsRun, QueueEmpty, ForcingClose,
       ReadSocketFD, CheckDone, hostVars, ReportClose, Process
  <2>3. CASE ForcingClose
    <3>1. pc'["net"] = pc["net"]
      BY <2>3, OneThread DEF ForcingClose, TypeInv, Threads
    <3>2. UNCHANGED <<queue, known, forged>> /\ \E s \in Slots : forced' = forced \cup {s}
      BY <2>3 DEF ForcingClose, networkVars, hostVars, TypeInv, DataTypes
    <3> QED
      BY <1>2, <3>1, <3>2
  <2>4. CASE TestIsRun \/ QueueEmpty \/ ReadSocketFD \/ CheckDone
    <3>1. UNCHANGED <<queue, known, forced, forged>> /\ \E label : Goto("logic", label)
      BY <2>4 DEF TestIsRun, QueueEmpty, ReadSocketFD, CheckDone, StartCheck, networkVars,
         historyVars, hostVars
    <3>2. pc'["net"] = pc["net"]
      BY <3>1, OneThread DEF TypeInv, Threads
    <3> QED
      BY <1>2, <3>1, <3>2
  <2>5. CASE /\ CloseSession("logic") /\ UNCHANGED hostVars
             /\ ~ReportClose("logic")
    <3>1. UNCHANGED <<queue, known, forced, forged>> /\ \E label : Goto("logic", label)
      BY <2>5 DEF CloseSession, CloseTest, CloseSocket, FdClr, Clear, ReleaseTag, Return,
         networkVars, historyVars, hostVars
    <3>2. pc'["net"] = pc["net"]
      BY <3>1, OneThread DEF TypeInv, Threads
    <3> QED
      BY <1>2, <3>1, <3>2
  <2> QED
    BY <1>4, <2>1, <2>2, <2>3, <2>4, <2>5 DEF Logic
<1>5. CASE Starting \/ Stop \/ Stopping \/ Ended \/ UNCHANGED vars
  <2>1. UNCHANGED <<queue, known, forced, forged>>
    BY <1>5 DEF Starting, InitNetwork, InitFails, StartLogic, Stop, Stopping, Release,
       Exit, Ended, vars, networkVars, historyVars, hostVars
  <2>2. pc["net"] \in {"announce", "report"} => pc'["net"] = pc["net"]
    <3>1. pc' = pc \/ (pc["net"] = "off" /\ Goto("net", "select")) \/ Goto("logic", "outer")
      BY <1>5 DEF Starting, InitNetwork, InitFails, StartLogic, Stop, Stopping, Release,
         Exit, Ended, vars, threadVars, TypeInv, MainInv
    <3> QED
      BY <3>1, OneThread DEF TypeInv, Threads
  <2> QED
    BY <1>2, <2>1, <2>2
<1> QED
  BY <1>3, <1>4, <1>5 DEF Next
-----------------------------------------------------------------------------
(* The order of the packets.                                               *)

LEMMA AlternatesSame ==
  ASSUME NEW q, NEW s, NEW K, NEW O, NEW O2, Alternates(q, s, K, O), s \in O2 <=> s \in O
  PROVE  Alternates(q, s, K, O2)
  BY DEF Alternates, WantsOpen, WantsShut

LEMMA OrderInit == Init => OrderInv
<1> SUFFICES ASSUME Init, NEW s \in Slots PROVE Alternates(queue, s, known, Opened)
  BY DEF OrderInv
<1>1. Opened = {}
  <2>1. pc["net"] = "off" /\ \A x \in Slots : ~IsConnected(x)
    BY DEF Init, TcpNetworkInit, IsConnected, NotConnected, Threads
  <2> QED
    BY <2>1 DEF Opened
<1>2. queue = <<>> /\ known = {} /\ Len(queue) = 0
  BY DEF Init, TcpNetworkInit
<1> QED
  BY <1>1, <1>2 DEF Alternates, Shut, Running, WantsOpen, WantsShut

LEMMA OrderNext ==
  ASSUME TypeInv, HoldInv, OrderInv, [Next]_vars
  PROVE  OrderInv'
<1>1. CASE Mute
  <2> SUFFICES ASSUME NEW s \in Slots \ Void'
               PROVE  Alternates(queue, s, known, Opened')
    BY <1>1 DEF Mute, OrderInv
  <2>1. s \in Slots \ Void /\ (s \in Opened' <=> s \in Opened)
    BY <1>1 DEF Mute, OpenedSame
  <2> QED
    BY <2>1, AlternatesSame DEF OrderInv
<1>2. CASE Takes
  <2> SUFFICES ASSUME NEW s \in Slots \ Void
               PROVE  Alternates(Tail(queue), s, known', Opened')
    BY <1>2 DEF Takes, OrderInv
  <2>1. queue \in Seq(Packet) /\ queue # <<>> /\ Alternates(queue, s, known, Opened)
    BY <1>2 DEF Takes, OrderInv, TypeInv, DataTypes
  <2>2. IF Head(queue).session # s THEN s \in known' <=> s \in known
        ELSE \/ Head(queue).id = "CONNECT" /\ s \in known'
             \/ Head(queue).id = "PACKET" /\ (s \in known' <=> s \in known)
             \/ Head(queue).id = "CLOSE" /\ s \notin known'
    BY <1>2 DEF Takes
  <2>3. Alternates(Tail(queue), s, known', Opened)
    BY <2>1, <2>2, AlternatesTail
  <2> QED
    BY <1>2, <2>3, AlternatesSame DEF Takes, OpenedSame
<1>3. ASSUME NEW p \in Packet, Puts(p)
      PROVE  OrderInv'
  <2> SUFFICES ASSUME NEW s \in Slots \ Void'
               PROVE  Alternates(Append(queue, p), s, known, Opened')
    BY <1>3 DEF Puts, OrderInv
  <2>1. queue \in Seq(Packet) /\ Alternates(queue, s, known, Opened)
    BY <1>3 DEF Puts, OrderInv, TypeInv, DataTypes
  <2>2. IF p.session # s THEN s \in Opened' <=> s \in Opened
        ELSE \/ p.id = "CONNECT" /\ s \notin Opened /\ s \in Opened'
             \/ p.id = "PACKET" /\ s \in Opened /\ s \in Opened'
             \/ p.id = "CLOSE" /\ s \in Opened /\ s \notin Opened'
    BY <1>3 DEF Puts, InTurn, OpenedSame
  <2> QED
    BY <2>1, <2>2, AlternatesAppend
<1> QED
  BY <1>1, <1>2, <1>3, QueueKinds

LEMMA OrderAlways == Spec => [](TypeInv /\ HoldInv /\ OrderInv)
<1>1. Init => TypeInv /\ HoldInv /\ OrderInv
  BY TypeInit, HoldInit, OrderInit
<1>2. TypeInv /\ HoldInv /\ OrderInv /\ [Next]_vars => TypeInv' /\ HoldInv' /\ OrderInv'
  BY TypeNext, HoldNext, OrderNext
<1> QED
  BY <1>1, <1>2, PTL DEF Spec

(* PacketProcess never gets a CONNECT of a session it holds for connected, *)
(* nor anything else of one it holds for closed, although a session's tag  *)
(* is free before its CLOSE is queued; but for sessions the logic thread   *)
(* itself went to close and those whose client sent a CONNECT or a CLOSE.  *)
THEOREM PacketsComeExpected == Spec => []PacketsExpected
<1>1. TypeInv /\ HoldInv /\ OrderInv => PacketsExpected
  <2> SUFFICES ASSUME TypeInv, OrderInv, queue # <<>>, Head(queue).session \notin Void
               PROVE  Head(queue).id = "CONNECT" <=> Head(queue).session \notin known
    BY DEF PacketsExpected
  <2>1. queue \in Seq(Packet) /\ Head(queue).session \in Slots
    <3>1. queue \in Seq(Packet)
      BY DEF TypeInv, DataTypes
    <3>2. Head(queue) \in Packet
      BY <3>1, TailFacts
    <3> QED
      BY <3>1, <3>2 DEF Packet
  <2>2. Alternates(queue, Head(queue).session, known, Opened)
    BY <2>1 DEF OrderInv
  <2> QED
    BY <2>1, <2>2, AlternatesFirst
<1> QED
  BY <1>1, OrderAlways, PTL
-----------------------------------------------------------------------------
(* Whose packets they are.                                                 *)

\* A step leaves a session to its connection, unless it connects it, in which
\* case its last packet queued is a CLOSE, or the network thread leaves it.
OwnStep(s) ==
    \/ s \notin Opened
    \/ Leaving(s)'
    \/ session'[s].seq = session[s].seq /\ ~Leaving(s)
    \/ ReportClose("net") /\ At("net") = s

\* The network thread stays with the session whose CLOSE it is to queue.
LEMMA ReportStays ==
  ASSUME TypeInv, [Next]_vars, pc["net"] = "report", ~ReportClose("net")
  PROVE  pc'["net"] = "report" /\ slot'["net"] = slot["net"]
<1> USE DEF TypeInv
<1>1. ~Network
  BY DEF Network, Net, Select, LeaveRun, Accept, ConnectedSession, AnnounceConnect,
     NoMoreToAccept, Serve, Receive, FramePacket, FrameEnds, Flush, CloseSession, CloseTest,
     CloseSocket, FdClr, Clear, ReleaseTag
<1>2. CASE Logic
  <2>1. /\ pc' = pc \/ \E label : Goto("logic", label)
        /\ slot' = slot \/ \E s : slot' = [slot EXCEPT !["logic"] = s]
    <3>1. CASE TestIsRun \/ Process \/ QueueEmpty \/ ForcingClose \/ ReadSocketFD \/ CheckDone
      BY <3>1 DEF TestIsRun, Process, QueueEmpty, ForcingClose, ReadSocketFD, CheckDone,
         StartCheck
    <3>2. CASE CloseSession("logic")
      BY <3>2 DEF CloseSession, CloseTest, CloseSocket, FdClr, Clear, ReleaseTag, ReportClose,
         Return
    <3> QED
      BY <1>2, <3>1, <3>2 DEF Logic
  <2> QED
    BY <2>1, OneThread DEF ThreadTypes, Threads
<1>3. CASE Starting \/ Stop \/ Stopping \/ Ended \/ UNCHANGED vars
  <2>1. slot' = slot /\ (pc' = pc \/ Goto("logic", "outer"))
    BY <1>3 DEF Starting, InitNetwork, InitFails, StartLogic, Stop, Stopping, Release,
       Exit, Ended, vars, threadVars, MainInv
  <2> QED
    BY <2>1, OneThread DEF Threads
<1> QED
  BY <1>1, <1>2, <1>3 DEF Next

LEMMA OwnKinds ==
  ASSUME IndexAssigned, TypeInv, HoldInv, [Next]_vars, NEW s \in Slots \ Void'
  PROVE  OwnStep(s)
<1>1. At("net") = slot["net"] /\ At("net")' = slot'["net"] /\ slot["net"] \in Slots
  BY DEF At, Index, TypeInv, ThreadTypes
<1>2. CASE pc["net"] = "report"
  <2>1. ~ReportClose("net") => (Leaving(s) => Leaving(s)')
    BY <1>1, <1>2, ReportStays DEF Leaving
  <2>2. ~Leaving(s) => session'[s].seq = session[s].seq
    <3>1. CASE UNCHANGED session
      BY <3>1
    <3>2. CASE Clear("logic")
      <4>1. slot["logic"] \in forced' /\ session' = [session EXCEPT ![slot["logic"]] = NotConnected]
        BY <3>2 DEF Clear, Cleared, historyVars, TypeInv, ThreadTypes, CloseLabels, At
      <4> QED
        BY <4>1 DEF TypeInv, DataTypes, Void
    <3>3. Kind => UNCHANGED session \/ Clear("logic")
      BY <1>2 DEF Kind, Still, Quiet, SessionsSame, Accept, ConnectedSession, ForcingClose,
         ReadSocketFD, Enters, CloseTest, CloseSocket, FdClr, Clear, ReleaseTag, networkVars,
         Threads
    <3> QED
      BY <3>1, <3>2, <3>3, Kinds
  <2>3. Leaving(s) /\ ReportClose("net") => At("net") = s
    BY DEF Leaving
  <2> QED
    BY <2>1, <2>2, <2>3 DEF OwnStep
<1>3. ASSUME pc["net"] # "report", UNCHANGED session,
             pc["net"] = "release" => pc'["net"] \in {"release", "report"} /\ slot'["net"] = slot["net"]
      PROVE  OwnStep(s)
  BY <1>1, <1>3 DEF OwnStep, Leaving
<1>4. CASE pc["net"] # "report"
  <2>1. CASE Still \/ Accept
    BY <1>3, <1>4, <2>1 DEF Still, SessionsSame, Accept
  <2>2. CASE Quiet("net")
    BY <1>3, <1>4, <2>2 DEF Quiet, SessionsSame, Holding
  <2>3. CASE Quiet("logic")
    BY <1>3, <1>4, <2>3 DEF Quiet, SessionsSame, Threads
  <2>4. CASE ForcingClose \/ ReadSocketFD
    <3>1. pc'["net"] = pc["net"] /\ slot'["net"] = slot["net"] /\ UNCHANGED session
      BY <2>4 DEF ForcingClose, ReadSocketFD, networkVars, Goto, TypeInv, ThreadTypes, Threads
    <3> QED
      BY <1>3, <1>4, <3>1
  <2>5. ASSUME NEW t \in Threads, Enters(t) \/ CloseSocket(t) \/ FdClr(t) \/ ReleaseTag(t)
        PROVE  OwnStep(s)
    <3>1. /\ UNCHANGED <<session, slot>>
          /\ \/ pc[t] # "release" /\ \E label : Goto(t, label)
             \/ pc[t] = "release" /\ Goto(t, "report")
      BY <2>5 DEF Enters, CloseTest, ToClose, CloseSocket, FdClr, ReleaseTag, networkVars
    <3>2. pc["net"] = "release" => pc'["net"] \in {"release", "report"}
      BY <3>1, OneThread DEF TypeInv, Threads
    <3> QED
      BY <1>3, <1>4, <3>1, <3>2
  <2>6. CASE ConnectedSession
    <3>1. /\ pc["net"] = "connect"
          /\ \A x \in Slots : x # slot["net"] => session'[x] = session[x]
      BY <2>6 DEF ConnectedSession, TypeInv, DataTypes
    <3>2. s = slot["net"] => s \notin Opened
      <4>1. s = slot["net"] => ~IsConnected(s)
        BY <2>6, <3>1 DEF ConnectedSession, historyVars, HoldInv, CloseInv, TypeInv, DataTypes,
           Void
      <4> QED
        BY <3>1, <4>1 DEF Opened
    <3> QED
      BY <3>1, <3>2 DEF OwnStep, Leaving
  <2>7. ASSUME NEW t \in Threads, Clear(t) PROVE OwnStep(s)
    <3>1. /\ pc[t] = "clear" /\ Goto(t, "release") /\ UNCHANGED <<slot, forced>>
          /\ session' = [session EXCEPT ![At(t)] = NotConnected]
      BY <2>7 DEF Clear, Cleared, historyVars
    <3>2. pc'[t] = "release" /\ \A o \in Threads \ {t} : pc'[o] = pc[o]
      BY <3>1, OneThread DEF TypeInv
    <3>3. s # At(t) => session'[s] = session[s]
      BY <3>1 DEF TypeInv, DataTypes
    <3>4. CASE t = "net"
      <4>1. s = At("net") => Leaving(s)'
        BY <1>1, <3>1, <3>2, <3>4 DEF Leaving
      <4> QED
        BY <3>1, <3>3, <3>4, <4>1 DEF OwnStep, Leaving
    <3>5. CASE t = "logic"
      <4>1. s # At("logic")
        BY <3>1, <3>5 DEF TypeInv, ThreadTypes, CloseLabels, At, Void
      <4>2. Leaving(s) => Leaving(s)'
        BY <1>1, <3>1, <3>2, <3>5 DEF Leaving, Threads
      <4> QED
        BY <3>3, <3>5, <4>1, <4>2 DEF OwnStep
    <3> QED
      BY <3>4, <3>5 DEF Threads
  <2> QED
    BY <2>1, <2>2, <2>3, <2>4, <2>5, <2>6, <2>7, Kinds DEF Kind
<1> QED
  BY <1>2, <1>4

Behind(q, i, s) == \E k \in DOMAIN q : i < k /\ Is(q, k, s, "CLOSE")

OwnerInv ==
    overlapped = {} =>
        \A i \in DOMAIN queue, s \in Slots \ Void :
            Is(queue, i, s, "PACKET") =>
                session[s].seq = queue[i].from \/ Behind(queue, i, s) \/ Leaving(s)

LEMMA OverlapStays ==
  ASSUME [Next]_vars, TypeInv
  PROVE  overlapped \subseteq overlapped'
  BY Kinds DEF Kind, Still, Quiet, SessionsSame, Accept, ConnectedSession, ForcingClose,
     ReadSocketFD, Enters, CloseTest, CloseSocket, FdClr, Clear, ReleaseTag, historyVars

LEMMA OwnerNext ==
  ASSUME IndexAssigned, TypeInv, HoldInv, SocketInv, OrderInv, OwnerInv, [Next]_vars
  PROVE  OwnerInv'
<1>1. \A s \in Slots \ Void' : OwnStep(s)
  BY OwnKinds
<1>2. queue \in Seq(Packet) /\ Len(queue) \in Nat /\ DOMAIN queue = 1 .. Len(queue)
  BY DEF TypeInv, DataTypes
<1>3. Void \subseteq Void'
  BY QueueKinds DEF Mute, Takes, Puts
<1> SUFFICES ASSUME overlapped' = {}, NEW i \in DOMAIN queue', NEW s \in Slots \ Void',
                    Is(queue', i, s, "PACKET")
             PROVE  session'[s].seq = queue'[i].from \/ Behind(queue', i, s) \/ Leaving(s)'
  BY DEF OwnerInv, Is, Behind
<1>4. overlapped = {}
  BY OverlapStays
\* What is in the queue already.
<1>5. ASSUME NEW m \in DOMAIN queue, Is(queue, m, s, "PACKET")
      PROVE  \/ session'[s].seq = queue[m].from \/ Behind(queue, m, s) \/ Leaving(s)'
             \/ ReportClose("net") /\ At("net") = s
  <2>1. session[s].seq = queue[m].from \/ Behind(queue, m, s) \/ Leaving(s)
    BY <1>3, <1>4, <1>5 DEF OwnerInv
  <2>2. CASE s \notin Opened
    <3>1. Alternates(queue, s, known, Opened)
      BY <1>3 DEF OrderInv
    <3>2. Running(queue, m, s, known) /\ WantsShut(queue, Len(queue) + 1, s, Opened)
      BY <1>2, <1>5, <2>2 DEF Running, WantsShut, Is
    <3>3. m \in 0 .. Len(queue) /\ Len(queue) + 1 \in 1 .. Len(queue) + 1 /\ m < Len(queue) + 1
      BY <1>2
    <3>4. \E k \in 1 .. Len(queue) : m < k /\ k < Len(queue) + 1 /\ Is(queue, k, s, "CLOSE")
      BY <3>1, <3>2, <3>3 DEF Alternates
    <3> QED
      BY <1>2, <3>4 DEF Behind
  <2> QED
    BY <1>1, <2>1, <2>2 DEF OwnStep
<1>6. CASE ReportClose("net")
  <2> SUFFICES ASSUME NEW p, p = [id |-> "CLOSE", session |-> At("net"), from |-> Nobody]
               PROVE  session'[s].seq = queue'[i].from \/ Behind(queue', i, s) \/ Leaving(s)'
    OBVIOUS
  <2>1. queue' = Append(queue, p) /\ p \in Packet /\ p.id = "CLOSE" /\ p.session = At("net")
    BY <1>6, AtSlot DEF ReportClose, Queued, Packet, Threads
  <2>2. /\ DOMAIN queue' = 1 .. Len(queue) + 1 /\ queue'[Len(queue) + 1] = p
        /\ \A k \in DOMAIN queue : queue'[k] = queue[k] /\ k \in DOMAIN queue'
    BY <1>2, <2>1, AppendFacts
  <2>3. i \in DOMAIN queue /\ Is(queue, i, s, "PACKET")
    BY <1>2, <2>1, <2>2 DEF Is
  <2>4. Behind(queue, i, s) => Behind(queue', i, s)
    BY <2>2 DEF Behind, Is
  <2>5. At("net") = s => Behind(queue', i, s)
    <3>1. Len(queue) + 1 \in DOMAIN queue' /\ i < Len(queue) + 1
      BY <1>2, <2>2, <2>3
    <3> QED
      BY <2>1, <2>2, <3>1 DEF Behind, Is
  <2> QED
    BY <1>5, <2>2, <2>3, <2>4, <2>5
<1>7. CASE ~ReportClose("net") /\ Mute
  BY <1>5, <1>7 DEF Mute
<1>8. CASE ~ReportClose("net") /\ Takes
  <2>1. /\ i \in Nat \ {0} /\ i + 1 \in DOMAIN queue /\ queue'[i] = queue[i + 1]
        /\ \A k \in DOMAIN queue : k = 1 \/ (k - 1 \in DOMAIN queue' /\ queue'[k - 1] = queue[k])
    BY <1>2, <1>8, TailFacts DEF Takes
  <2>2. session'[s].seq = queue[i + 1].from \/ Behind(queue, i + 1, s) \/ Leaving(s)'
    BY <1>5, <1>8, <2>1 DEF Is
  <2>3. Behind(queue, i + 1, s) => Behind(queue', i, s)
    <3> SUFFICES ASSUME NEW k \in DOMAIN queue, i + 1 < k, Is(queue, k, s, "CLOSE")
                 PROVE  Behind(queue', i, s)
      BY DEF Behind
    <3>1. k - 1 \in DOMAIN queue' /\ queue'[k - 1] = queue[k] /\ i < k - 1
      BY <1>2, <2>1
    <3> QED
      BY <3>1 DEF Behind, Is
  <2> QED
    BY <2>1, <2>2, <2>3
<1>9. ASSUME ~ReportClose("net"), NEW p \in Packet, FromOwner(p), Puts(p)
      PROVE  session'[s].seq = queue'[i].from \/ Behind(queue', i, s) \/ Leaving(s)'
  <2>1. /\ DOMAIN queue' = 1 .. Len(queue) + 1 /\ queue'[Len(queue) + 1] = p
        /\ \A k \in DOMAIN queue : queue'[k] = queue[k] /\ k \in DOMAIN queue'
    BY <1>2, <1>9, AppendFacts DEF Puts
  <2>2. CASE i \in DOMAIN queue
    <3>1. session'[s].seq = queue[i].from \/ Behind(queue, i, s) \/ Leaving(s)'
      BY <1>5, <1>9, <2>1, <2>2 DEF Is
    <3>2. Behind(queue, i, s) => Behind(queue', i, s)
      BY <2>1 DEF Behind, Is
    <3> QED
      BY <2>1, <2>2, <3>1, <3>2
  <2>3. CASE i = Len(queue) + 1
    <3>1. p.id = "PACKET" /\ s = p.session
      BY <2>1, <2>3 DEF Is
    <3>2. /\ pc["net"] = "frame" /\ At("net") = s /\ p.from = Sender(s)
          /\ UNCHANGED session
      BY <1>9, <3>1 DEF FromOwner
    <3>3. IsConnected(s)
      BY <1>3, <3>2 DEF HoldInv, OpenInv, Void
    <3>4. Owns(s)
      <4>1. \A t \in Threads : ~(At(t) = s /\ pc[t] \in {"fdclr", "clear"})
        BY <1>3, <3>2 DEF Threads, TypeInv, ThreadTypes, CloseLabels, At, Void
      <4> QED
        BY <1>4, <3>3, <4>1 DEF SocketInv
    <3> QED
      BY <2>1, <2>3, <3>2, <3>3, <3>4 DEF Sender, Owns
  <2> QED
    BY <1>2, <2>1, <2>2, <2>3
<1> QED
  BY <1>6, <1>7, <1>8, <1>9, QueueKinds

(* As long as a packet waits its connection has the session, or a CLOSE of *)
(* the session waits behind it or is about to: once the CLOSE is handled,  *)
(* no packet of the connection before it can still be answered to the next *)
(* one. This holds however long the queue is and however often sessions    *)
(* and handles are re-used meanwhile, but for sessions forced to close,    *)
(* those whose client sent a CONNECT or a CLOSE, and after both threads    *)
(* went to close one session at once; and it takes that the sessions know  *)
(* their Index.                                                            *)
THEOREM PacketsStayOwned ==
  ASSUME IndexAssigned
  PROVE  Spec => []PacketsOfOwner
<1> DEFINE Inv == TypeInv /\ HoldInv /\ FdInv /\ SocketInv /\ OrderInv /\ OwnerInv
<1>1. Init => Inv
  <2>1. Init => OwnerInv
    BY DEF Init, TcpNetworkInit, OwnerInv
  <2> QED
    BY <2>1, TypeInit, HoldInit, SocketInit, OrderInit
<1>2. Inv /\ [Next]_vars => Inv'
  BY TypeNext, HoldNext, Kinds, FdNext, SocketNext, OrderNext, OwnerNext
<1>3. Inv => PacketsOfOwner
  <2> SUFFICES ASSUME TypeInv, OwnerInv, overlapped = {}, NEW i \in DOMAIN queue,
                      NEW s, s = queue[i].session, queue[i].id = "PACKET", s \notin Void
               PROVE  session[s].seq = queue[i].from \/ CloseBehind(i, s) \/ Leaving(s)
    BY DEF PacketsOfOwner
  <2>1. s \in Slots
    <3>1. queue[i] \in Packet
      BY DEF TypeInv, DataTypes
    <3> QED
      BY <3>1 DEF Packet
  <2>2. session[s].seq = queue[i].from \/ Behind(queue, i, s) \/ Leaving(s)
    BY <2>1 DEF OwnerInv, Is
  <2>3. i \in Nat
    BY DEF TypeInv, DataTypes
  <2>4. Behind(queue, i, s) => CloseBehind(i, s)
    BY <2>3 DEF Behind, CloseBehind, Is, TypeInv, DataTypes
  <2> QED
    BY <2>2, <2>4
<1> QED
  BY <1>1, <1>2, <1>3, PTL DEF Spec
-----------------------------------------------------------------------------
(* The refinement of PacketOrder.                                          *)

Shown(q) == [i \in DOMAIN q |-> [id |-> q[i].id, session |-> q[i].session]]

LEMMA ShownAppend ==
  ASSUME NEW q \in Seq(Packet), NEW p \in Packet
  PROVE  Shown(Append(q, p)) = Append(Shown(q), [id |-> p.id, session |-> p.session])
<1> SUFFICES ASSUME NEW n, n = Len(q), NEW e, e = [id |-> p.id, session |-> p.session],
                    NEW w, w = Shown(q)
             PROVE  Shown(Append(q, p)) = Append(w, e)
  OBVIOUS
<1>1. /\ n \in Nat /\ DOMAIN q = 1 .. n /\ DOMAIN Append(q, p) = 1 .. n + 1
      /\ Append(q, p)[n + 1] = p /\ \A i \in 1 .. n : Append(q, p)[i] = q[i]
  BY AppendFacts
<1>2. w = [i \in 1 .. n |-> [id |-> q[i].id, session |-> q[i].session]]
  BY <1>1 DEF Shown
<1>3. w \in Seq({w[i] : i \in 1 .. n}) /\ Len(w) = n
  BY <1>1, <1>2
<1>4. /\ DOMAIN Append(w, e) = 1 .. n + 1 /\ Append(w, e)[n + 1] = e
      /\ \A i \in 1 .. n : Append(w, e)[i] = w[i]
  BY <1>1, <1>3
<1>5. Append(w, e) = [i \in 1 .. n + 1 |-> Append(w, e)[i]]
  BY <1>1, <1>3
<1>6. \A i \in 1 .. n + 1 :
          Append(w, e)[i] = [id |-> Append(q, p)[i].id, session |-> Append(q, p)[i].session]
  BY <1>1, <1>2, <1>4
<1>7. Append(w, e) = [i \in 1 .. n + 1 |->
          [id |-> Append(q, p)[i].id, session |-> Append(q, p)[i].session]]
  BY <1>5, <1>6
<1> QED
  BY <1>1, <1>7 DEF Shown

LEMMA ShownTail ==
  ASSUME NEW q \in Seq(Packet), q # <<>>
  PROVE  Shown(q) # <<>> /\ Shown(Tail(q)) = Tail(Shown(q))
<1> SUFFICES ASSUME NEW n, n = Len(q), NEW w, w = Shown(q), NEW r, r = Tail(q)
             PROVE  w # <<>> /\ Shown(r) = Tail(w)
  OBVIOUS
<1>1. /\ n \in Nat \ {0} /\ DOMAIN q = 1 .. n /\ DOMAIN r = 1 .. n - 1
      /\ \A i \in 1 .. n - 1 : r[i] = q[i + 1] /\ i + 1 \in 1 .. n
  BY TailFacts
<1>2. w = [i \in 1 .. n |-> [id |-> q[i].id, session |-> q[i].session]]
  BY <1>1 DEF Shown
<1>3. w \in Seq({w[i] : i \in 1 .. n}) /\ Len(w) = n /\ w # <<>>
  BY <1>1, <1>2
<1>4. Tail(w) = [i \in 1 .. n - 1 |-> w[i + 1]]
  <2> DEFINE S == {w[i] : i \in 1 .. n}
  <2> HIDE DEF S
  <2>1. w \in Seq(S)
    BY <1>3 DEF S
  <2>2. /\ Tail(w) \in Seq(S) /\ DOMAIN Tail(w) = 1 .. n - 1
        /\ \A i \in 1 .. n - 1 : Tail(w)[i] = w[i + 1]
    BY <1>3, <2>1, TailFacts
  <2>3. ASSUME NEW t \in Seq(S), DOMAIN t = 1 .. n - 1, \A i \in 1 .. n - 1 : t[i] = w[i + 1]
        PROVE  t = [i \in 1 .. n - 1 |-> w[i + 1]]
    <3>1. t = [i \in 1 .. n - 1 |-> t[i]]
      BY <2>3
    <3> QED
      BY <2>3, <3>1
  <2> QED
    BY <2>2, <2>3
<1>5. \A i \in 1 .. n - 1 : w[i + 1] = [id |-> r[i].id, session |-> r[i].session]
  BY <1>1, <1>2
<1>6. Tail(w) = [i \in 1 .. n - 1 |-> [id |-> r[i].id, session |-> r[i].session]]
  BY <1>4, <1>5
<1> QED
  BY <1>1, <1>3, <1>6 DEF Shown

Kept == Opened \ Void

LEMMA KeptMoves ==
  /\ OpenedSame /\ Void' = Void => Kept' = Kept
  /\ \A s : OpenedSame /\ Void' = Void \cup {s} => Kept' = Kept \ {s}
<1>1. Opened \subseteq Slots /\ Opened' \subseteq Slots
  BY DEF Opened
<1> QED
  BY <1>1 DEF Kept, OpenedSame

LEMMA OrderStep ==
  ASSUME TypeInv, HoldInv, [Next]_vars
  PROVE  [Order!Next]_(Order!orderVars)
<1> DEFINE packets == Shown(queue)
           Put(id, s) == packets' = Append(packets, [id |-> id, session |-> s])
           OrderNext_ ==
             \/ packets # <<>> /\ packets' = Tail(packets) /\ UNCHANGED <<Kept, Void>>
             \/ \E s \in Slots :
                  \/ s \notin Kept \cup Void /\ Put("CONNECT", s) /\ Kept' = Kept \cup {s}
                     /\ Void' = Void
                  \/ s \in Kept /\ Put("PACKET", s) /\ UNCHANGED <<Kept, Void>>
                  \/ s \in Kept /\ Put("CLOSE", s) /\ Kept' = Kept \ {s} /\ Void' = Void
                  \/ Void' = Void \cup {s} /\ Kept' = Kept \ {s} /\ packets' = packets
                  \/ (\E id \in {"CONNECT", "PACKET", "CLOSE"} : Put(id, s))
                     /\ Void' = Void \cup {s} /\ Kept' = Kept \ {s}
<1>1. queue \in Seq(Packet)
  BY DEF TypeInv, DataTypes
<1>2. OrderNext_ \/ UNCHANGED <<packets, Kept, Void>>
  <2>1. CASE Mute
    <3>1. packets' = packets
      BY <2>1 DEF Mute, Shown
    <3>2. CASE Void' = Void
      BY <2>1, <3>1, <3>2, KeptMoves DEF Mute
    <3>3. CASE \E s \in Slots : Void' = Void \cup {s}
      BY <2>1, <3>1, <3>3, KeptMoves DEF Mute
    <3> QED
      BY <2>1, <3>2, <3>3 DEF Mute
  <2>2. CASE Takes
    <3>1. packets # <<>> /\ packets' = Tail(packets)
      BY <1>1, <2>2, ShownTail DEF Takes, Shown
    <3> QED
      BY <2>2, <3>1, KeptMoves DEF Takes
  <2>3. ASSUME NEW p \in Packet, Puts(p) PROVE OrderNext_
    <3>1. /\ Put(p.id, p.session) /\ p.session \in Slots
          /\ p.id \in {"CONNECT", "PACKET", "CLOSE"}
          /\ Void' = Void \/ Void' = Void \cup {p.session}
      BY <1>1, <2>3, ShownAppend DEF Puts, Packet, Shown
    <3>2. CASE p.session \in Void'
      <4>1. Void' = Void \cup {p.session}
        BY <3>1, <3>2
      <4>2. Kept' = Kept \ {p.session}
        BY <2>3, <3>2, <4>1, KeptMoves DEF Puts, InTurn
      <4> QED
        BY <3>1, <4>1, <4>2
    <3>3. CASE p.session \notin Void'
      <4> SUFFICES ASSUME NEW s, s = p.session PROVE OrderNext_
        OBVIOUS
      <4>0. Void' = Void
        BY <3>1, <3>3
      <4>1. /\ \A x \in Slots \ (Void \cup {s}) : x \in Opened' <=> x \in Opened
            /\ \/ p.id = "CONNECT" /\ s \notin Opened /\ s \in Opened'
               \/ p.id = "PACKET" /\ s \in Opened /\ s \in Opened'
               \/ p.id = "CLOSE" /\ s \in Opened /\ s \notin Opened'
        BY <2>3, <3>3, <4>0 DEF Puts, InTurn
      <4>2. Opened \subseteq Slots /\ Opened' \subseteq Slots
        BY DEF Opened
      <4>3. CASE p.id = "CONNECT"
        <5>1. s \notin Kept \cup Void /\ Kept' = Kept \cup {s}
          BY <3>3, <4>0, <4>1, <4>2, <4>3 DEF Kept
        <5> QED
          BY <3>1, <4>0, <4>3, <5>1
      <4>4. CASE p.id = "PACKET"
        <5>1. s \in Kept /\ Kept' = Kept
          BY <3>3, <4>0, <4>1, <4>2, <4>4 DEF Kept
        <5> QED
          BY <3>1, <4>0, <4>4, <5>1
      <4>5. CASE p.id = "CLOSE"
        <5>1. s \in Kept /\ Kept' = Kept \ {s}
          BY <3>3, <4>0, <4>1, <4>2, <4>5 DEF Kept
        <5> QED
          BY <3>1, <4>0, <4>5, <5>1
      <4> QED
        BY <4>1, <4>3, <4>4, <4>5
    <3> QED
      BY <3>2, <3>3
  <2> QED
    BY <2>1, <2>2, <2>3, QueueKinds
<1>3. UNCHANGED <<packets, Kept, Void>> => UNCHANGED (Order!orderVars)
  BY DEF Order!orderVars, Shown, Kept
<1>4. OrderNext_ => Order!Next
  BY DEF Order!Next, Order!Take, Order!Connect, Order!Deliver, Order!Close, Order!Waive,
     Order!PutAnything, Order!Put, Shown, Kept
<1> QED
  BY <1>2, <1>3, <1>4

(* Both threads together, access by access, implement PacketOrder: every   *)
(* step queues a packet that is its session's next, takes the first one,   *)
(* gives up a session (goes to force its close, or queues its client's own *)
(* CONNECT or CLOSE), or leaves the queue as it is.                        *)
THEOREM PacketOrderImplemented == Spec => ImplementsPacketOrder
<1>1. Init => Order!Init
  <2> SUFFICES ASSUME Init PROVE Order!Init
    OBVIOUS
  <2>1. queue = <<>> /\ forced = {} /\ forged = {} /\ pc["net"] = "off" /\ \A s \in Slots : ~IsConnected(s)
    BY DEF Init, TcpNetworkInit, IsConnected, NotConnected, Threads
  <2>2. Opened = {}
    BY <2>1 DEF Opened
  <2>3. [i \in DOMAIN queue |-> [id |-> queue[i].id, session |-> queue[i].session]] = <<>>
    BY <2>1
  <2> QED
    BY <2>1, <2>2, <2>3 DEF Order!Init, Void
<1>2. TypeInv /\ HoldInv /\ [Next]_vars => [Order!Next]_(Order!orderVars)
  BY OrderStep
<1>3. Spec => Order!Spec
  BY <1>1, <1>2, HoldsAlways, PTL DEF Spec, Order!Spec
<1> QED
  BY <1>3 DEF ImplementsPacketOrder
=============================================================================
