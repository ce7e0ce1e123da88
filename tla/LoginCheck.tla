---------------------------- MODULE LoginCheck -----------------------------
(***************************************************************************)
(* ConnectedUserManager and the timeout check that the logic thread runs   *)
(* whenever it has found no packet in the queue, together with what feeds  *)
(* it: the network thread that accepts connections, receives, closes and   *)
(* reports through the queue. Both threads close sessions, with no lock: a *)
(* step of one may fall between any two of the other. A session slot may be*)
(* taken by a new connection before the logic thread has read that the old *)
(* one is gone, and a client may send packets with the ids of the reports. *)
(*                                                                         *)
(* The sockets are left to TcpNetwork; a slot is open for a connection, or *)
(* it is not.                                                              *)
(***************************************************************************)
EXTENDS Integers, Sequences, FiniteSets

CONSTANTS
    MaxSessionCount,
    Batch,        \* 100: the sessions one call of LoginCheck looks at
    Timeout,      \* 180 seconds
    MaxQueue,     \* bound: clients connect and send while the queue is shorter
    MaxAstray     \* bound on the sessions that go astray

ASSUME LoginCheckAssumption ==
    /\ MaxSessionCount \in Nat \ {0}
    /\ Batch \in Nat \ {0}
    /\ Timeout \in Nat \ {0}
    /\ MaxQueue \in Nat /\ MaxAstray \in Nat

Sessions == 0 .. MaxSessionCount - 1
NoTime   == -1                        \* _connectedTime = 0
Ages     == 0 .. Timeout              \* seconds; Timeout and more are one
Threads  == {"net", "logic"}

VARIABLES
    connectedUser,  \* _connectedUserList, _connectedTime as its age
    cursor,         \* _latestLogincheckIndex
    due,            \* 60 ms have passed since _latestLoginCheckTime
    overdue,        \* the sessions LoginCheck has still to force to close
    queue,          \* _packetQueue
    openFor,        \* the network's sessions: the age of the connection
    tags,           \* how often the session is in the pool's deque of free ones
    at, slot,       \* of each thread: its step, and the session it is at
    astray          \* history: the sessions both threads were at at once, and
                    \* those whose client sent a CONNECT or a CLOSE itself

listVars   == <<connectedUser, cursor, due, overdue>>
threadVars == <<at, slot>>
vars == <<listVars, queue, openFor, tags, threadVars, astray>>

Packets == [id : {"CONNECT", "LOGIN", "CLOSE", "NONE"}, session : Sessions]

NotConnected == [age |-> NoTime, login |-> FALSE]

CloseSteps == {"clear", "release", "report"}
NetSteps   == {"idle", "connect", "announce", "receive"} \cup CloseSteps
LogicSteps == {"run", "check", "force"} \cup CloseSteps

LoginCheckTypeOK ==
    /\ connectedUser \in [Sessions -> [age : Ages \cup {NoTime},
                                       login : BOOLEAN]]
    /\ cursor \in -1 .. MaxSessionCount
    /\ due \in BOOLEAN /\ overdue \subseteq Sessions
    /\ queue \in Seq(Packets)
    /\ openFor \in [Sessions -> Ages \cup {NoTime}]
    /\ tags \in [Sessions -> Nat]
    /\ at \in [Threads -> NetSteps \cup LogicSteps]
    /\ at["net"] \in NetSteps /\ at["logic"] \in LogicSteps
    /\ slot \in [Threads -> Sessions]
    /\ astray \subseteq Sessions

Init ==
    /\ connectedUser = [s \in Sessions |-> NotConnected]
    /\ cursor = -1
    /\ due = FALSE /\ overdue = {}
    /\ queue = <<>>
    /\ openFor = [s \in Sessions |-> NoTime]
    /\ tags = [s \in Sessions |-> 1]
    /\ at = [t \in Threads |-> IF t = "net" THEN "idle" ELSE "run"]
    /\ slot = [t \in Threads |-> 0]
    /\ astray = {}
-----------------------------------------------------------------------------
Report(id, s) == Append(queue, [id |-> id, session |-> s])

Busy(t) == at[t] \notin {"idle", "run", "check", "force"}
IsAt(t, s) == Busy(t) /\ slot[t] = s

\* A thread goes on in its place, leaves it, or goes to a session, where the
\* other may be already.
Step(t, label) ==
    /\ at' = [at EXCEPT ![t] = label]
    /\ UNCHANGED <<slot, astray>>

Leave(t) ==
    /\ at' = [at EXCEPT ![t] = IF t = "net" THEN "idle" ELSE "force"]
    /\ slot' = [slot EXCEPT ![t] = 0]
    /\ astray' = astray

Visit(t, s, label) ==
    /\ at' = [at EXCEPT ![t] = label]
    /\ slot' = [slot EXCEPT ![t] = s]
    /\ astray' = IF \E o \in Threads \ {t} : IsAt(o, s)
                 THEN astray \cup {s} ELSE astray
    /\ Cardinality(astray') <= MaxAstray

\* closeSession: past the test of IsConnected, Clear, ReleaseTag and the
\* report are steps. Bound: where both threads release it, the session is not
\* in the deque already.
ToClose(s) == openFor[s] # NoTime

GoClose(t, s) ==
    /\ ToClose(s)
    /\ Visit(t, s, "clear")
    /\ s \in astray' => tags[s] = 0

Clear(t) ==
    /\ at[t] = "clear"
    /\ openFor' = [openFor EXCEPT ![slot[t]] = NoTime]
    /\ Step(t, "release")
    /\ UNCHANGED <<listVars, queue, tags>>

ReleaseTag(t) ==
    /\ at[t] = "release"
    /\ tags' = [tags EXCEPT ![slot[t]] = @ + 1]
    /\ Step(t, "report")
    /\ UNCHANGED <<listVars, queue, openFor>>

ReportClose(t) ==
    /\ at[t] = "report"
    /\ queue' = Report("CLOSE", slot[t])
    /\ Leave(t)
    /\ UNCHANGED <<listVars, openFor, tags>>

CloseSession(t) == Clear(t) \/ ReleaseTag(t) \/ ReportClose(t)
-----------------------------------------------------------------------------
\* Network thread: newSession and connectedSession, recvSocket and
\* recvBufferProcess, closeSession.
Accept(s) ==
    /\ at["net"] = "idle" /\ tags[s] > 0 /\ Len(queue) < MaxQueue
    /\ tags' = [tags EXCEPT ![s] = @ - 1]
    /\ Visit("net", s, "connect")
    /\ UNCHANGED <<listVars, queue, openFor>>

ConnectedSession ==
    /\ at["net"] = "connect"
    /\ openFor' = [openFor EXCEPT ![slot["net"]] = 0]
    /\ Step("net", "announce")
    /\ UNCHANGED <<listVars, queue, tags>>

AnnounceConnect ==
    /\ at["net"] = "announce"
    /\ queue' = Report("CONNECT", slot["net"])
    /\ Leave("net")
    /\ UNCHANGED <<listVars, openFor, tags>>

Receive(s) ==
    /\ at["net"] = "idle" /\ openFor[s] # NoTime /\ Len(queue) < MaxQueue
    /\ Visit("net", s, "receive")
    /\ UNCHANGED <<listVars, queue, openFor, tags>>

\* A packet with the id of its header, whatever that is: of the ids that
\* matter here, LOGIN, those of the reports, and 0.
ReceivePacket(id) ==
    LET s == slot["net"]
    IN  /\ at["net"] = "receive" /\ Len(queue) < MaxQueue
        /\ queue' = Report(id, s)
        /\ astray' = IF id \in {"CONNECT", "CLOSE"} THEN astray \cup {s} ELSE astray
        /\ Cardinality(astray') <= MaxAstray
        /\ UNCHANGED <<listVars, openFor, tags, threadVars>>

EndReceive ==
    /\ at["net"] = "receive"
    /\ Leave("net")
    /\ UNCHANGED <<listVars, queue, openFor, tags>>

\* The peer has gone, or a receive or a send fails.
NetClose(s) ==
    /\ at["net"] = "idle" /\ Len(queue) < MaxQueue
    /\ GoClose("net", s)
    /\ UNCHANGED <<listVars, queue, openFor, tags>>
-----------------------------------------------------------------------------
\* SetConnectSession, SetLogin, SetDisConnectSession.
ClearTimeOnly(s) == [connectedUser[s] EXCEPT !.age = NoTime]
Cleared(s) == NotConnected

Handled(p) ==
    LET s == p.session
    IN  [connectedUser EXCEPT ![s] =
            CASE p.id = "CONNECT" -> [@ EXCEPT !.age = 0]
              [] p.id = "LOGIN"   -> [@ EXCEPT !.login = TRUE]
              [] p.id = "CLOSE"   -> Cleared(s)
              [] p.id = "NONE"    -> @]

\* Logic thread: a packet is handled, or there is none. GetPacketInfo returns
\* the id 0 for an empty queue, so that a packet of that id looks like one.
Process ==
    /\ at["logic"] = "run" /\ queue # <<>>
    /\ connectedUser' = Handled(Head(queue))
    /\ queue' = Tail(queue)
    /\ Step("logic", IF Head(queue).id = "NONE" THEN "check" ELSE "run")
    /\ UNCHANGED <<cursor, due, overdue, openFor, tags>>

QueueEmpty ==
    /\ at["logic"] = "run" /\ queue = <<>>
    /\ Step("logic", "check")
    /\ UNCHANGED <<listVars, queue, openFor, tags>>

\* Wraps around, then steps on, though the for loop has left the cursor past
\* the last batch already.
FirstWithoutStep == IF cursor \in Sessions THEN cursor ELSE 0
FirstWithoutWrap == cursor + 1
FirstOfBatch == (IF cursor >= MaxSessionCount THEN -1 ELSE cursor) + 1

EndOfBatch == IF FirstOfBatch + Batch > MaxSessionCount
              THEN MaxSessionCount ELSE FirstOfBatch + Batch

TimeAlmostOver(s) ==
    /\ connectedUser[s].age # NoTime
    /\ connectedUser[s].login
    /\ connectedUser[s].age >= Timeout - 1

TimeOver(s) ==
    /\ connectedUser[s].age # NoTime
    /\ connectedUser[s].login
    /\ connectedUser[s].age >= Timeout

\* LoginCheck reads the clock once and only what the logic thread writes, so
\* that the sessions it will force to close are settled when it starts.
StateCheck ==
    /\ at["logic"] = "check"
    /\ IF due
       THEN /\ due' = FALSE
            /\ cursor' = EndOfBatch
            /\ overdue' = {s \in FirstOfBatch .. EndOfBatch - 1 : TimeOver(s)}
            /\ Step("logic", "force")
       ELSE Step("logic", "run") /\ UNCHANGED <<due, cursor, overdue>>
    /\ UNCHANGED <<connectedUser, queue, openFor, tags>>

\* One after the other in the order of the indices. ForcingClose does nothing
\* for a session that is closed already.
ForcingClose(s) ==
    /\ at["logic"] = "force"
    /\ s \in overdue /\ \A o \in overdue : s <= o
    /\ overdue' = overdue \ {s}
    /\ \/ GoClose("logic", s)
       \/ ~ToClose(s) /\ Step("logic", "force")
    /\ UNCHANGED <<connectedUser, cursor, due, queue, openFor, tags>>

CheckDone ==
    /\ at["logic"] = "force" /\ overdue = {}
    /\ Step("logic", "run")
    /\ UNCHANGED <<listVars, queue, openFor, tags>>
-----------------------------------------------------------------------------
Older(age) == IF age \in {NoTime, Timeout} THEN age ELSE age + 1

\* Time: 60 ms pass, or the seconds count up.
Elapse ==
    /\ due' = TRUE
    /\ UNCHANGED <<connectedUser, cursor, overdue, queue, openFor, tags,
                   threadVars, astray>>

Second ==
    /\ due' = TRUE
    /\ connectedUser' = [s \in Sessions |->
           [connectedUser[s] EXCEPT !.age = Older(@)]]
    /\ openFor' = [s \in Sessions |-> Older(openFor[s])]
    /\ UNCHANGED <<cursor, overdue, queue, tags, threadVars, astray>>

Clients ==
    \/ \E s \in Sessions : Accept(s) \/ Receive(s) \/ NetClose(s)
    \/ \E id \in {"CONNECT", "LOGIN", "CLOSE", "NONE"} : ReceivePacket(id)

Network == ConnectedSession \/ AnnounceConnect \/ EndReceive \/ CloseSession("net")

Logic ==
    \/ Process \/ QueueEmpty \/ StateCheck \/ CheckDone
    \/ \E s \in Sessions : ForcingClose(s)
    \/ CloseSession("logic")

Next == Clients \/ Network \/ Logic \/ Elapse \/ Second

\* Both threads keep running and time keeps passing; clients need not do
\* anything.
Spec ==
    /\ Init /\ [][Next]_vars
    /\ WF_vars(Network) /\ WF_vars(Logic) /\ WF_vars(Elapse)
-----------------------------------------------------------------------------
Skipped == {s \in Sessions : s % (Batch + 1) = Batch}

(* The for loop leaves the cursor one past its batch and the next call     *)
(* steps over it: every (Batch + 1)-th session is never looked at.         *)
SkippedNeverForced ==
    [][Clear("logic") => \A s \in Skipped : openFor'[s] = openFor[s]]_vars

(* Once all that was reported is handled and no thread is at a session, the*)
(* list says of it what the network knows: connected or not, and for how   *)
(* long. A close by the check leaves it so too, unless the network thread  *)
(* was at the same session meanwhile; then, and after a CONNECT or CLOSE of*)
(* the client's own, the list may be wrong.                                *)
ListFollowsNetwork ==
    queue = <<>> =>
        \A s \in Sessions \ astray :
            (\A t \in Threads : ~IsAt(t, s)) =>
                /\ connectedUser[s].age = NoTime <=> openFor[s] = NoTime
                /\ connectedUser[s].age <= openFor[s]
                /\ connectedUser[s].login => openFor[s] # NoTime

(* If packets leave the check room to run again and again, a session that  *)
(* it looks at and finds time-over is closed, unless it goes by itself or  *)
(* has gone astray.                                                        *)
TimeOverIsClosed ==
    ([]<>(at["logic"] = "check")) =>
        \A s \in Sessions \ Skipped :
            TimeOver(s) ~> ~TimeOver(s) \/ s \in astray

(* The check acts on a slot by the time of whoever it last knew there. Only *)
(* where that one's CLOSE still waits in the queue can this hit a younger  *)
(* connection, unless both threads were at the slot at once or its client  *)
(* sent a CONNECT or a CLOSE.                                              *)
ClosedEarlyOnlyIfReused ==
    [][\A s \in Sessions \ astray :
         Clear("logic") /\ slot["logic"] = s /\ openFor[s] \in 0 .. Timeout - 1 =>
             \E i \in DOMAIN queue :
                 queue[i] = [id |-> "CLOSE", session |-> s]]_vars

(* Define.h:20, "whether login was completed within a certain time after   *)
(* connecting": the check closes no session that has logged in.            *)
LoggedInNotClosed ==
    [][Clear("logic") =>
         \A s \in Sessions :
             connectedUser[s].login => openFor'[s] = openFor[s]]_vars
=============================================================================
