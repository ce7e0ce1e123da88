-------------------------- MODULE LoginCheckProofs --------------------------
(***************************************************************************)
(* What the timeout check does for every number of sessions, batch size,   *)
(* timeout and queue: the list of connections catches up with the network, *)
(* the check acts early only on a slot that was taken again, and every     *)
(* (Batch + 1)-th session is out of its reach.                             *)
(***************************************************************************)
EXTENDS LoginCheck, TLAPS

USE LoginCheckAssumption DEF LoginCheckAssumption
-----------------------------------------------------------------------------
\* The cursor stands at the beginning, past the last session, or on the
\* session behind a batch, which the next call steps over.
CursorInv == \/ cursor = MaxSessionCount
             \/ \E k \in Int : cursor = k * (Batch + 1) + Batch

LEMMA BatchFacts ==
  ASSUME LoginCheckTypeOK
  PROVE  /\ FirstOfBatch \in 0 .. MaxSessionCount
         /\ EndOfBatch \in FirstOfBatch .. MaxSessionCount
         /\ EndOfBatch = MaxSessionCount \/ EndOfBatch = FirstOfBatch + Batch
         /\ EndOfBatch <= FirstOfBatch + Batch
<1>1. cursor \in -1 .. MaxSessionCount
  BY DEF LoginCheckTypeOK
<1>2. FirstOfBatch \in 0 .. MaxSessionCount
  BY <1>1 DEF FirstOfBatch
<1> HIDE DEF FirstOfBatch
<1> QED
  BY <1>2 DEF EndOfBatch

LEMMA BatchStarts ==
  ASSUME LoginCheckTypeOK, CursorInv
  PROVE  \E k \in Int : FirstOfBatch = k * (Batch + 1)
<1>1. cursor \in -1 .. MaxSessionCount
  BY DEF LoginCheckTypeOK
<1>2. CASE cursor >= MaxSessionCount
  <2>1. FirstOfBatch = 0 * (Batch + 1)
    BY <1>2 DEF FirstOfBatch
  <2> QED
    BY <2>1
<1>3. CASE ~(cursor >= MaxSessionCount)
  <2>1. PICK k \in Int : cursor = k * (Batch + 1) + Batch
    BY <1>1, <1>3 DEF CursorInv
  <2>2. FirstOfBatch = (k + 1) * (Batch + 1)
    BY <1>3, <2>1 DEF FirstOfBatch
  <2> QED
    BY <2>2
<1> QED
  BY <1>2, <1>3

\* Two numbers less than N apart are not both multiples of N, unless equal.
LEMMA NoMultipleBetween ==
  ASSUME NEW N \in Nat \ {0}, NEW q \in Int, NEW d \in 0 .. N - 1, q * N = d
  PROVE  d = 0
<1>1. CASE q <= -1
  <2>1. q * N <= -1 * N
    BY <1>1
  <2> QED
    BY <2>1
<1>2. CASE q = 0
  BY <1>2
<1>3. CASE q >= 1
  <2>1. q * N >= 1 * N
    BY <1>3
  <2> QED
    BY <2>1
<1> QED
  BY <1>1, <1>2, <1>3

\* None of the sessions a call looks at is a skipped one.
LEMMA SkippedOutsideBatch ==
  ASSUME LoginCheckTypeOK, CursorInv, NEW s \in Skipped
  PROVE  s \notin FirstOfBatch .. EndOfBatch - 1
<1> SUFFICES ASSUME s \in FirstOfBatch .. EndOfBatch - 1
             PROVE  FALSE
  OBVIOUS
<1>1. PICK k \in Int : FirstOfBatch = k * (Batch + 1)
  BY BatchStarts
<1> DEFINE N == Batch + 1
           m == s \div N
<1>2. s \in Nat /\ s % N = Batch /\ N \in Nat \ {0}
  BY DEF Skipped, Sessions
<1>3. m \in Int /\ s = m * N + Batch
  BY <1>2
<1> HIDE DEF m, N
<1>4. s - k * N \in 0 .. Batch - 1
  BY <1>1, BatchFacts DEF N
<1>5. (k - m) * N = Batch - (s - k * N)
  BY <1>2, <1>3
<1>6. Batch - (s - k * N) \in 1 .. N - 1
  BY <1>4 DEF N
<1> DEFINE d == Batch - (s - k * N)
<1>7. k - m \in Int /\ N \in Nat \ {0} /\ d \in 0 .. N - 1 /\ d # 0
  BY <1>2, <1>3, <1>6
<1>8. (k - m) * N = d
  BY <1>5
<1> HIDE DEF d
<1> QED
  BY <1>7, <1>8, NoMultipleBetween
-----------------------------------------------------------------------------
\* A thread that is at a session alone finds it as its step needs it.
Places(s) ==
  /\ ~(IsAt("net", s) /\ IsAt("logic", s))
  /\ tags[s] \in {0, 1}
  /\ openFor[s] # NoTime => tags[s] = 0
  /\ \A t \in Threads : slot[t] = s =>
       /\ at[t] \in {"connect", "release"} => tags[s] = 0
       /\ at[t] \in {"connect", "release", "report"} => openFor[s] = NoTime
       /\ at[t] \in {"announce", "receive", "clear"} => openFor[s] # NoTime

\* What the reports have said or are about to: a connection is told of by its
\* CONNECT and until its CLOSE is queued.
Leaving(s) == \E t \in Threads : slot[t] = s /\ at[t] \in {"release", "report"}

Told(s) == \/ Leaving(s)
           \/ openFor[s] # NoTime /\ ~(at["net"] = "announce" /\ slot["net"] = s)

\* Where a report disagrees with that, a later one corrects it. The same holds
\* of the list before the first report.
Pkt(id, s) == [id |-> id, session |-> s]

Queued(id, s, i) == \E k \in i + 1 .. Len(queue) : queue[k] = Pkt(id, s)

Reports(s) ==
  \A i \in 1 .. Len(queue) :
    /\ queue[i] \in {Pkt("CONNECT", s), Pkt("LOGIN", s)} /\ ~Told(s)
         => Queued("CLOSE", s, i)
    /\ queue[i] = Pkt("CLOSE", s) /\ Told(s)
         => Queued("CONNECT", s, i)

NotOlder(s) == connectedUser[s].age <= openFor[s]

Listed(s) ==
  /\ NotOlder(s) \/ Leaving(s) \/ Queued("CLOSE", s, 0)
  /\ connectedUser[s].age = NoTime /\ Told(s) => Queued("CONNECT", s, 0)
  /\ connectedUser[s].login /\ ~Told(s) => Queued("CLOSE", s, 0)

SessionInv(s) == Places(s) /\ Reports(s) /\ Listed(s)

AllButAstray == \A s \in Sessions \ astray : SessionInv(s)

\* Whom the check still has to close is time-over: the list only ages while
\* it runs. None of them is a skipped session.
OverdueInv ==
  /\ at["logic"] \in {"run", "check"} => overdue = {}
  /\ overdue \cap Skipped = {}
  /\ \A s \in overdue : connectedUser[s].age >= Timeout
  /\ at["logic"] \in CloseSteps => slot["logic"] \notin Skipped
  /\ at["logic"] = "clear" => connectedUser[slot["logic"]].age >= Timeout

CheckInv ==
  /\ LoginCheckTypeOK /\ CursorInv /\ OverdueInv
  /\ AllButAstray

UserRecord == [age : Ages \cup {NoTime}, login : BOOLEAN]

LEMMA AgesFacts == /\ Ages \cup {NoTime} \subseteq Int
                   /\ \A a \in Ages \cup {NoTime} : a # NoTime <=> a >= 0
                   /\ NoTime = -1 /\ 0 \in Ages /\ NoTime \notin Ages
BY DEF Ages, NoTime

LEMMA TypeFacts ==
  ASSUME LoginCheckTypeOK
  PROVE  /\ queue \in Seq(Packets) /\ Len(queue) \in Nat
         /\ \A s \in Sessions : /\ connectedUser[s] \in UserRecord
                                /\ connectedUser[s].age \in Int
                                /\ connectedUser[s].age \in Ages \cup {NoTime}
                                /\ openFor[s] \in Ages \cup {NoTime}
                                /\ openFor[s] \in Int
                                /\ tags[s] \in Nat
         /\ \A t \in Threads : slot[t] \in Sessions
         /\ 0 \in Sessions /\ Sessions \subseteq Int
<1>1. \A s \in Sessions : connectedUser[s] \in UserRecord
  BY DEF LoginCheckTypeOK, UserRecord
<1>2. \A s \in Sessions : /\ connectedUser[s].age \in Ages \cup {NoTime}
                         /\ connectedUser[s].age \in Int
  BY <1>1, AgesFacts DEF UserRecord
<1>3. 0 \in Sessions /\ Sessions \subseteq Int
  BY DEF Sessions
<1>4. queue \in Seq(Packets) /\ Len(queue) \in Nat
  BY DEF LoginCheckTypeOK
<1>5. /\ \A s \in Sessions : tags[s] \in Nat
      /\ \A t \in Threads : slot[t] \in Sessions
      /\ \A s \in Sessions : openFor[s] \in Ages \cup {NoTime} /\ openFor[s] \in Int
  BY AgesFacts DEF LoginCheckTypeOK
<1> QED
  BY <1>1, <1>2, <1>3, <1>4, <1>5

\* A report at the end of the queue comes after all the others.
LEMMA Appended ==
  ASSUME queue \in Seq(Packets), NEW id \in {"CONNECT", "LOGIN", "CLOSE", "NONE"},
         NEW s \in Sessions, queue' = Report(id, s)
  PROVE  /\ queue' \in Seq(Packets)
         /\ Len(queue') = Len(queue) + 1
         /\ \A i \in 1 .. Len(queue) : queue'[i] = queue[i]
         /\ queue'[Len(queue) + 1] = Pkt(id, s)
         /\ \A i \in 0 .. Len(queue) : Queued(id, s, i)'
         /\ \A jd, t, i : i \in Nat /\ Queued(jd, t, i) => Queued(jd, t, i)'
<1>1. Pkt(id, s) \in Packets
  BY DEF Pkt, Packets
<1>2. queue' = Append(queue, Pkt(id, s))
  BY DEF Report, Pkt
<1>3. /\ queue' \in Seq(Packets)
      /\ Len(queue') = Len(queue) + 1
      /\ \A i \in 1 .. Len(queue) : queue'[i] = queue[i]
      /\ queue'[Len(queue) + 1] = Pkt(id, s)
  BY <1>1, <1>2
<1>4. Len(queue) \in Nat
  OBVIOUS
<1>5. ASSUME NEW i \in 0 .. Len(queue)
      PROVE  Queued(id, s, i)'
  <2>1. Len(queue) + 1 \in i + 1 .. Len(queue')
    BY <1>3, <1>4
  <2> QED
    BY <1>3, <2>1 DEF Queued
<1>6. ASSUME NEW jd, NEW t, NEW i \in Nat, Queued(jd, t, i)
      PROVE  Queued(jd, t, i)'
  <2>1. PICK k \in i + 1 .. Len(queue) : queue[k] = Pkt(jd, t)
    BY <1>6 DEF Queued
  <2>2. k \in i + 1 .. Len(queue') /\ k \in 1 .. Len(queue)
    BY <1>3, <1>4
  <2>3. queue'[k] = Pkt(jd, t)
    BY <1>3, <2>1, <2>2
  <2> QED
    BY <2>2, <2>3 DEF Queued
<1> QED
  BY <1>3, <1>5, <1>6

\* What the head of the queue owed is still behind it.
LEMMA Taken ==
  ASSUME queue \in Seq(Packets), queue # <<>>, queue' = Tail(queue)
  PROVE  /\ queue' \in Seq(Packets)
         /\ Len(queue) \in Nat \ {0} /\ Len(queue') = Len(queue) - 1
         /\ \A i \in 1 .. Len(queue') : queue'[i] = queue[i + 1]
         /\ \A id, s, i : i \in Nat /\ Queued(id, s, i + 1) => Queued(id, s, i)'
         /\ \A id, s : Queued(id, s, 0) /\ Head(queue) # Pkt(id, s)
                         => Queued(id, s, 0)'
<1>1. /\ queue' \in Seq(Packets)
      /\ Len(queue) \in Nat \ {0} /\ Len(queue') = Len(queue) - 1
      /\ \A i \in 1 .. Len(queue') : queue'[i] = queue[i + 1]
      /\ Head(queue) = queue[1]
  OBVIOUS
<1>2. ASSUME NEW id, NEW s, NEW i \in Nat, Queued(id, s, i + 1)
      PROVE  Queued(id, s, i)'
  <2>1. PICK k \in i + 1 + 1 .. Len(queue) : queue[k] = Pkt(id, s)
    BY <1>2 DEF Queued
  <2>2. k - 1 \in i + 1 .. Len(queue') /\ k - 1 \in 1 .. Len(queue')
    BY <1>1
  <2>3. queue'[k - 1] = Pkt(id, s)
    BY <1>1, <2>1, <2>2
  <2> QED
    BY <2>2, <2>3 DEF Queued
<1>3. ASSUME NEW id, NEW s, Queued(id, s, 0), Head(queue) # Pkt(id, s)
      PROVE  Queued(id, s, 0)'
  <2>1. PICK k \in 0 + 1 .. Len(queue) : queue[k] = Pkt(id, s)
    BY <1>3 DEF Queued
  <2>2. k # 1
    BY <1>1, <1>3, <2>1
  <2>3. k \in 0 + 1 + 1 .. Len(queue)
    BY <1>1, <2>2
  <2>4. Queued(id, s, 0 + 1)
    BY <2>1, <2>3 DEF Queued
  <2> QED
    BY <1>2, <2>4
<1> QED
  BY <1>1, <1>2, <1>3

\* Time is read by comparison only: it never makes a list entry older than
\* the connection, nor one of them present or absent.
LEMMA OlderFacts ==
  ASSUME NEW a \in Ages \cup {NoTime}, NEW b \in Ages \cup {NoTime}
  PROVE  /\ Older(a) \in Ages \cup {NoTime}
         /\ Older(a) = NoTime <=> a = NoTime
         /\ a <= b => Older(a) <= Older(b)
BY DEF Older, Ages, NoTime
-----------------------------------------------------------------------------
LEMMA ThreadFacts ==
  /\ Threads = {"net", "logic"}
  /\ NetSteps = {"idle", "connect", "announce", "receive", "clear", "release", "report"}
  /\ LogicSteps = {"run", "check", "force", "clear", "release", "report"}
BY DEF Threads, NetSteps, LogicSteps, CloseSteps

StepsOf(t) == IF t = "net" THEN NetSteps ELSE LogicSteps

\* One thread goes to a step, at a session or none, while the other stays.
LEMMA ThreadsMove ==
  ASSUME LoginCheckTypeOK, NEW t \in Threads, NEW l \in StepsOf(t),
         at' = [at EXCEPT ![t] = l],
         slot' = slot \/ \E s \in Sessions : slot' = [slot EXCEPT ![t] = s]
  PROVE  /\ at' \in [Threads -> NetSteps \cup LogicSteps]
         /\ at'["net"] \in NetSteps /\ at'["logic"] \in LogicSteps
         /\ slot' \in [Threads -> Sessions]
         /\ at'[t] = l
         /\ \A o \in Threads \ {t} : at'[o] = at[o] /\ slot'[o] = slot[o]
<1>1. at \in [Threads -> NetSteps \cup LogicSteps] /\ slot \in [Threads -> Sessions]
  BY DEF LoginCheckTypeOK
<1>2. at["net"] \in NetSteps /\ at["logic"] \in LogicSteps
  BY DEF LoginCheckTypeOK
<1>3. l \in NetSteps \cup LogicSteps
  BY DEF StepsOf
<1>4. /\ at' \in [Threads -> NetSteps \cup LogicSteps] /\ at'[t] = l
      /\ \A o \in Threads \ {t} : at'[o] = at[o]
  BY <1>1, <1>3
<1>5. /\ slot' \in [Threads -> Sessions]
      /\ \A o \in Threads \ {t} : slot'[o] = slot[o]
  <2>1. CASE slot' = slot
    BY <1>1, <2>1
  <2>2. ASSUME NEW s \in Sessions, slot' = [slot EXCEPT ![t] = s]
        PROVE  <1>5!1 /\ <1>5!2
    BY <1>1, <2>2
  <2> QED
    BY <2>1, <2>2
<1>6. at'["net"] \in NetSteps /\ at'["logic"] \in LogicSteps
  <2>1. CASE t = "net"
    BY <1>2, <1>4, <2>1, ThreadFacts DEF StepsOf
  <2>2. CASE t = "logic"
    BY <1>2, <1>4, <2>2, ThreadFacts DEF StepsOf
  <2> QED
    BY <2>1, <2>2, ThreadFacts
<1> QED
  BY <1>4, <1>5, <1>6

\* What a session's part of the invariant says of the queue survives when the
\* reports of it that are left have the same ones behind them.
LEMMA ReportsKept ==
  ASSUME NEW s, Reports(s), Told(s)' <=> Told(s),
         \A i \in 1 .. Len(queue') : \A jd : queue'[i] = Pkt(jd, s) =>
             \E j \in 1 .. Len(queue) :
                 /\ queue[j] = Pkt(jd, s)
                 /\ \A id : Queued(id, s, j) => Queued(id, s, i)'
  PROVE  Reports(s)'
<1> SUFFICES ASSUME NEW i \in 1 .. Len(queue')
    PROVE  /\ queue'[i] \in {Pkt("CONNECT", s), Pkt("LOGIN", s)} /\ ~Told(s)'
                => Queued("CLOSE", s, i)'
           /\ queue'[i] = Pkt("CLOSE", s) /\ Told(s)'
                => Queued("CONNECT", s, i)'
  BY DEF Reports, Pkt
<1>1. ASSUME NEW jd, queue'[i] = Pkt(jd, s)
      PROVE  /\ jd \in {"CONNECT", "LOGIN"} /\ ~Told(s)' => Queued("CLOSE", s, i)'
             /\ jd = "CLOSE" /\ Told(s)' => Queued("CONNECT", s, i)'
  <2>1. PICK j \in 1 .. Len(queue) :
            /\ queue[j] = Pkt(jd, s)
            /\ \A id : Queued(id, s, j) => Queued(id, s, i)'
    BY <1>1
  <2>2. /\ queue[j] \in {Pkt("CONNECT", s), Pkt("LOGIN", s)} /\ ~Told(s)
             => Queued("CLOSE", s, j)
        /\ queue[j] = Pkt("CLOSE", s) /\ Told(s)
             => Queued("CONNECT", s, j)
    BY DEF Reports
  <2> QED
    BY <2>1, <2>2
<1> QED
  BY <1>1

LEMMA ListedKept ==
  ASSUME NEW s, Listed(s), connectedUser'[s] = connectedUser[s],
         Told(s)' <=> Told(s),
         NotOlder(s) \/ Leaving(s) => NotOlder(s)' \/ Leaving(s)',
         \A id : Queued(id, s, 0) => Queued(id, s, 0)'
  PROVE  Listed(s)'
BY DEF Listed

\* How the queue may change, for a session that the change is not about.
LEMMA OthersQueue ==
  ASSUME LoginCheckTypeOK, NEW s \in Sessions,
         \/ queue' = queue
         \/ \E id \in {"CONNECT", "LOGIN", "CLOSE", "NONE"}, x \in Sessions \ {s} :
               queue' = Report(id, x)
         \/ queue # <<>> /\ queue' = Tail(queue) /\ Head(queue).session # s
  PROVE  /\ \A i \in 1 .. Len(queue') : \A jd : queue'[i] = Pkt(jd, s) =>
               \E j \in 1 .. Len(queue) :
                   /\ queue[j] = Pkt(jd, s)
                   /\ \A id : Queued(id, s, j) => Queued(id, s, i)'
         /\ \A id : Queued(id, s, 0) => Queued(id, s, 0)'
<1> USE TypeFacts
<1>1. CASE queue' = queue
  BY <1>1 DEF Queued
<1>2. ASSUME NEW id \in {"CONNECT", "LOGIN", "CLOSE", "NONE"},
             NEW x \in Sessions \ {s}, queue' = Report(id, x)
      PROVE  /\ \A i \in 1 .. Len(queue') : \A jd : queue'[i] = Pkt(jd, s) =>
                   \E j \in 1 .. Len(queue) :
                       /\ queue[j] = Pkt(jd, s)
                       /\ \A kd : Queued(kd, s, j) => Queued(kd, s, i)'
             /\ \A kd : Queued(kd, s, 0) => Queued(kd, s, 0)'
  <2>1. /\ Len(queue') = Len(queue) + 1
        /\ \A i \in 1 .. Len(queue) : queue'[i] = queue[i]
        /\ queue'[Len(queue) + 1] = Pkt(id, x)
        /\ \A jd, t, i : i \in Nat /\ Queued(jd, t, i) => Queued(jd, t, i)'
    BY <1>2, Appended
  <2>2. ASSUME NEW i \in 1 .. Len(queue'), NEW jd, queue'[i] = Pkt(jd, s)
        PROVE  /\ i \in 1 .. Len(queue) /\ queue[i] = Pkt(jd, s) /\ i \in Nat
               /\ \A kd : Queued(kd, s, i) => Queued(kd, s, i)'
    <3>1. Pkt(id, x) # Pkt(jd, s)
      BY DEF Pkt
    <3>2. i # Len(queue) + 1
      BY <2>1, <2>2, <3>1
    <3>3. i \in 1 .. Len(queue) /\ i \in Nat
      BY <2>1, <3>2
    <3> QED
      BY <2>1, <2>2, <3>3
  <2>3. 0 \in Nat
    OBVIOUS
  <2> QED
    BY <2>1, <2>2, <2>3
<1>3. CASE queue # <<>> /\ queue' = Tail(queue) /\ Head(queue).session # s
  <2>1. /\ Len(queue) \in Nat \ {0} /\ Len(queue') = Len(queue) - 1
        /\ \A i \in 1 .. Len(queue') : queue'[i] = queue[i + 1]
        /\ \A id, t, i : i \in Nat /\ Queued(id, t, i + 1) => Queued(id, t, i)'
        /\ \A id, t : Queued(id, t, 0) /\ Head(queue) # Pkt(id, t)
                        => Queued(id, t, 0)'
    BY <1>3, Taken
  <2>2. \A id : Head(queue) # Pkt(id, s)
    BY <1>3 DEF Pkt
  <2>3. ASSUME NEW i \in 1 .. Len(queue'), NEW jd, queue'[i] = Pkt(jd, s)
        PROVE  /\ i + 1 \in 1 .. Len(queue) /\ queue[i + 1] = Pkt(jd, s)
               /\ \A kd : Queued(kd, s, i + 1) => Queued(kd, s, i)'
    <3>1. i \in Nat /\ i + 1 \in 1 .. Len(queue)
      BY <2>1
    <3> QED
      BY <2>1, <2>3, <3>1
  <2> QED
    BY <2>1, <2>2, <2>3
<1> QED
  BY <1>1, <1>2, <1>3

\* A session that a step is not about: no thread comes or goes there, and no
\* report of it is queued or taken.
LEMMA Untouched ==
  ASSUME LoginCheckTypeOK, NEW s \in Sessions, SessionInv(s),
         connectedUser'[s] = connectedUser[s], openFor'[s] = openFor[s],
         tags'[s] = tags[s],
         \A t \in Threads : /\ IsAt(t, s)' <=> IsAt(t, s)
                            /\ IsAt(t, s) => at'[t] = at[t],
         \/ queue' = queue
         \/ \E id \in {"CONNECT", "LOGIN", "CLOSE", "NONE"}, x \in Sessions \ {s} :
               queue' = Report(id, x)
         \/ queue # <<>> /\ queue' = Tail(queue) /\ Head(queue).session # s
  PROVE  SessionInv(s)'
<1>1. ASSUME NEW t \in Threads,
             NEW l \in {"connect", "announce", "receive", "clear", "release", "report"}
      PROVE  slot'[t] = s /\ at'[t] = l <=> slot[t] = s /\ at[t] = l
  <2>1. l \notin {"idle", "run", "check", "force"}
    OBVIOUS
  <2>2. slot'[t] = s /\ at'[t] = l => IsAt(t, s)'
    BY <2>1 DEF IsAt, Busy
  <2>3. slot[t] = s /\ at[t] = l => IsAt(t, s)
    BY <2>1 DEF IsAt, Busy
  <2>4. IsAt(t, s) => slot[t] = s
    BY DEF IsAt
  <2>5. IsAt(t, s)' => slot'[t] = s
    BY DEF IsAt
  <2> QED
    BY <2>2, <2>3, <2>4, <2>5
<1>2. Places(s)'
  <2>1. /\ ~(IsAt("net", s)' /\ IsAt("logic", s)')
        /\ tags'[s] \in {0, 1}
        /\ openFor'[s] # NoTime => tags'[s] = 0
    BY ThreadFacts DEF SessionInv, Places
  <2>2. ASSUME NEW t \in Threads, slot'[t] = s
        PROVE  /\ at'[t] \in {"connect", "release"} => tags'[s] = 0
               /\ at'[t] \in {"connect", "release", "report"} => openFor'[s] = NoTime
               /\ at'[t] \in {"announce", "receive", "clear"} => openFor'[s] # NoTime
    BY <1>1, <2>2 DEF SessionInv, Places
  <2> QED
    BY <2>1, <2>2 DEF Places
<1>3. Leaving(s)' <=> Leaving(s)
  BY <1>1 DEF Leaving
<1>4. Told(s)' <=> Told(s)
  <2>1. slot'["net"] = s /\ at'["net"] = "announce" <=> slot["net"] = s /\ at["net"] = "announce"
    BY <1>1, ThreadFacts
  <2> QED
    BY <1>3, <2>1 DEF Told
<1>5. NotOlder(s)' <=> NotOlder(s)
  BY DEF NotOlder
<1>6. Reports(s)'
  BY <1>4, OthersQueue, ReportsKept DEF SessionInv
<1>7. Listed(s)'
  BY <1>3, <1>4, <1>5, OthersQueue, ListedKept DEF SessionInv
<1> QED
  BY <1>2, <1>6, <1>7 DEF SessionInv

\* The session a step is about, where the step queues nothing and what has
\* been told of the session stays.
LEMMA NothingTold ==
  ASSUME LoginCheckTypeOK, NEW s \in Sessions, SessionInv(s), Places(s)',
         connectedUser'[s] = connectedUser[s], queue' = queue,
         Told(s)' <=> Told(s),
         NotOlder(s) \/ Leaving(s) => NotOlder(s)' \/ Leaving(s)'
  PROVE  SessionInv(s)'
<1>1. Reports(s)'
  BY OthersQueue, ReportsKept DEF SessionInv
<1>2. Listed(s)'
  BY OthersQueue, ListedKept DEF SessionInv
<1> QED
  BY <1>1, <1>2 DEF SessionInv

\* A step of the network thread, or one that leaves the check alone.
LEMMA OverdueKept ==
  ASSUME OverdueInv, UNCHANGED <<connectedUser, overdue>>,
         at'["logic"] = at["logic"], slot'["logic"] = slot["logic"]
  PROVE  OverdueInv'
BY DEF OverdueInv

LEMMA CursorKept == CursorInv /\ UNCHANGED cursor => CursorInv'
BY DEF CursorInv

\* Which sessions a thread's move is about: the one it leaves, or where it
\* goes on, and the one it goes to.
LEMMA OthersPlaces ==
  ASSUME NEW t \in Threads, NEW s,
         \A o \in Threads \ {t} : at'[o] = at[o] /\ slot'[o] = slot[o],
         ~IsAt(t, s), ~IsAt(t, s)'
  PROVE  \A o \in Threads : /\ IsAt(o, s)' <=> IsAt(o, s)
                            /\ IsAt(o, s) => at'[o] = at[o]
<1> SUFFICES ASSUME NEW o \in Threads
             PROVE  /\ IsAt(o, s)' <=> IsAt(o, s)
                    /\ IsAt(o, s) => at'[o] = at[o]
  OBVIOUS
<1>1. CASE o = t
  BY <1>1
<1>2. CASE o # t
  BY <1>2 DEF IsAt, Busy
<1> QED
  BY <1>1, <1>2

\* A thread goes to session a. If the other is there, a is astray from now on.
LEMMA VisitKeeps ==
  ASSUME LoginCheckTypeOK, AllButAstray,
         NEW t \in Threads, NEW a \in Sessions, ~Busy(t),
         NEW l \in {"connect", "receive", "clear"}, l \in StepsOf(t),
         Visit(t, a, l), UNCHANGED <<connectedUser, queue, openFor>>,
         \A s \in Sessions \ {a} : tags'[s] = tags[s],
         a \notin astray =>
             /\ tags'[a] \in {0, 1}
             /\ openFor[a] # NoTime => tags'[a] = 0
             /\ l = "connect" => tags'[a] = 0 /\ openFor[a] = NoTime
             /\ l \in {"receive", "clear"} => openFor[a] # NoTime
  PROVE  AllButAstray'
<1>1. /\ at' = [at EXCEPT ![t] = l] /\ slot' = [slot EXCEPT ![t] = a]
      /\ astray \subseteq astray'
      /\ a \notin astray' => \A o \in Threads \ {t} : ~IsAt(o, a)
  BY DEF Visit
<1>2. /\ at'[t] = l /\ slot'[t] = a
      /\ \A o \in Threads \ {t} : at'[o] = at[o] /\ slot'[o] = slot[o]
  <2>1. slot'[t] = a
    BY <1>1 DEF LoginCheckTypeOK
  <2> QED
    BY <1>1, <2>1, ThreadsMove
<1>3. \A s : ~IsAt(t, s)
  BY DEF IsAt
<1>4. ASSUME NEW s \in Sessions \ astray', s # a
      PROVE  SessionInv(s)'
  <2>1. ~IsAt(t, s)'
    BY <1>2, <1>4 DEF IsAt
  <2>2. \A o \in Threads : /\ IsAt(o, s)' <=> IsAt(o, s)
                           /\ IsAt(o, s) => at'[o] = at[o]
    BY <1>2, <1>3, <2>1, OthersPlaces
  <2>3. SessionInv(s) /\ tags'[s] = tags[s]
    BY <1>1, <1>4 DEF AllButAstray
  <2> QED
    BY <2>2, <2>3, Untouched
<1>5. ASSUME a \notin astray'
      PROVE  SessionInv(a)'
  <2>1. a \notin astray /\ \A o \in Threads \ {t} : ~IsAt(o, a)
    BY <1>1, <1>5
  <2>2. SessionInv(a)
    BY <2>1 DEF AllButAstray
  <2>3. \A o \in Threads \ {t} : ~IsAt(o, a)'
    BY <1>2, <2>1 DEF IsAt, Busy
  <2>4. ASSUME NEW o \in Threads \ {t}
        PROVE  /\ slot[o] = a => at[o] \in {"idle", "run", "check", "force"}
               /\ slot'[o] = a => at'[o] \in {"idle", "run", "check", "force"}
    BY <2>1, <2>3 DEF IsAt, Busy
  <2>5. at[t] \in {"idle", "run", "check", "force"}
    BY DEF Busy
  <2>6. ~Leaving(a) /\ ~Leaving(a)'
    <3>1. \A o \in Threads : slot[o] = a => at[o] \notin {"release", "report"}
      BY <2>4, <2>5
    <3>2. \A o \in Threads : slot'[o] = a => at'[o] \notin {"release", "report"}
      BY <1>2, <2>4
    <3> QED
      BY <3>1, <3>2 DEF Leaving
  <2>7. Told(a)' <=> Told(a)
    <3>1. slot["net"] = a => at["net"] # "announce"
      BY <2>4, <2>5, ThreadFacts
    <3>2. slot'["net"] = a => at'["net"] # "announce"
      BY <1>2, <2>4, ThreadFacts
    <3> QED
      BY <2>6, <3>1, <3>2 DEF Told
  <2>8. Places(a)'
    <3>1. ~(IsAt("net", a)' /\ IsAt("logic", a)')
      BY <2>3, ThreadFacts
    <3>2. tags'[a] \in {0, 1} /\ (openFor'[a] # NoTime => tags'[a] = 0)
      BY <2>1
    <3>3. ASSUME NEW o \in Threads, slot'[o] = a
          PROVE  /\ at'[o] \in {"connect", "release"} => tags'[a] = 0
                 /\ at'[o] \in {"connect", "release", "report"} => openFor'[a] = NoTime
                 /\ at'[o] \in {"announce", "receive", "clear"} => openFor'[a] # NoTime
      <4>1. CASE o = t
        BY <1>2, <2>1, <4>1
      <4>2. CASE o # t
        BY <2>4, <3>3, <4>2
      <4> QED
        BY <4>1, <4>2
    <3> QED
      BY <3>1, <3>2, <3>3 DEF Places
  <2>9. NotOlder(a) \/ Leaving(a) => NotOlder(a)' \/ Leaving(a)'
    BY <2>6 DEF NotOlder
  <2> QED
    BY <2>2, <2>7, <2>8, <2>9, NothingTold
<1> QED
  BY <1>4, <1>5 DEF AllButAstray

\* A thread goes on at its session or leaves it: the others are untouched.
LEMMA OthersStay ==
  ASSUME LoginCheckTypeOK, AllButAstray,
         NEW t \in Threads, Busy(t), astray \subseteq astray',
         NEW l \in StepsOf(t), at' = [at EXCEPT ![t] = l],
         \/ slot' = slot
         \/ slot' = [slot EXCEPT ![t] = 0] /\ l \in {"idle", "force"},
         connectedUser' = connectedUser,
         \A s \in Sessions \ {slot[t]} : openFor'[s] = openFor[s] /\ tags'[s] = tags[s],
         \/ queue' = queue
         \/ \E id \in {"CONNECT", "LOGIN", "CLOSE", "NONE"} : queue' = Report(id, slot[t])
  PROVE  \A s \in Sessions \ astray' : s # slot[t] => SessionInv(s)'
<1>1. slot[t] \in Sessions /\ 0 \in Sessions
  BY TypeFacts
<1>2. /\ at'[t] = l
      /\ \A o \in Threads \ {t} : at'[o] = at[o] /\ slot'[o] = slot[o]
  BY <1>1, ThreadsMove
<1> SUFFICES ASSUME NEW s \in Sessions \ astray', s # slot[t]
             PROVE  SessionInv(s)'
  OBVIOUS
<1>3. ~IsAt(t, s) /\ ~IsAt(t, s)'
  BY <1>2 DEF IsAt, Busy
<1>4. \A o \in Threads : /\ IsAt(o, s)' <=> IsAt(o, s)
                         /\ IsAt(o, s) => at'[o] = at[o]
  BY <1>2, <1>3, OthersPlaces
<1>5. SessionInv(s) /\ openFor'[s] = openFor[s] /\ tags'[s] = tags[s]
  BY DEF AllButAstray
<1>6. \/ queue' = queue
      \/ \E id \in {"CONNECT", "LOGIN", "CLOSE", "NONE"}, x \in Sessions \ {s} :
            queue' = Report(id, x)
  BY <1>1
<1> QED
  BY <1>4, <1>5, <1>6, Untouched

\* The session itself, where it is not astray: the thread is alone there.
LEMMA Alone ==
  ASSUME LoginCheckTypeOK, AllButAstray,
         NEW t \in Threads, Busy(t), NEW a \in Sessions, a = slot[t], a \notin astray,
         NEW l \in StepsOf(t), at' = [at EXCEPT ![t] = l],
         \/ slot' = slot
         \/ slot' = [slot EXCEPT ![t] = 0] /\ l \in {"idle", "force"}
  PROVE  /\ SessionInv(a)
         /\ \A o \in Threads \ {t} :
                ~IsAt(o, a)' /\ (slot'[o] = a => at'[o] \in {"idle", "run", "check", "force"})
         /\ at'[t] = l /\ (l \in {"idle", "force"} \/ slot'[t] = a)
         /\ Leaving(a) <=> at[t] \in {"release", "report"}
         /\ Leaving(a)' <=> l \in {"release", "report"}
         /\ Told(a) <=> Leaving(a) \/ (openFor[a] # NoTime /\ at[t] # "announce")
         /\ Told(a)' <=> Leaving(a)' \/ (openFor'[a] # NoTime /\ l # "announce")
<1>1. 0 \in Sessions
  BY TypeFacts
<1>2. SessionInv(a)
  BY DEF AllButAstray
<1>3. /\ at'[t] = l
      /\ \A o \in Threads \ {t} : at'[o] = at[o] /\ slot'[o] = slot[o]
  BY <1>1, ThreadsMove
<1>4. l \in {"idle", "force"} \/ slot'[t] = a
  OBVIOUS
<1>5. \A o \in Threads \ {t} : ~IsAt(o, a)
  <2>1. IsAt(t, a) /\ ~(IsAt("net", a) /\ IsAt("logic", a))
    BY <1>2 DEF IsAt, SessionInv, Places
  <2> QED
    BY <2>1, ThreadFacts
<1>6. \A o \in Threads \ {t} :
          /\ slot[o] = a => at[o] \in {"idle", "run", "check", "force"}
          /\ ~IsAt(o, a)'
          /\ slot'[o] = a => at'[o] \in {"idle", "run", "check", "force"}
  BY <1>3, <1>5 DEF IsAt, Busy
<1>7. Leaving(a) <=> at[t] \in {"release", "report"}
  BY <1>6 DEF Leaving
<1>8. Leaving(a)' <=> l \in {"release", "report"}
  BY <1>3, <1>4, <1>6 DEF Leaving
<1>9. /\ at["net"] = "announce" /\ slot["net"] = a <=> at[t] = "announce"
      /\ at'["net"] = "announce" /\ slot'["net"] = a <=> l = "announce"
  <2>1. CASE t = "net"
    BY <1>3, <1>4, <2>1
  <2>2. CASE t = "logic"
    <3>1. "net" \in Threads \ {t}
      BY <2>2, ThreadFacts
    <3>2. at[t] # "announce" /\ l # "announce"
      BY <2>2, ThreadFacts DEF StepsOf, LoginCheckTypeOK
    <3> QED
      BY <1>6, <3>1, <3>2
  <2> QED
    BY <2>1, <2>2, ThreadFacts
<1>10. /\ Told(a) <=> Leaving(a) \/ (openFor[a] # NoTime /\ at[t] # "announce")
       /\ Told(a)' <=> Leaving(a)' \/ (openFor'[a] # NoTime /\ l # "announce")
  BY <1>9 DEF Told
<1> QED
  BY <1>2, <1>3, <1>4, <1>6, <1>7, <1>8, <1>10

LEMMA AlonePlaces ==
  ASSUME NEW t \in Threads, NEW a, NEW l, at'[t] = l,
         \A o \in Threads \ {t} :
             ~IsAt(o, a)' /\ (slot'[o] = a => at'[o] \in {"idle", "run", "check", "force"}),
         tags'[a] \in {0, 1}, openFor'[a] # NoTime => tags'[a] = 0,
         l \in {"connect", "release"} => tags'[a] = 0,
         l \in {"connect", "release", "report"} => openFor'[a] = NoTime,
         l \in {"announce", "receive", "clear"} => openFor'[a] # NoTime
  PROVE  Places(a)'
<1>1. ~(IsAt("net", a)' /\ IsAt("logic", a)')
  BY ThreadFacts
<1>2. ASSUME NEW o \in Threads, slot'[o] = a
      PROVE  /\ at'[o] \in {"connect", "release"} => tags'[a] = 0
             /\ at'[o] \in {"connect", "release", "report"} => openFor'[a] = NoTime
             /\ at'[o] \in {"announce", "receive", "clear"} => openFor'[a] # NoTime
  <2>1. CASE o = t
    BY <2>1
  <2>2. CASE o # t
    BY <1>2, <2>2
  <2> QED
    BY <2>1, <2>2
<1> QED
  BY <1>1, <1>2 DEF Places
-----------------------------------------------------------------------------
LEMMA CheckInvInit == Init => CheckInv
<1> SUFFICES ASSUME Init PROVE CheckInv
  OBVIOUS
<1>1. LoginCheckTypeOK
  <2>1. NotConnected \in UserRecord
    BY AgesFacts DEF NotConnected, UserRecord
  <2>2. connectedUser \in [Sessions -> UserRecord]
    BY <2>1 DEF Init
  <2>3. /\ openFor \in [Sessions -> Ages \cup {NoTime}]
        /\ tags \in [Sessions -> Nat]
    BY DEF Init
  <2>4. cursor \in -1 .. MaxSessionCount /\ queue \in Seq(Packets)
    BY DEF Init
  <2>5. /\ at \in [Threads -> NetSteps \cup LogicSteps]
        /\ at["net"] \in NetSteps /\ at["logic"] \in LogicSteps
    BY ThreadFacts DEF Init
  <2>6. slot \in [Threads -> Sessions]
    BY DEF Init, Sessions
  <2> QED
    BY <2>2, <2>3, <2>4, <2>5, <2>6 DEF Init, LoginCheckTypeOK, UserRecord
<1>2. CursorInv
  <2>1. cursor = -1 * (Batch + 1) + Batch
    BY DEF Init
  <2> QED
    BY <2>1 DEF CursorInv
<1>3. \A t \in Threads : at[t] \in {"idle", "run"}
  BY ThreadFacts DEF Init
<1>4. OverdueInv
  BY <1>3, ThreadFacts DEF Init, OverdueInv, CloseSteps
<1>5. ASSUME NEW s \in Sessions
      PROVE  SessionInv(s)
  <2>1. connectedUser[s] = NotConnected /\ openFor[s] = NoTime /\ tags[s] = 1
    BY DEF Init
  <2>2. Places(s)
    BY <1>3, <2>1, ThreadFacts DEF Places, IsAt, Busy
  <2>3. ~Told(s)
    BY <1>3, <2>1 DEF Told, Leaving
  <2>4. Reports(s)
    BY DEF Init, Reports
  <2>5. Listed(s)
    BY <2>1, <2>3, AgesFacts DEF Listed, NotOlder, NotConnected
  <2> QED
    BY <2>2, <2>4, <2>5 DEF SessionInv
<1> QED
  BY <1>1, <1>2, <1>4, <1>5 DEF CheckInv, AllButAstray

LEMMA AcceptKeeps ==
  ASSUME CheckInv, NEW a \in Sessions, Accept(a)
  PROVE  CheckInv'
<1>1. /\ at["net"] = "idle" /\ tags[a] > 0
      /\ tags' = [tags EXCEPT ![a] = tags[a] - 1]
      /\ Visit("net", a, "connect")
      /\ UNCHANGED <<connectedUser, cursor, due, overdue, queue, openFor>>
  BY DEF Accept, listVars
<1>2. /\ at' = [at EXCEPT !["net"] = "connect"]
      /\ slot' = [slot EXCEPT !["net"] = a]
      /\ astray' \subseteq Sessions
  BY <1>1 DEF Visit, CheckInv, LoginCheckTypeOK
<1>3. "net" \in Threads /\ "connect" \in StepsOf("net") /\ ~Busy("net")
  BY <1>1, ThreadFacts DEF StepsOf, Busy
<1>4. /\ at' \in [Threads -> NetSteps \cup LogicSteps]
      /\ at'["net"] \in NetSteps /\ at'["logic"] \in LogicSteps
      /\ slot' \in [Threads -> Sessions]
      /\ at'["logic"] = at["logic"] /\ slot'["logic"] = slot["logic"]
  BY <1>2, <1>3, ThreadsMove, ThreadFacts DEF CheckInv
<1>5. tags' \in [Sessions -> Nat] /\ tags'[a] = tags[a] - 1
      /\ \A s \in Sessions \ {a} : tags'[s] = tags[s]
  <2>1. tags \in [Sessions -> Nat] /\ tags[a] - 1 \in Nat
    BY <1>1 DEF CheckInv, LoginCheckTypeOK
  <2> QED
    BY <1>1, <2>1
<1>6. LoginCheckTypeOK'
  BY <1>1, <1>2, <1>4, <1>5 DEF CheckInv, LoginCheckTypeOK
<1>7. CursorInv' /\ OverdueInv'
  BY <1>1, <1>4, CursorKept, OverdueKept DEF CheckInv
<1>8. ASSUME a \notin astray
      PROVE  tags'[a] = 0 /\ openFor[a] = NoTime
  <2>1. tags[a] \in {0, 1} /\ (openFor[a] # NoTime => tags[a] = 0)
    BY <1>8 DEF CheckInv, AllButAstray, SessionInv, Places
  <2>2. tags[a] = 1
    BY <1>1, <2>1
  <2> QED
    BY <1>5, <2>1, <2>2
<1>9. AllButAstray'
  BY <1>1, <1>3, <1>5, <1>8, VisitKeeps DEF CheckInv
<1> QED
  BY <1>6, <1>7, <1>9 DEF CheckInv

LEMMA ReceiveKeeps ==
  ASSUME CheckInv, NEW a \in Sessions, Receive(a)
  PROVE  CheckInv'
<1>1. /\ at["net"] = "idle" /\ openFor[a] # NoTime
      /\ Visit("net", a, "receive")
      /\ UNCHANGED <<connectedUser, cursor, due, overdue, queue, openFor, tags>>
  BY DEF Receive, listVars
<1>2. /\ at' = [at EXCEPT !["net"] = "receive"]
      /\ slot' = [slot EXCEPT !["net"] = a]
      /\ astray' \subseteq Sessions
  BY <1>1 DEF Visit, CheckInv, LoginCheckTypeOK
<1>3. "net" \in Threads /\ "receive" \in StepsOf("net") /\ ~Busy("net")
  BY <1>1, ThreadFacts DEF StepsOf, Busy
<1>4. /\ at' \in [Threads -> NetSteps \cup LogicSteps]
      /\ at'["net"] \in NetSteps /\ at'["logic"] \in LogicSteps
      /\ slot' \in [Threads -> Sessions]
      /\ at'["logic"] = at["logic"] /\ slot'["logic"] = slot["logic"]
  BY <1>2, <1>3, ThreadsMove, ThreadFacts DEF CheckInv
<1>5. LoginCheckTypeOK'
  BY <1>1, <1>2, <1>4 DEF CheckInv, LoginCheckTypeOK
<1>6. CursorInv' /\ OverdueInv'
  BY <1>1, <1>4, CursorKept, OverdueKept DEF CheckInv
<1>7. ASSUME a \notin astray
      PROVE  tags[a] \in {0, 1} /\ (openFor[a] # NoTime => tags[a] = 0)
  BY <1>7 DEF CheckInv, AllButAstray, SessionInv, Places
<1>8. AllButAstray'
  BY <1>1, <1>3, <1>7, VisitKeeps DEF CheckInv
<1> QED
  BY <1>5, <1>6, <1>8 DEF CheckInv

\* Past the test of closeSession, by either thread.
LEMMA GoCloseKeeps ==
  ASSUME CheckInv, NEW t \in Threads, ~Busy(t), NEW a \in Sessions, GoClose(t, a),
         UNCHANGED <<connectedUser, queue, openFor, tags>>
  PROVE  /\ AllButAstray'
         /\ at' \in [Threads -> NetSteps \cup LogicSteps]
         /\ at'["net"] \in NetSteps /\ at'["logic"] \in LogicSteps
         /\ slot' \in [Threads -> Sessions] /\ astray' \subseteq Sessions
         /\ at'[t] = "clear" /\ slot'[t] = a
         /\ \A o \in Threads \ {t} : at'[o] = at[o] /\ slot'[o] = slot[o]
<1>1. openFor[a] # NoTime /\ Visit(t, a, "clear")
  BY DEF GoClose, ToClose
<1>2. /\ at' = [at EXCEPT ![t] = "clear"]
      /\ slot' = [slot EXCEPT ![t] = a]
      /\ astray' \subseteq Sessions
  BY <1>1 DEF Visit, CheckInv, LoginCheckTypeOK
<1>3. "clear" \in StepsOf(t)
  BY ThreadFacts DEF StepsOf
<1>4. slot'[t] = a
  BY <1>2 DEF CheckInv, LoginCheckTypeOK
<1>5. ASSUME a \notin astray
      PROVE  tags[a] \in {0, 1} /\ (openFor[a] # NoTime => tags[a] = 0)
  BY <1>5 DEF CheckInv, AllButAstray, SessionInv, Places
<1>6. AllButAstray'
  BY <1>1, <1>3, <1>5, VisitKeeps DEF CheckInv
<1> QED
  BY <1>2, <1>3, <1>4, <1>6, ThreadsMove DEF CheckInv

LEMMA NetCloseKeeps ==
  ASSUME CheckInv, NEW a \in Sessions, NetClose(a)
  PROVE  CheckInv'
<1>1. /\ at["net"] = "idle" /\ GoClose("net", a)
      /\ UNCHANGED <<connectedUser, cursor, due, overdue, queue, openFor, tags>>
  BY DEF NetClose, listVars
<1>2. "net" \in Threads /\ "logic" \in Threads \ {"net"} /\ ~Busy("net")
  BY <1>1, ThreadFacts DEF Busy
<1>3. /\ AllButAstray'
      /\ at' \in [Threads -> NetSteps \cup LogicSteps]
      /\ at'["net"] \in NetSteps /\ at'["logic"] \in LogicSteps
      /\ slot' \in [Threads -> Sessions] /\ astray' \subseteq Sessions
      /\ at'["logic"] = at["logic"] /\ slot'["logic"] = slot["logic"]
  BY <1>1, <1>2, GoCloseKeeps
<1>4. LoginCheckTypeOK'
  BY <1>1, <1>3 DEF CheckInv, LoginCheckTypeOK
<1>5. CursorInv' /\ OverdueInv'
  BY <1>1, <1>3, CursorKept, OverdueKept DEF CheckInv
<1> QED
  BY <1>3, <1>4, <1>5 DEF CheckInv

LEMMA ForcingCloseKeeps ==
  ASSUME CheckInv, NEW a \in Sessions, ForcingClose(a)
  PROVE  CheckInv'
<1>1. /\ at["logic"] = "force" /\ a \in overdue
      /\ overdue' = overdue \ {a}
      /\ UNCHANGED <<connectedUser, cursor, due, queue, openFor, tags>>
      /\ GoClose("logic", a) \/ Step("logic", "force")
  BY DEF ForcingClose
<1>2. "logic" \in Threads /\ ~Busy("logic")
  BY <1>1, ThreadFacts DEF Busy
<1>3. a \notin Skipped /\ connectedUser[a].age >= Timeout
  BY <1>1 DEF CheckInv, OverdueInv
<1>4. CursorInv'
  BY <1>1, CursorKept DEF CheckInv
<1>5. overdue' \cap Skipped = {} /\ \A s \in overdue' : connectedUser'[s].age >= Timeout
  BY <1>1 DEF CheckInv, OverdueInv
<1>6. CASE GoClose("logic", a)
  <2>1. /\ AllButAstray'
        /\ at' \in [Threads -> NetSteps \cup LogicSteps]
        /\ at'["net"] \in NetSteps /\ at'["logic"] \in LogicSteps
        /\ slot' \in [Threads -> Sessions] /\ astray' \subseteq Sessions
        /\ at'["logic"] = "clear" /\ slot'["logic"] = a
    BY <1>1, <1>2, <1>6, GoCloseKeeps
  <2>2. LoginCheckTypeOK'
    BY <1>1, <2>1 DEF CheckInv, LoginCheckTypeOK
  <2>3. OverdueInv'
    BY <1>1, <1>3, <1>5, <2>1 DEF OverdueInv
  <2> QED
    BY <1>4, <2>1, <2>2, <2>3 DEF CheckInv
<1>7. CASE Step("logic", "force")
  <2>1. at' = at /\ slot' = slot /\ astray' = astray
    <3>1. at' = [at EXCEPT !["logic"] = at["logic"]]
      BY <1>1, <1>7 DEF Step
    <3>2. at' = at
      BY <3>1 DEF CheckInv, LoginCheckTypeOK
    <3> QED
      BY <1>7, <3>2 DEF Step
  <2>2. LoginCheckTypeOK'
    BY <1>1, <2>1 DEF CheckInv, LoginCheckTypeOK
  <2>3. OverdueInv'
    <3>1. at'["logic"] = "force" /\ "force" \notin CloseSteps
      BY <1>1, <2>1 DEF CloseSteps
    <3> QED
      BY <1>5, <3>1 DEF OverdueInv
  <2>4. AllButAstray'
    <3>1. \A s, t : IsAt(t, s)' <=> IsAt(t, s)
      BY <2>1 DEF IsAt, Busy
    <3> QED
      BY <1>1, <2>1, <3>1, Untouched DEF CheckInv, AllButAstray
  <2> QED
    BY <1>4, <2>2, <2>3, <2>4 DEF CheckInv
<1> QED
  BY <1>1, <1>6, <1>7

\* The steps of a thread at a session a.
LEMMA ConnectedSessionKeeps ==
  ASSUME CheckInv, ConnectedSession
  PROVE  CheckInv'
<1> SUFFICES ASSUME NEW a \in Sessions, a = slot["net"]
             PROVE  CheckInv'
  BY TypeFacts, ThreadFacts DEF CheckInv
<1>1. /\ at["net"] = "connect" /\ openFor' = [openFor EXCEPT ![a] = 0]
      /\ at' = [at EXCEPT !["net"] = "announce"] /\ slot' = slot /\ astray' = astray
      /\ UNCHANGED <<connectedUser, cursor, due, overdue, queue, tags>>
  BY DEF ConnectedSession, Step, listVars
<1>2. "net" \in Threads /\ "announce" \in StepsOf("net") /\ Busy("net")
  BY <1>1, ThreadFacts DEF StepsOf, Busy
<1>3. /\ at' \in [Threads -> NetSteps \cup LogicSteps]
      /\ at'["net"] \in NetSteps /\ at'["logic"] \in LogicSteps
      /\ slot' \in [Threads -> Sessions]
      /\ at'["logic"] = at["logic"] /\ slot'["logic"] = slot["logic"]
  BY <1>1, <1>2, ThreadsMove, ThreadFacts DEF CheckInv
<1>4. /\ openFor' \in [Sessions -> Ages \cup {NoTime}] /\ openFor'[a] = 0
      /\ \A s \in Sessions \ {a} : openFor'[s] = openFor[s]
  BY <1>1, AgesFacts DEF CheckInv, LoginCheckTypeOK
<1>5. LoginCheckTypeOK'
  BY <1>1, <1>3, <1>4 DEF CheckInv, LoginCheckTypeOK
<1>6. CursorInv' /\ OverdueInv'
  BY <1>1, <1>3, CursorKept, OverdueKept DEF CheckInv
<1>7. \A s \in Sessions \ astray' : s # a => SessionInv(s)'
  BY <1>1, <1>2, <1>4, OthersStay DEF CheckInv
<1>8. ASSUME a \notin astray'
      PROVE  SessionInv(a)'
  <2>1. /\ SessionInv(a)
        /\ \A o \in Threads \ {"net"} :
               ~IsAt(o, a)' /\ (slot'[o] = a => at'[o] \in {"idle", "run", "check", "force"})
        /\ at'["net"] = "announce"
        /\ ~Leaving(a) /\ ~Leaving(a)'
        /\ Told(a) <=> openFor[a] # NoTime
        /\ ~Told(a)'
    <3>1. /\ SessionInv(a)
          /\ \A o \in Threads \ {"net"} :
                 ~IsAt(o, a)' /\ (slot'[o] = a => at'[o] \in {"idle", "run", "check", "force"})
          /\ at'["net"] = "announce"
          /\ Leaving(a) <=> at["net"] \in {"release", "report"}
          /\ Leaving(a)' <=> "announce" \in {"release", "report"}
          /\ Told(a) <=> Leaving(a) \/ (openFor[a] # NoTime /\ at["net"] # "announce")
          /\ Told(a)' <=> Leaving(a)' \/ (openFor'[a] # NoTime /\ "announce" # "announce")
      BY <1>1, <1>2, <1>8, Alone DEF CheckInv
    <3> QED
      BY <1>1, <3>1
  <2>2. openFor[a] = NoTime /\ tags[a] = 0
    BY <1>1, <1>2, <2>1 DEF SessionInv, Places
  <2>3. NotOlder(a) => NotOlder(a)'
    BY <1>1, <1>4, <2>2, TypeFacts, AgesFacts DEF NotOlder, CheckInv
  <2>4. 0 # NoTime
    BY AgesFacts
  <2>5. Places(a)'
    BY <1>1, <1>2, <1>4, <2>1, <2>2, <2>4, AlonePlaces
  <2> QED
    BY <1>1, <2>1, <2>2, <2>3, <2>5, NothingTold DEF CheckInv
<1> QED
  BY <1>5, <1>6, <1>7, <1>8 DEF CheckInv, AllButAstray

LEMMA EndReceiveKeeps ==
  ASSUME CheckInv, EndReceive
  PROVE  CheckInv'
<1> SUFFICES ASSUME NEW a \in Sessions, a = slot["net"]
             PROVE  CheckInv'
  BY TypeFacts, ThreadFacts DEF CheckInv
<1>1. /\ at["net"] = "receive"
      /\ at' = [at EXCEPT !["net"] = "idle"]
      /\ slot' = [slot EXCEPT !["net"] = 0] /\ astray' = astray
      /\ UNCHANGED <<connectedUser, cursor, due, overdue, queue, openFor, tags>>
  BY DEF EndReceive, Leave, listVars
<1>2. "net" \in Threads /\ "idle" \in StepsOf("net") /\ Busy("net")
  BY <1>1, ThreadFacts DEF StepsOf, Busy
<1>3. /\ at' \in [Threads -> NetSteps \cup LogicSteps]
      /\ at'["net"] \in NetSteps /\ at'["logic"] \in LogicSteps
      /\ slot' \in [Threads -> Sessions]
      /\ at'["logic"] = at["logic"] /\ slot'["logic"] = slot["logic"]
  BY <1>1, <1>2, ThreadsMove, ThreadFacts, TypeFacts DEF CheckInv
<1>4. LoginCheckTypeOK'
  BY <1>1, <1>3 DEF CheckInv, LoginCheckTypeOK
<1>5. CursorInv' /\ OverdueInv'
  BY <1>1, <1>3, CursorKept, OverdueKept DEF CheckInv
<1>6. \A s \in Sessions \ astray' : s # a => SessionInv(s)'
  BY <1>1, <1>2, OthersStay DEF CheckInv
<1>7. ASSUME a \notin astray'
      PROVE  SessionInv(a)'
  <2>1. /\ SessionInv(a)
        /\ \A o \in Threads \ {"net"} :
               ~IsAt(o, a)' /\ (slot'[o] = a => at'[o] \in {"idle", "run", "check", "force"})
        /\ at'["net"] = "idle"
        /\ Leaving(a)' <=> Leaving(a)
        /\ Told(a)' <=> Told(a)
    BY <1>1, <1>2, <1>7, Alone DEF CheckInv
  <2>2. tags[a] \in {0, 1} /\ (openFor[a] # NoTime => tags[a] = 0)
    BY <2>1 DEF SessionInv, Places
  <2>3. NotOlder(a) <=> NotOlder(a)'
    BY <1>1 DEF NotOlder
  <2>4. Places(a)'
    BY <1>1, <1>2, <2>1, <2>2, AlonePlaces
  <2> QED
    BY <1>1, <2>1, <2>3, <2>4, NothingTold DEF CheckInv
<1> QED
  BY <1>4, <1>5, <1>6, <1>7 DEF CheckInv, AllButAstray

LEMMA ClearKeeps ==
  ASSUME CheckInv, NEW t \in Threads, Clear(t)
  PROVE  CheckInv'
<1> SUFFICES ASSUME NEW a \in Sessions, a = slot[t]
             PROVE  CheckInv'
  BY TypeFacts, ThreadFacts DEF CheckInv
<1>1. /\ at[t] = "clear" /\ openFor' = [openFor EXCEPT ![a] = NoTime]
      /\ at' = [at EXCEPT ![t] = "release"] /\ slot' = slot /\ astray' = astray
      /\ UNCHANGED <<connectedUser, cursor, due, overdue, queue, tags>>
  BY DEF Clear, Step, listVars
<1>2. "release" \in StepsOf(t) /\ Busy(t)
  BY <1>1, ThreadFacts DEF StepsOf, Busy
<1>3. /\ at' \in [Threads -> NetSteps \cup LogicSteps]
      /\ at'["net"] \in NetSteps /\ at'["logic"] \in LogicSteps
      /\ slot' \in [Threads -> Sessions] /\ at'[t] = "release"
      /\ \A o \in Threads \ {t} : at'[o] = at[o]
  BY <1>1, <1>2, ThreadsMove, ThreadFacts DEF CheckInv
<1>4. /\ openFor' \in [Sessions -> Ages \cup {NoTime}] /\ openFor'[a] = NoTime
      /\ \A s \in Sessions \ {a} : openFor'[s] = openFor[s]
  BY <1>1, AgesFacts DEF CheckInv, LoginCheckTypeOK
<1>5. LoginCheckTypeOK'
  BY <1>1, <1>3, <1>4 DEF CheckInv, LoginCheckTypeOK
<1>6. OverdueInv'
  <2>1. CASE t = "logic"
    BY <1>1, <1>3, <2>1 DEF CheckInv, OverdueInv, CloseSteps
  <2>2. CASE t = "net"
    BY <1>1, <1>3, <2>2, ThreadFacts, OverdueKept DEF CheckInv
  <2> QED
    BY <2>1, <2>2, ThreadFacts
<1>7. \A s \in Sessions \ astray' : s # a => SessionInv(s)'
  BY <1>1, <1>2, <1>4, OthersStay DEF CheckInv
<1>8. ASSUME a \notin astray'
      PROVE  SessionInv(a)'
  <2>1. /\ SessionInv(a)
        /\ \A o \in Threads \ {t} :
               ~IsAt(o, a)' /\ (slot'[o] = a => at'[o] \in {"idle", "run", "check", "force"})
        /\ Leaving(a)' /\ Told(a)'
        /\ Told(a) <=> openFor[a] # NoTime
    <3>1. /\ SessionInv(a)
          /\ \A o \in Threads \ {t} :
                 ~IsAt(o, a)' /\ (slot'[o] = a => at'[o] \in {"idle", "run", "check", "force"})
          /\ Leaving(a) <=> at[t] \in {"release", "report"}
          /\ Leaving(a)' <=> "release" \in {"release", "report"}
          /\ Told(a) <=> Leaving(a) \/ (openFor[a] # NoTime /\ at[t] # "announce")
          /\ Told(a)' <=> Leaving(a)' \/ (openFor'[a] # NoTime /\ "release" # "announce")
      BY <1>1, <1>2, <1>8, Alone DEF CheckInv
    <3> QED
      BY <1>1, <3>1
  <2>2. openFor[a] # NoTime /\ tags[a] = 0
    BY <1>1, <2>1 DEF SessionInv, Places
  <2>3. Places(a)'
    BY <1>1, <1>3, <1>4, <2>1, <2>2, AlonePlaces
  <2> QED
    BY <1>1, <2>1, <2>2, <2>3, NothingTold DEF CheckInv
<1>9. CursorInv'
  BY <1>1, CursorKept DEF CheckInv
<1> QED
  BY <1>5, <1>6, <1>7, <1>8, <1>9 DEF CheckInv, AllButAstray

LEMMA ReleaseTagKeeps ==
  ASSUME CheckInv, NEW t \in Threads, ReleaseTag(t)
  PROVE  CheckInv'
<1> SUFFICES ASSUME NEW a \in Sessions, a = slot[t]
             PROVE  CheckInv'
  BY TypeFacts, ThreadFacts DEF CheckInv
<1>1. /\ at[t] = "release" /\ tags' = [tags EXCEPT ![a] = tags[a] + 1]
      /\ at' = [at EXCEPT ![t] = "report"] /\ slot' = slot /\ astray' = astray
      /\ UNCHANGED <<connectedUser, cursor, due, overdue, queue, openFor>>
  BY DEF ReleaseTag, Step, listVars
<1>2. "report" \in StepsOf(t) /\ Busy(t)
  BY <1>1, ThreadFacts DEF StepsOf, Busy
<1>3. /\ at' \in [Threads -> NetSteps \cup LogicSteps]
      /\ at'["net"] \in NetSteps /\ at'["logic"] \in LogicSteps
      /\ slot' \in [Threads -> Sessions] /\ at'[t] = "report"
      /\ \A o \in Threads \ {t} : at'[o] = at[o]
  BY <1>1, <1>2, ThreadsMove, ThreadFacts DEF CheckInv
<1>4. /\ tags' \in [Sessions -> Nat] /\ tags'[a] = tags[a] + 1
      /\ \A s \in Sessions \ {a} : tags'[s] = tags[s]
  BY <1>1 DEF CheckInv, LoginCheckTypeOK
<1>5. LoginCheckTypeOK'
  BY <1>1, <1>3, <1>4 DEF CheckInv, LoginCheckTypeOK
<1>6. OverdueInv'
  <2>1. CASE t = "logic"
    BY <1>1, <1>3, <2>1 DEF CheckInv, OverdueInv, CloseSteps
  <2>2. CASE t = "net"
    BY <1>1, <1>3, <2>2, ThreadFacts, OverdueKept DEF CheckInv
  <2> QED
    BY <2>1, <2>2, ThreadFacts
<1>7. \A s \in Sessions \ astray' : s # a => SessionInv(s)'
  BY <1>1, <1>2, <1>4, OthersStay DEF CheckInv
<1>8. ASSUME a \notin astray'
      PROVE  SessionInv(a)'
  <2>1. /\ SessionInv(a)
        /\ \A o \in Threads \ {t} :
               ~IsAt(o, a)' /\ (slot'[o] = a => at'[o] \in {"idle", "run", "check", "force"})
        /\ Leaving(a) /\ Leaving(a)' /\ Told(a) /\ Told(a)'
    <3>1. /\ SessionInv(a)
          /\ \A o \in Threads \ {t} :
                 ~IsAt(o, a)' /\ (slot'[o] = a => at'[o] \in {"idle", "run", "check", "force"})
          /\ Leaving(a) <=> at[t] \in {"release", "report"}
          /\ Leaving(a)' <=> "report" \in {"release", "report"}
          /\ Told(a) <=> Leaving(a) \/ (openFor[a] # NoTime /\ at[t] # "announce")
          /\ Told(a)' <=> Leaving(a)' \/ (openFor'[a] # NoTime /\ "report" # "announce")
      BY <1>1, <1>2, <1>8, Alone DEF CheckInv
    <3> QED
      BY <1>1, <3>1
  <2>2. openFor[a] = NoTime /\ tags[a] = 0
    BY <1>1, <2>1 DEF SessionInv, Places
  <2>3. Places(a)'
    BY <1>1, <1>3, <1>4, <2>1, <2>2, AlonePlaces
  <2> QED
    BY <1>1, <2>1, <2>3, NothingTold DEF CheckInv
<1>9. CursorInv'
  BY <1>1, CursorKept DEF CheckInv
<1> QED
  BY <1>5, <1>6, <1>7, <1>8, <1>9 DEF CheckInv, AllButAstray

\* A report of session a goes to the end of the queue.
LEMMA ReportedKeeps ==
  ASSUME LoginCheckTypeOK, NEW a \in Sessions, SessionInv(a), Places(a)',
         connectedUser'[a] = connectedUser[a],
         NEW id \in {"CONNECT", "LOGIN", "CLOSE", "NONE"}, queue' = Report(id, a),
         \/ id = "CLOSE" /\ ~Told(a)'
         \/ /\ Told(a)' /\ (NotOlder(a) \/ Leaving(a) => NotOlder(a)' \/ Leaving(a)')
            /\ \/ id = "CONNECT"
               \/ id \in {"LOGIN", "NONE"} /\ Told(a)
  PROVE  SessionInv(a)'
<1>1. /\ Len(queue') = Len(queue) + 1 /\ Len(queue) \in Nat
      /\ \A i \in 1 .. Len(queue) : queue'[i] = queue[i]
      /\ queue'[Len(queue) + 1] = Pkt(id, a)
      /\ \A i \in 0 .. Len(queue) : Queued(id, a, i)'
      /\ \A jd, t, i : i \in Nat /\ Queued(jd, t, i) => Queued(jd, t, i)'
  BY Appended, TypeFacts
<1>2. ASSUME NEW i \in 1 .. Len(queue')
      PROVE  /\ queue'[i] \in {Pkt("CONNECT", a), Pkt("LOGIN", a)} /\ ~Told(a)'
                  => Queued("CLOSE", a, i)'
             /\ queue'[i] = Pkt("CLOSE", a) /\ Told(a)'
                  => Queued("CONNECT", a, i)'
  <2>1. CASE i = Len(queue) + 1
    <3>1. queue'[i] = Pkt(id, a)
      BY <1>1, <2>1
    <3>2. /\ Pkt(id, a) = Pkt("CLOSE", a) <=> id = "CLOSE"
          /\ Pkt(id, a) \in {Pkt("CONNECT", a), Pkt("LOGIN", a)} => id # "CLOSE"
      BY DEF Pkt
    <3> QED
      BY <3>1, <3>2
  <2>2. CASE i # Len(queue) + 1
    <3>1. i \in 1 .. Len(queue) /\ i \in 0 .. Len(queue) /\ i \in Nat
      BY <1>1, <2>2
    <3>2. queue'[i] = queue[i]
      BY <1>1, <3>1
    <3>3. /\ queue[i] \in {Pkt("CONNECT", a), Pkt("LOGIN", a)} /\ ~Told(a)
               => Queued("CLOSE", a, i)
          /\ queue[i] = Pkt("CLOSE", a) /\ Told(a)
               => Queued("CONNECT", a, i)
      BY <3>1 DEF SessionInv, Reports
    <3> QED
      BY <1>1, <3>1, <3>2, <3>3
  <2> QED
    BY <2>1, <2>2
<1>3. Reports(a)'
  BY <1>2 DEF Reports
<1>4. Listed(a)'
  <2>1. 0 \in Nat /\ 0 \in 0 .. Len(queue)
    BY <1>1
  <2>2. Queued(id, a, 0)' /\ \A jd : Queued(jd, a, 0) => Queued(jd, a, 0)'
    BY <1>1, <2>1
  <2> QED
    BY <2>2 DEF SessionInv, Listed
<1> QED
  BY <1>3, <1>4 DEF SessionInv

LEMMA AnnounceConnectKeeps ==
  ASSUME CheckInv, AnnounceConnect
  PROVE  CheckInv'
<1> SUFFICES ASSUME NEW a \in Sessions, a = slot["net"]
             PROVE  CheckInv'
  BY TypeFacts, ThreadFacts DEF CheckInv
<1>1. /\ at["net"] = "announce" /\ queue' = Report("CONNECT", a)
      /\ at' = [at EXCEPT !["net"] = "idle"]
      /\ slot' = [slot EXCEPT !["net"] = 0] /\ astray' = astray
      /\ UNCHANGED <<connectedUser, cursor, due, overdue, openFor, tags>>
  BY DEF AnnounceConnect, Leave, listVars
<1>2. "net" \in Threads /\ "idle" \in StepsOf("net") /\ Busy("net")
  BY <1>1, ThreadFacts DEF StepsOf, Busy
<1>3. /\ at' \in [Threads -> NetSteps \cup LogicSteps]
      /\ at'["net"] \in NetSteps /\ at'["logic"] \in LogicSteps
      /\ slot' \in [Threads -> Sessions]
      /\ at'["logic"] = at["logic"] /\ slot'["logic"] = slot["logic"]
  BY <1>1, <1>2, ThreadsMove, ThreadFacts, TypeFacts DEF CheckInv
<1>4. queue' \in Seq(Packets)
  BY <1>1, Appended DEF CheckInv, LoginCheckTypeOK
<1>5. LoginCheckTypeOK'
  BY <1>1, <1>3, <1>4 DEF CheckInv, LoginCheckTypeOK
<1>6. CursorInv' /\ OverdueInv'
  BY <1>1, <1>3, CursorKept, OverdueKept DEF CheckInv
<1>7. \A s \in Sessions \ astray' : s # a => SessionInv(s)'
  BY <1>1, <1>2, OthersStay DEF CheckInv
<1>8. ASSUME a \notin astray'
      PROVE  SessionInv(a)'
  <2>1. /\ SessionInv(a)
        /\ \A o \in Threads \ {"net"} :
               ~IsAt(o, a)' /\ (slot'[o] = a => at'[o] \in {"idle", "run", "check", "force"})
        /\ at'["net"] = "idle"
        /\ Leaving(a) <=> at["net"] \in {"release", "report"}
        /\ Told(a)' <=> Leaving(a)' \/ (openFor'[a] # NoTime /\ "idle" # "announce")
    BY <1>1, <1>2, <1>8, Alone DEF CheckInv
  <2>2. openFor[a] # NoTime /\ tags[a] = 0
    BY <1>1, <1>2, <2>1 DEF SessionInv, Places
  <2>3. ~Leaving(a) /\ Told(a)' /\ (NotOlder(a) <=> NotOlder(a)')
    BY <1>1, <2>1, <2>2 DEF NotOlder
  <2>4. Places(a)'
    BY <1>1, <1>2, <2>1, <2>2, AlonePlaces
  <2> QED
    BY <1>1, <2>1, <2>3, <2>4, ReportedKeeps DEF CheckInv
<1> QED
  BY <1>5, <1>6, <1>7, <1>8 DEF CheckInv, AllButAstray

LEMMA ReportCloseKeeps ==
  ASSUME CheckInv, NEW t \in Threads, ReportClose(t)
  PROVE  CheckInv'
<1> SUFFICES ASSUME NEW a \in Sessions, a = slot[t],
                    NEW l, l = IF t = "net" THEN "idle" ELSE "force"
             PROVE  CheckInv'
  BY TypeFacts, ThreadFacts DEF CheckInv
<1>1. /\ at[t] = "report" /\ queue' = Report("CLOSE", a)
      /\ at' = [at EXCEPT ![t] = l]
      /\ slot' = [slot EXCEPT ![t] = 0] /\ astray' = astray
      /\ UNCHANGED <<connectedUser, cursor, due, overdue, openFor, tags>>
  BY DEF ReportClose, Leave, listVars
<1>2. l \in {"idle", "force"} /\ l \in StepsOf(t) /\ Busy(t)
  BY <1>1, ThreadFacts DEF StepsOf, Busy
<1>3. /\ at' \in [Threads -> NetSteps \cup LogicSteps]
      /\ at'["net"] \in NetSteps /\ at'["logic"] \in LogicSteps
      /\ slot' \in [Threads -> Sessions] /\ at'[t] = l
      /\ \A o \in Threads \ {t} : at'[o] = at[o] /\ slot'[o] = slot[o]
  BY <1>1, <1>2, ThreadsMove, TypeFacts DEF CheckInv
<1>4. queue' \in Seq(Packets)
  BY <1>1, Appended DEF CheckInv, LoginCheckTypeOK
<1>5. LoginCheckTypeOK'
  BY <1>1, <1>3, <1>4 DEF CheckInv, LoginCheckTypeOK
<1>6. OverdueInv'
  <2>1. CASE t = "logic"
    BY <1>1, <1>3, <2>1 DEF CheckInv, OverdueInv, CloseSteps
  <2>2. CASE t = "net"
    BY <1>1, <1>3, <2>2, ThreadFacts, OverdueKept DEF CheckInv
  <2> QED
    BY <2>1, <2>2, ThreadFacts
<1>7. \A s \in Sessions \ astray' : s # a => SessionInv(s)'
  BY <1>1, <1>2, OthersStay DEF CheckInv
<1>8. ASSUME a \notin astray'
      PROVE  SessionInv(a)'
  <2>1. /\ SessionInv(a)
        /\ \A o \in Threads \ {t} :
               ~IsAt(o, a)' /\ (slot'[o] = a => at'[o] \in {"idle", "run", "check", "force"})
        /\ Leaving(a)' <=> l \in {"release", "report"}
        /\ Told(a)' <=> Leaving(a)' \/ (openFor'[a] # NoTime /\ l # "announce")
    BY <1>1, <1>2, <1>8, Alone DEF CheckInv
  <2>2. openFor[a] = NoTime /\ tags[a] \in {0, 1}
    BY <1>1, <2>1 DEF SessionInv, Places
  <2>3. ~Told(a)'
    BY <1>1, <1>2, <2>1, <2>2
  <2>4. Places(a)'
    BY <1>1, <1>2, <1>3, <2>1, <2>2, AlonePlaces
  <2> QED
    BY <1>1, <2>1, <2>3, <2>4, ReportedKeeps DEF CheckInv
<1>9. CursorInv'
  BY <1>1, CursorKept DEF CheckInv
<1> QED
  BY <1>5, <1>6, <1>7, <1>8, <1>9 DEF CheckInv, AllButAstray

\* A client's CONNECT or CLOSE makes its session astray.
LEMMA ReceivePacketKeeps ==
  ASSUME CheckInv, NEW id \in {"CONNECT", "LOGIN", "CLOSE", "NONE"}, ReceivePacket(id)
  PROVE  CheckInv'
<1> SUFFICES ASSUME NEW a \in Sessions, a = slot["net"]
             PROVE  CheckInv'
  BY TypeFacts, ThreadFacts DEF CheckInv
<1>1. /\ at["net"] = "receive" /\ queue' = Report(id, a)
      /\ UNCHANGED <<connectedUser, cursor, due, overdue, openFor, tags, at, slot>>
      /\ astray' = IF id \in {"CONNECT", "CLOSE"} THEN astray \cup {a} ELSE astray
  BY DEF ReceivePacket, listVars, threadVars
<1>2. "net" \in Threads /\ "receive" \in StepsOf("net") /\ Busy("net")
  BY <1>1, ThreadFacts DEF StepsOf, Busy
<1>3. at' = [at EXCEPT !["net"] = "receive"] /\ slot' = slot
  BY <1>1 DEF CheckInv, LoginCheckTypeOK
<1>4. queue' \in Seq(Packets)
  BY <1>1, Appended DEF CheckInv, LoginCheckTypeOK
<1>5. LoginCheckTypeOK'
  <2>1. astray' \subseteq Sessions
    BY <1>1 DEF CheckInv, LoginCheckTypeOK
  <2> QED
    BY <1>1, <1>4, <2>1 DEF CheckInv, LoginCheckTypeOK
<1>6. CursorInv' /\ OverdueInv'
  BY <1>1, CursorKept, OverdueKept DEF CheckInv
<1>7. \A s \in Sessions \ astray' : s # a => SessionInv(s)'
  BY <1>1, <1>2, <1>3, OthersStay DEF CheckInv
<1>8. ASSUME a \notin astray'
      PROVE  SessionInv(a)'
  <2>1. a \notin astray /\ id \in {"LOGIN", "NONE"}
    BY <1>1, <1>8
  <2>2. /\ SessionInv(a)
        /\ Told(a) <=> Leaving(a) \/ (openFor[a] # NoTime /\ at["net"] # "announce")
        /\ Told(a)' <=> Leaving(a)' \/ (openFor'[a] # NoTime /\ "receive" # "announce")
    BY <1>1, <1>2, <1>3, <2>1, Alone DEF CheckInv
  <2>3. openFor[a] # NoTime
    BY <1>1, <1>2, <2>2 DEF SessionInv, Places
  <2>4. Told(a) /\ Told(a)'
    BY <1>1, <2>2, <2>3
  <2>5. NotOlder(a) \/ Leaving(a) => NotOlder(a)' \/ Leaving(a)'
    BY <1>1 DEF NotOlder, Leaving
  <2>6. Places(a)'
    <3>1. \A o : IsAt(o, a)' <=> IsAt(o, a)
      BY <1>1 DEF IsAt, Busy
    <3> QED
      BY <1>1, <2>2, <3>1 DEF SessionInv, Places
  <2> QED
    BY <1>1, <2>1, <2>2, <2>4, <2>5, <2>6, ReportedKeeps DEF CheckInv
<1> QED
  BY <1>5, <1>6, <1>7, <1>8 DEF CheckInv, AllButAstray
-----------------------------------------------------------------------------
\* The logic thread goes on while it is at no session.
LEMMA LogicMoves ==
  ASSUME LoginCheckTypeOK, at["logic"] \in {"run", "check", "force"},
         NEW l \in {"run", "check", "force"}, Step("logic", l)
  PROVE  /\ at' \in [Threads -> NetSteps \cup LogicSteps]
         /\ at'["net"] \in NetSteps /\ at'["logic"] \in LogicSteps
         /\ at'["logic"] = l /\ slot' = slot /\ astray' = astray
         /\ \A s : \A t \in Threads : /\ IsAt(t, s)' <=> IsAt(t, s)
                                      /\ IsAt(t, s) => at'[t] = at[t]
<1>1. at' = [at EXCEPT !["logic"] = l] /\ slot' = slot /\ astray' = astray
  BY DEF Step
<1>2. "logic" \in Threads /\ l \in StepsOf("logic")
  BY ThreadFacts DEF StepsOf
<1>3. /\ at' \in [Threads -> NetSteps \cup LogicSteps]
      /\ at'["net"] \in NetSteps /\ at'["logic"] \in LogicSteps
      /\ at'["logic"] = l
      /\ \A o \in Threads \ {"logic"} : at'[o] = at[o] /\ slot'[o] = slot[o]
  BY <1>1, <1>2, ThreadsMove
<1>4. \A s : ~IsAt("logic", s) /\ ~IsAt("logic", s)'
  BY <1>3 DEF IsAt, Busy
<1>5. \A s : \A t \in Threads : /\ IsAt(t, s)' <=> IsAt(t, s)
                                /\ IsAt(t, s) => at'[t] = at[t]
  <2>1. TAKE s
  <2>2. "logic" \in Threads /\ ~IsAt("logic", s) /\ ~IsAt("logic", s)'
    BY <1>2, <1>4
  <2> QED
    BY <1>3, <2>2, OthersPlaces
<1> QED
  BY <1>1, <1>3, <1>5

LEMMA IdleKeeps ==
  ASSUME CheckInv, QueueEmpty \/ CheckDone
  PROVE  CheckInv'
<1>1. /\ at["logic"] \in {"run", "force"} /\ overdue = {}
      /\ UNCHANGED <<connectedUser, cursor, due, overdue, queue, openFor, tags>>
      /\ \E l \in {"run", "check"} : Step("logic", l)
  BY DEF QueueEmpty, CheckDone, listVars, CheckInv, OverdueInv
<1>2. PICK l \in {"run", "check"} : Step("logic", l)
  BY <1>1
<1>3. /\ at' \in [Threads -> NetSteps \cup LogicSteps]
      /\ at'["net"] \in NetSteps /\ at'["logic"] \in LogicSteps
      /\ at'["logic"] = l /\ slot' = slot /\ astray' = astray
      /\ \A s : \A t \in Threads : /\ IsAt(t, s)' <=> IsAt(t, s)
                                   /\ IsAt(t, s) => at'[t] = at[t]
  BY <1>1, <1>2, LogicMoves DEF CheckInv
<1>4. LoginCheckTypeOK'
  BY <1>1, <1>3 DEF CheckInv, LoginCheckTypeOK
<1>5. OverdueInv'
  BY <1>1, <1>3 DEF OverdueInv, CloseSteps
<1>6. AllButAstray'
  BY <1>1, <1>3, Untouched DEF CheckInv, AllButAstray
<1> QED
  BY <1>1, <1>4, <1>5, <1>6, CursorKept DEF CheckInv

LEMMA StateCheckKeeps ==
  ASSUME CheckInv, StateCheck
  PROVE  CheckInv'
<1>1. /\ at["logic"] = "check" /\ overdue = {}
      /\ UNCHANGED <<connectedUser, queue, openFor, tags>>
      /\ \E l \in {"run", "force"} : Step("logic", l)
  BY DEF StateCheck, CheckInv, OverdueInv
<1>2. PICK l \in {"run", "force"} : Step("logic", l)
  BY <1>1
<1>3. /\ at' \in [Threads -> NetSteps \cup LogicSteps]
      /\ at'["net"] \in NetSteps /\ at'["logic"] \in LogicSteps
      /\ at'["logic"] = l /\ slot' = slot /\ astray' = astray
      /\ \A s : \A t \in Threads : /\ IsAt(t, s)' <=> IsAt(t, s)
                                   /\ IsAt(t, s) => at'[t] = at[t]
  BY <1>1, <1>2, LogicMoves DEF CheckInv
<1>4. AllButAstray'
  BY <1>1, <1>3, Untouched DEF CheckInv, AllButAstray
<1>5. CASE ~due
  <2>1. UNCHANGED <<due, cursor, overdue>>
    BY <1>5 DEF StateCheck
  <2>2. LoginCheckTypeOK'
    BY <1>1, <1>3, <2>1 DEF CheckInv, LoginCheckTypeOK
  <2>3. OverdueInv'
    BY <1>1, <1>3, <2>1 DEF OverdueInv, CloseSteps
  <2> QED
    BY <1>4, <2>1, <2>2, <2>3, CursorKept DEF CheckInv
<1>6. CASE due
  <2>1. /\ due' = FALSE /\ cursor' = EndOfBatch
        /\ overdue' = {s \in FirstOfBatch .. EndOfBatch - 1 : TimeOver(s)}
        /\ Step("logic", "force")
    BY <1>6 DEF StateCheck
  <2>2. at'["logic"] = "force"
    BY <1>1, <2>1, LogicMoves DEF CheckInv
  <2>3. overdue' \subseteq Sessions /\ cursor' \in -1 .. MaxSessionCount
    BY <2>1, BatchFacts DEF CheckInv, Sessions
  <2>4. LoginCheckTypeOK'
    BY <1>1, <1>3, <2>1, <2>3 DEF CheckInv, LoginCheckTypeOK
  <2>5. CursorInv'
    <3>1. PICK k \in Int : FirstOfBatch = k * (Batch + 1)
      BY BatchStarts DEF CheckInv
    <3>2. \/ cursor' = MaxSessionCount
          \/ cursor' = k * (Batch + 1) + Batch
      BY <2>1, <3>1, BatchFacts DEF CheckInv
    <3> QED
      BY <3>2 DEF CursorInv
  <2>6. OverdueInv'
    <3>1. overdue' \cap Skipped = {}
      BY <2>1, SkippedOutsideBatch DEF CheckInv
    <3>2. \A s \in overdue' : connectedUser'[s].age >= Timeout
      BY <1>1, <2>1 DEF TimeOver
    <3> QED
      BY <2>2, <3>1, <3>2 DEF OverdueInv, CloseSteps
  <2> QED
    BY <1>4, <2>4, <2>5, <2>6 DEF CheckInv
<1> QED
  BY <1>5, <1>6

\* A handled report makes the list say what the network said then; what has
\* changed since is still to come.
LEMMA HandledFacts ==
  ASSUME LoginCheckTypeOK, NEW p \in Packets, NEW a, a = p.session,
         connectedUser' = Handled(p)
  PROVE  /\ a \in Sessions /\ p = Pkt(p.id, a)
         /\ p.id \in {"CONNECT", "LOGIN", "CLOSE", "NONE"}
         /\ connectedUser' \in [Sessions -> UserRecord]
         /\ \A s \in Sessions \ {a} : connectedUser'[s] = connectedUser[s]
         /\ p.id = "CONNECT" => /\ connectedUser'[a].age = 0
                                /\ connectedUser'[a].login = connectedUser[a].login
         /\ p.id = "LOGIN" => connectedUser'[a].age = connectedUser[a].age
         /\ p.id = "CLOSE" => connectedUser'[a] = NotConnected
         /\ p.id = "NONE" => connectedUser'[a] = connectedUser[a]
<1>1. /\ a \in Sessions /\ p.id \in {"CONNECT", "LOGIN", "CLOSE", "NONE"}
      /\ p = Pkt(p.id, a)
  BY DEF Packets, Pkt
<1>2. connectedUser \in [Sessions -> UserRecord] /\ connectedUser[a] \in UserRecord
  BY <1>1 DEF LoginCheckTypeOK, UserRecord
<1>3. CASE p.id = "CONNECT"
  <2>1. connectedUser' =
           [connectedUser EXCEPT ![a] = [connectedUser[a] EXCEPT !.age = 0]]
    BY <1>3 DEF Handled
  <2>2. /\ [connectedUser[a] EXCEPT !.age = 0] \in UserRecord
        /\ [connectedUser[a] EXCEPT !.age = 0].age = 0
        /\ [connectedUser[a] EXCEPT !.age = 0].login = connectedUser[a].login
    BY <1>2, AgesFacts DEF UserRecord
  <2> QED
    BY <1>1, <1>2, <1>3, <2>1, <2>2
<1>4. CASE p.id = "LOGIN"
  <2>1. connectedUser' =
           [connectedUser EXCEPT ![a] = [connectedUser[a] EXCEPT !.login = TRUE]]
    BY <1>4 DEF Handled
  <2>2. /\ [connectedUser[a] EXCEPT !.login = TRUE] \in UserRecord
        /\ [connectedUser[a] EXCEPT !.login = TRUE].age = connectedUser[a].age
    BY <1>2 DEF UserRecord
  <2> QED
    BY <1>1, <1>2, <1>4, <2>1, <2>2
<1>5. CASE p.id = "CLOSE"
  <2>1. connectedUser' = [connectedUser EXCEPT ![a] = NotConnected]
    BY <1>5 DEF Handled, Cleared
  <2>2. NotConnected \in UserRecord
    BY AgesFacts DEF NotConnected, UserRecord
  <2> QED
    BY <1>1, <1>2, <1>5, <2>1, <2>2
<1>6. CASE p.id = "NONE"
  <2>1. connectedUser' = [connectedUser EXCEPT ![a] = connectedUser[a]]
    BY <1>6 DEF Handled
  <2>2. connectedUser' = connectedUser
    BY <1>2, <2>1
  <2> QED
    BY <1>1, <1>2, <1>6, <2>2
<1> QED
  BY <1>1, <1>3, <1>4, <1>5, <1>6

LEMMA ProcessKeeps ==
  ASSUME CheckInv, Process
  PROVE  CheckInv'
<1> SUFFICES ASSUME NEW p, p = Head(queue), NEW a, a = p.session
             PROVE  CheckInv'
  OBVIOUS
<1>1. /\ at["logic"] = "run" /\ queue # <<>>
      /\ connectedUser' = Handled(p)
      /\ queue' = Tail(queue)
      /\ UNCHANGED <<cursor, due, overdue, openFor, tags>>
      /\ \E l \in {"run", "check"} : Step("logic", l)
  BY DEF Process
<1>2. PICK l \in {"run", "check"} : Step("logic", l)
  BY <1>1
<1>3. /\ at' \in [Threads -> NetSteps \cup LogicSteps]
      /\ at'["net"] \in NetSteps /\ at'["logic"] \in LogicSteps
      /\ at'["logic"] = l /\ slot' = slot /\ astray' = astray
      /\ \A s : \A t \in Threads : /\ IsAt(t, s)' <=> IsAt(t, s)
                                   /\ IsAt(t, s) => at'[t] = at[t]
  BY <1>1, <1>2, LogicMoves DEF CheckInv
<1>4. /\ queue' \in Seq(Packets)
      /\ Len(queue) \in Nat \ {0} /\ Len(queue') = Len(queue) - 1
      /\ \A i \in 1 .. Len(queue') : queue'[i] = queue[i + 1]
      /\ \A id, s, i : i \in Nat /\ Queued(id, s, i + 1) => Queued(id, s, i)'
      /\ \A id, s : Queued(id, s, 0) /\ p # Pkt(id, s) => Queued(id, s, 0)'
  BY <1>1, Taken, TypeFacts DEF CheckInv
<1>5. p \in Packets /\ p = queue[1] /\ 1 \in 1 .. Len(queue)
  BY <1>1, TypeFacts DEF CheckInv
<1>6. /\ a \in Sessions /\ p = Pkt(p.id, a)
      /\ p.id \in {"CONNECT", "LOGIN", "CLOSE", "NONE"}
      /\ connectedUser' \in [Sessions -> UserRecord]
      /\ \A s \in Sessions \ {a} : connectedUser'[s] = connectedUser[s]
      /\ p.id = "CONNECT" => /\ connectedUser'[a].age = 0
                             /\ connectedUser'[a].login = connectedUser[a].login
      /\ p.id = "LOGIN" => connectedUser'[a].age = connectedUser[a].age
      /\ p.id = "CLOSE" => connectedUser'[a] = NotConnected
      /\ p.id = "NONE" => connectedUser'[a] = connectedUser[a]
  BY <1>1, <1>5, HandledFacts DEF CheckInv
<1>7. LoginCheckTypeOK'
  BY <1>1, <1>3, <1>4, <1>6 DEF CheckInv, LoginCheckTypeOK, UserRecord
<1>8. CursorInv' /\ OverdueInv'
  <2>1. overdue = {}
    BY <1>1 DEF CheckInv, OverdueInv
  <2> QED
    BY <1>1, <1>3, <2>1, CursorKept DEF CheckInv, OverdueInv, CloseSteps
<1>9. ASSUME NEW s \in Sessions \ astray', s # a
      PROVE  SessionInv(s)'
  <2>1. SessionInv(s) /\ connectedUser'[s] = connectedUser[s]
    BY <1>3, <1>6, <1>9 DEF CheckInv, AllButAstray
  <2> QED
    BY <1>1, <1>3, <1>9, <2>1, Untouched DEF CheckInv
<1>10. ASSUME a \notin astray'
       PROVE  SessionInv(a)'
  <2>1. SessionInv(a)
    BY <1>3, <1>6, <1>10 DEF CheckInv, AllButAstray
  <2>2. ASSUME NEW t \in Threads,
               NEW m \in {"connect", "announce", "receive", "clear", "release", "report"}
        PROVE  slot'[t] = a /\ at'[t] = m <=> slot[t] = a /\ at[t] = m
    <3>1. CASE t = "logic"
      <4>1. at'[t] # m /\ (at[t] = m => FALSE)
        BY <1>1, <1>3, <3>1
      <4> QED
        BY <4>1
    <3>2. CASE t = "net"
      <4>1. m \notin {"idle", "run", "check", "force"}
        OBVIOUS
      <4>2. slot[t] = a /\ at[t] = m => IsAt(t, a)
        BY <4>1 DEF IsAt, Busy
      <4>3. slot'[t] = a /\ at'[t] = m => IsAt(t, a)'
        BY <4>1 DEF IsAt, Busy
      <4> QED
        BY <1>3, <4>2, <4>3
    <3> QED
      BY <3>1, <3>2, ThreadFacts
  <2>3. Leaving(a)' <=> Leaving(a)
    BY <2>2 DEF Leaving
  <2>4. Told(a)' <=> Told(a)
    BY <1>1, <2>2, <2>3, ThreadFacts DEF Told
  <2>5. Places(a)'
    <3>1. ~(IsAt("net", a)' /\ IsAt("logic", a)')
      BY <1>3, <2>1, ThreadFacts DEF SessionInv, Places
    <3>2. tags'[a] \in {0, 1} /\ (openFor'[a] # NoTime => tags'[a] = 0)
      BY <1>1, <2>1 DEF SessionInv, Places
    <3>3. ASSUME NEW t \in Threads, slot'[t] = a
          PROVE  /\ at'[t] \in {"connect", "release"} => tags'[a] = 0
                 /\ at'[t] \in {"connect", "release", "report"} => openFor'[a] = NoTime
                 /\ at'[t] \in {"announce", "receive", "clear"} => openFor'[a] # NoTime
      BY <1>1, <2>1, <2>2, <3>3 DEF SessionInv, Places
    <3> QED
      BY <3>1, <3>2, <3>3 DEF Places
  <2>6. Reports(a)'
    <3>1. ASSUME NEW i \in 1 .. Len(queue'), NEW jd, queue'[i] = Pkt(jd, a)
          PROVE  /\ i + 1 \in 1 .. Len(queue) /\ queue[i + 1] = Pkt(jd, a)
                 /\ \A id : Queued(id, a, i + 1) => Queued(id, a, i)'
      <4>1. i \in Nat /\ i + 1 \in 1 .. Len(queue)
        BY <1>4
      <4> QED
        BY <1>4, <3>1, <4>1
    <3> QED
      BY <2>1, <2>4, <3>1, ReportsKept DEF SessionInv
\* What the head owes for its session.
  <2>7. /\ p.id \in {"CONNECT", "LOGIN"} /\ ~Told(a) => Queued("CLOSE", a, 0)'
        /\ p.id = "CLOSE" /\ Told(a) => Queued("CONNECT", a, 0)'
    <3>1. /\ p.id \in {"CONNECT", "LOGIN"} /\ ~Told(a) => Queued("CLOSE", a, 1)
          /\ p.id = "CLOSE" /\ Told(a) => Queued("CONNECT", a, 1)
      <4>1. /\ queue[1] \in {Pkt("CONNECT", a), Pkt("LOGIN", a)} /\ ~Told(a)
                 => Queued("CLOSE", a, 1)
            /\ queue[1] = Pkt("CLOSE", a) /\ Told(a)
                 => Queued("CONNECT", a, 1)
        BY <1>5, <2>1 DEF SessionInv, Reports
      <4> QED
        BY <1>5, <1>6, <4>1
    <3>2. 0 \in Nat /\ 0 + 1 = 1
      OBVIOUS
    <3> QED
      BY <1>4, <3>1, <3>2
  <2>8. /\ NotOlder(a) \/ Leaving(a) \/ Queued("CLOSE", a, 0)
        /\ connectedUser[a].age = NoTime /\ Told(a) => Queued("CONNECT", a, 0)
        /\ connectedUser[a].login /\ ~Told(a) => Queued("CLOSE", a, 0)
    BY <2>1 DEF SessionInv, Listed
  <2>9. openFor[a] \in Ages \cup {NoTime} /\ openFor[a] \in Int
    BY <1>6, TypeFacts DEF CheckInv
  <2>10. Listed(a)'
    <3>1. CASE p.id = "CONNECT"
      <4>1. connectedUser'[a].age # NoTime
        BY <1>6, <3>1, AgesFacts
      <4>2. openFor[a] # NoTime => NotOlder(a)'
        BY <1>1, <1>6, <2>9, <3>1, AgesFacts DEF NotOlder
      <4>3. openFor[a] = NoTime /\ ~Leaving(a) => ~Told(a)
        BY DEF Told
      <4>4. NotOlder(a)' \/ Leaving(a)' \/ Queued("CLOSE", a, 0)'
        BY <2>3, <2>7, <3>1, <4>2, <4>3
      <4> QED
        BY <2>4, <2>7, <3>1, <4>1, <4>4 DEF Listed
    <3>2. CASE p.id = "LOGIN"
      <4>1. p # Pkt("CLOSE", a) /\ p # Pkt("CONNECT", a)
        BY <3>2 DEF Pkt
      <4>2. NotOlder(a)' <=> NotOlder(a)
        BY <1>1, <1>6, <3>2 DEF NotOlder
      <4>3. NotOlder(a)' \/ Leaving(a)' \/ Queued("CLOSE", a, 0)'
        BY <1>4, <2>3, <2>8, <4>1, <4>2
      <4>4. connectedUser'[a].age = NoTime /\ Told(a)' => Queued("CONNECT", a, 0)'
        BY <1>4, <1>6, <2>4, <2>8, <3>2, <4>1
      <4>5. ~Told(a)' => Queued("CLOSE", a, 0)'
        BY <2>4, <2>7, <3>2
      <4> QED
        BY <4>3, <4>4, <4>5 DEF Listed
    <3>3. CASE p.id = "CLOSE"
      <4>1. connectedUser'[a].age = NoTime /\ connectedUser'[a].login = FALSE
        BY <1>6, <3>3 DEF NotConnected
      <4>2. NotOlder(a)'
        BY <1>1, <2>9, <4>1, AgesFacts DEF NotOlder
      <4> QED
        BY <2>4, <2>7, <3>3, <4>1, <4>2 DEF Listed
    <3>4. CASE p.id = "NONE"
      <4>1. p # Pkt("CLOSE", a) /\ p # Pkt("CONNECT", a)
        BY <3>4 DEF Pkt
      <4>2. NotOlder(a)' <=> NotOlder(a)
        BY <1>1, <1>6, <3>4 DEF NotOlder
      <4> QED
        BY <1>4, <1>6, <2>3, <2>4, <2>8, <3>4, <4>1, <4>2 DEF Listed
    <3> QED
      BY <1>6, <3>1, <3>2, <3>3, <3>4
  <2> QED
    BY <2>5, <2>6, <2>10 DEF SessionInv
<1> QED
  BY <1>7, <1>8, <1>9, <1>10 DEF CheckInv, AllButAstray

LEMMA SecondKeeps ==
  ASSUME CheckInv, Second
  PROVE  CheckInv'
<1>1. /\ due' = TRUE /\ UNCHANGED <<cursor, overdue, queue, tags, at, slot, astray>>
      /\ connectedUser' = [s \in Sessions |->
             [connectedUser[s] EXCEPT !.age = Older(connectedUser[s].age)]]
      /\ openFor' = [s \in Sessions |-> Older(openFor[s])]
  BY DEF Second, threadVars
<1>2. ASSUME NEW s \in Sessions
      PROVE  /\ connectedUser'[s] \in UserRecord
             /\ connectedUser'[s].age = Older(connectedUser[s].age)
             /\ connectedUser'[s].login = connectedUser[s].login
             /\ openFor'[s] = Older(openFor[s])
  <2>1. connectedUser'[s] =
            [connectedUser[s] EXCEPT !.age = Older(connectedUser[s].age)]
    BY <1>1
  <2>2. connectedUser[s] \in UserRecord
    BY TypeFacts DEF CheckInv
  <2>3. Older(connectedUser[s].age) \in Ages \cup {NoTime}
    BY <2>2, OlderFacts DEF UserRecord
  <2> QED
    BY <1>1, <2>1, <2>2, <2>3 DEF UserRecord
<1>3. ASSUME NEW s \in Sessions
      PROVE  /\ openFor'[s] \in Ages \cup {NoTime}
             /\ openFor'[s] = NoTime <=> openFor[s] = NoTime
             /\ connectedUser'[s].age = NoTime <=> connectedUser[s].age = NoTime
             /\ NotOlder(s) => NotOlder(s)'
             /\ connectedUser[s].age >= Timeout => connectedUser'[s].age >= Timeout
  <2>1. openFor[s] \in Ages \cup {NoTime} /\ connectedUser[s].age \in Ages \cup {NoTime}
    BY TypeFacts DEF CheckInv
  <2>2. NotOlder(s) => NotOlder(s)'
    BY <1>2, <2>1, OlderFacts DEF NotOlder
  <2>3. connectedUser[s].age >= Timeout => Older(connectedUser[s].age) >= Timeout
    BY <2>1 DEF Older, Ages, NoTime
  <2> QED
    BY <1>2, <2>1, <2>2, <2>3, OlderFacts
<1>4. LoginCheckTypeOK' /\ CursorInv'
  <2>1. connectedUser' \in [Sessions -> UserRecord]
    BY <1>1, <1>2
  <2>2. openFor' \in [Sessions -> Ages \cup {NoTime}]
    BY <1>1, <1>3
  <2> QED
    BY <1>1, <2>1, <2>2 DEF CheckInv, LoginCheckTypeOK, CursorInv, UserRecord
<1>5. OverdueInv'
  <2>1. \A s \in overdue : s \in Sessions
    BY DEF CheckInv, LoginCheckTypeOK
  <2>2. slot["logic"] \in Sessions
    BY TypeFacts, ThreadFacts DEF CheckInv
  <2> QED
    BY <1>1, <1>3, <2>1, <2>2 DEF CheckInv, OverdueInv
<1>6. ASSUME NEW s \in Sessions \ astray
      PROVE  SessionInv(s)'
  <2>1. \A t : IsAt(t, s)' <=> IsAt(t, s)
    BY <1>1 DEF IsAt, Busy
  <2>2. Leaving(s)' <=> Leaving(s)
    BY <1>1 DEF Leaving
  <2>3. Told(s)' <=> Told(s)
    BY <1>1, <1>3, <2>2 DEF Told
  <2>4. \A id, i : Queued(id, s, i) <=> Queued(id, s, i)'
    BY <1>1 DEF Queued
  <2>5. SessionInv(s)
    BY DEF CheckInv, AllButAstray
  <2>6. Places(s)'
    BY <1>1, <1>3, <2>1, <2>5 DEF SessionInv, Places
  <2>7. Reports(s)'
    BY <1>1, <2>3, <2>4, <2>5 DEF SessionInv, Reports
  <2>8. Listed(s)'
    BY <1>2, <1>3, <2>2, <2>3, <2>4, <2>5 DEF SessionInv, Listed
  <2> QED
    BY <2>6, <2>7, <2>8 DEF SessionInv
<1> QED
  BY <1>1, <1>4, <1>5, <1>6 DEF CheckInv, AllButAstray

LEMMA NothingMoves ==
  ASSUME CheckInv, Elapse \/ UNCHANGED vars
  PROVE  CheckInv'
<1>1. /\ UNCHANGED <<connectedUser, cursor, overdue, queue, openFor, tags, at, slot, astray>>
      /\ due' \in BOOLEAN
  BY DEF Elapse, vars, listVars, threadVars, CheckInv, LoginCheckTypeOK
<1>2. LoginCheckTypeOK'
  BY <1>1 DEF CheckInv, LoginCheckTypeOK
<1>3. CursorInv' /\ OverdueInv'
  BY <1>1, CursorKept, OverdueKept DEF CheckInv
<1>4. \A s, t : IsAt(t, s)' <=> IsAt(t, s)
  BY <1>1 DEF IsAt, Busy
<1>5. AllButAstray'
  BY <1>1, <1>4, Untouched DEF CheckInv, AllButAstray
<1> QED
  BY <1>2, <1>3, <1>5 DEF CheckInv

LEMMA CheckInvNext ==
  ASSUME CheckInv, [Next]_vars
  PROVE  CheckInv'
<1>1. ASSUME NEW s \in Sessions, Accept(s) \/ Receive(s) \/ NetClose(s)
      PROVE  CheckInv'
  BY <1>1, AcceptKeeps, ReceiveKeeps, NetCloseKeeps
<1>2. ASSUME NEW id \in {"CONNECT", "LOGIN", "CLOSE", "NONE"}, ReceivePacket(id)
      PROVE  CheckInv'
  BY <1>2, ReceivePacketKeeps
<1>3. CASE ConnectedSession \/ AnnounceConnect \/ EndReceive
  BY <1>3, ConnectedSessionKeeps, AnnounceConnectKeeps, EndReceiveKeeps
<1>4. ASSUME NEW t \in Threads, CloseSession(t)
      PROVE  CheckInv'
  BY <1>4, ClearKeeps, ReleaseTagKeeps, ReportCloseKeeps DEF CloseSession
<1>5. CASE Process \/ QueueEmpty \/ StateCheck \/ CheckDone
  BY <1>5, ProcessKeeps, IdleKeeps, StateCheckKeeps
<1>6. ASSUME NEW s \in Sessions, ForcingClose(s)
      PROVE  CheckInv'
  BY <1>6, ForcingCloseKeeps
<1>7. CASE Second
  BY <1>7, SecondKeeps
<1>8. CASE Elapse \/ UNCHANGED vars
  BY <1>8, NothingMoves
<1> QED
  BY <1>1, <1>2, <1>3, <1>4, <1>5, <1>6, <1>7, <1>8, ThreadFacts
     DEF Next, Clients, Network, Logic

LEMMA CheckInvHolds == Spec => []CheckInv
<1>1. Init => CheckInv
  BY CheckInvInit
<1>2. CheckInv /\ [Next]_vars => CheckInv'
  BY CheckInvNext
<1> QED
  BY <1>1, <1>2, PTL DEF Spec
-----------------------------------------------------------------------------
(* For every number of sessions and batch size: the check never closes a    *)
(* session of every (Batch + 1)-th index.                                   *)
THEOREM SkippedStay == Spec => SkippedNeverForced
<1>1. CheckInv /\ [Next]_vars =>
          [Clear("logic") => \A s \in Skipped : openFor'[s] = openFor[s]]_vars
  <2> SUFFICES ASSUME CheckInv, Clear("logic"), NEW s \in Skipped
               PROVE  openFor'[s] = openFor[s]
    OBVIOUS
  <2>1. at["logic"] = "clear" /\ openFor' = [openFor EXCEPT ![slot["logic"]] = NoTime]
    BY DEF Clear
  <2>2. slot["logic"] # s
    BY <2>1 DEF CheckInv, OverdueInv, CloseSteps
  <2>3. s \in Sessions /\ openFor \in [Sessions -> Ages \cup {NoTime}]
    BY DEF CheckInv, LoginCheckTypeOK, Skipped
  <2> QED
    BY <2>1, <2>2, <2>3
<1> QED
  BY <1>1, CheckInvHolds, PTL DEF Spec, SkippedNeverForced

(* When every report is handled and no thread is at a session that has not  *)
(* gone astray, the list knows it as connected exactly if the network has   *)
(* it open, not as older than it is, and as logged in only then.            *)
THEOREM ListCatchesUp == Spec => []ListFollowsNetwork
<1>1. CheckInv => ListFollowsNetwork
  <2> SUFFICES ASSUME CheckInv, queue = <<>>, NEW s \in Sessions \ astray,
                      \A t \in Threads : ~IsAt(t, s)
               PROVE  /\ connectedUser[s].age = NoTime <=> openFor[s] = NoTime
                      /\ connectedUser[s].age <= openFor[s]
                      /\ connectedUser[s].login => openFor[s] # NoTime
    BY DEF ListFollowsNetwork
  <2>1. \A id : ~Queued(id, s, 0)
    BY DEF Queued
  <2>2. ~Leaving(s)
    BY DEF Leaving, IsAt, Busy
  <2>3. Told(s) <=> openFor[s] # NoTime
    BY <2>2, ThreadFacts DEF Told, IsAt, Busy
  <2>4. /\ connectedUser[s].age <= openFor[s]
        /\ connectedUser[s].age = NoTime => openFor[s] = NoTime
        /\ connectedUser[s].login => openFor[s] # NoTime
    BY <2>1, <2>2, <2>3 DEF CheckInv, AllButAstray, SessionInv, Listed, NotOlder
  <2>5. openFor[s] = NoTime => connectedUser[s].age = NoTime
    BY <2>4, TypeFacts, AgesFacts DEF CheckInv
  <2> QED
    BY <2>4, <2>5
<1> QED
  BY <1>1, CheckInvHolds, PTL

(* The check closes a connection before its time only on a slot whose older *)
(* CLOSE still waits in the queue, or which has gone astray.                *)
THEOREM EarlyOnlyIfReused == Spec => ClosedEarlyOnlyIfReused
<1>1. CheckInv /\ [Next]_vars =>
          [\A s \in Sessions \ astray :
             Clear("logic") /\ slot["logic"] = s /\ openFor[s] \in 0 .. Timeout - 1 =>
                 \E i \in DOMAIN queue :
                     queue[i] = [id |-> "CLOSE", session |-> s]]_vars
  <2> SUFFICES ASSUME CheckInv, NEW s \in Sessions \ astray, Clear("logic"),
                      slot["logic"] = s, openFor[s] \in 0 .. Timeout - 1
               PROVE  \E i \in DOMAIN queue :
                          queue[i] = [id |-> "CLOSE", session |-> s]
    OBVIOUS
  <2>1. at["logic"] = "clear" /\ connectedUser[s].age >= Timeout
    BY DEF Clear, CheckInv, OverdueInv
  <2>2. ~NotOlder(s)
    BY <2>1, TypeFacts DEF CheckInv, NotOlder
  <2>3. SessionInv(s)
    BY DEF CheckInv, AllButAstray
  <2>4. ~Leaving(s)
    <3>1. IsAt("logic", s)
      BY <2>1 DEF IsAt, Busy
    <3>2. ~IsAt("net", s)
      BY <2>3, <3>1 DEF SessionInv, Places
    <3> QED
      BY <2>1, <3>2, ThreadFacts DEF Leaving, IsAt, Busy
  <2>5. Queued("CLOSE", s, 0)
    BY <2>2, <2>3, <2>4 DEF SessionInv, Listed
  <2> QED
    BY <2>5, TypeFacts DEF CheckInv, Queued, Pkt
<1> QED
  BY <1>1, CheckInvHolds, PTL DEF Spec, ClosedEarlyOnlyIfReused
=============================================================================
