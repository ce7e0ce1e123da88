# A verification of ChattingServerProject

TLA+ modules of the chat server in `src/`, configurations that check them with
TLC, and proofs checked with TLAPS. Source lines are those of the commit in
`src/`; file names without a directory are in `src/LogicLib`.

## Before anything else: the program as committed

`ClientSession::pRecvBuffer` and `pSendBuffer` (`NetworkLib/Define.h:54,58`) are
never allocated and `ClientSession::Index` (`Define.h:49`) is never assigned.
As committed, `recvSocket` gets no memory to receive into, and
`runCheckSelectClients` (`TcpNetwork.cpp:172`) takes every readable socket for
session 0: no client packet reaches a handler. `ServerConfig.ini` also sets
`IsLoginCheck = 0`. The modules model the code as it runs on sessions whose
index and buffers are set up (the pool is `protected`, so a derived class can do
that) and, where timeouts matter, with the check switched on. In `TcpNetwork` the
index is the constant `IndexAssigned`: with `FALSE` it is the code as committed,
where `TagsExact`, `PacketsExpected` and `ImplementsPacketOrder` are still proved;
`SocketsOwned`, `PacketsOfOwner` and `SessionsServed` hold with `TRUE` only.

What else the modules take for granted or stop at:

- A packet's id is the client's own (`TcpNetwork.cpp:446`), and the ids of the two
  internal packets are among those it can send: the modules have that, and 0. An
  id outside of `PacketFuncArray` (`PacketProcess.cpp:62`) is undefined behaviour,
  and not in the modules; an id inside it without a handler changes nothing.
- Once `recv` has written past the end of `pRecvBuffer` nothing is defined;
  `SessionBuffers` has the step that does it and stops there (`Overrun`).
- `recvSocket` is one step in `SessionBuffers`, and so are one turn of the loop
  of `recvBufferProcess`, its end, and `ClientSession::Clear`. A close by the
  other thread falls between them, not inside.
- A receive that would block (`TcpNetwork.cpp:404`) is left out: `select` has
  found the socket readable. Out-of-memory and a failing mutex are left out too.

## Inventory

Two threads: the *network* thread in `TcpNetwork::Run` (accept, receive, send,
close) and the *logic* thread in `ServerHost::Run` (all handlers). They share a
queue of packets under a mutex, and the sessions, without one.

| Component | State | Operations | Interacts with | What makes it correct |
|---|---|---|---|---|
| `UserManager`, `User` | pool of `User`, deque of free indices, maps by session and by ID; a user's state, lobby and room index | `AddUser`, `RemoveUser`, `GetUser` | called by the handlers; owns the objects that lobbies and rooms point to | the deque is exact; no object serves two sessions; the maps are kept with the pool |
| `Lobby`, `LobbyManager` | map of members, slots, map by ID, rooms | enter, leave, create/find a room, lists, notifications | sets the user's state; sends through the network | map, slots and user states agree; who is shown is what clients were told; lists are complete |
| `Room` | in use, members in order, its `Game` | create, enter, leave, master, notifications | handlers keep the user's indices beside it | members are exactly the users whose state says so; in use just while it has members; succession of the master |
| `Game` | state | set by `roomMasterGameStart` only | | ends with its room (it does not: `GameNeverEnds`) |
| `PacketProcess` | dispatch table | 2 internal packets, 14 requests | everything above | every handler keeps the redundant structures above in step, answers, and tells whom it must, in whatever order packets come |
| `ConnectedUserManager` | per session: connect time, login mark; cursor, last check | marks, `LoginCheck` | fed by the handlers, closes through `TcpNetwork::ForcingClose` from the logic thread | marks follow the network; the right sessions are closed, eventually and not early |
| `TcpNetwork` | sessions, FIFO of tags (`ObjectPool`), receive and send buffers, packet queue, fd set | accept, receive, frame, flush, close; `SendData`, `ForcingClose`, `GetPacketInfo` from the logic thread | two threads on the same sessions | one close per connection, tags unique, queue in order per session, data intact until handled, no byte lost or doubled, a slot left empty for its next connection |
| `ServerHost`, `Main` | `_isRun`, the owned components | `Init`, `Run`, `Stop`, release | starts and joins both threads | starts only after a good `Init`, stops when told, checks timeouts while busy |
| packets, errors, logging, `conmanip.h` | none | | | layouts and output only |

What is hard: a user's place is recorded in up to six structures, kept in step by
hand over 16 handlers and a disconnect in any state; indices that are not reset
when a user moves on; hash maps keyed by `const char*`, that is by address; the
order of state changes and notifications; paging over a list that changes; a
cursor that walks in batches; two threads over unlocked sessions; and packet
headers whose id and (signed) body size are whatever the client says.
`PROJECT.json` lists each such hazard at its line with the properties that cover
it. Three have none: the wait on a handle that nothing initialises
(`ServerHost.cpp:94`) and a packet id outside of the handlers' table
(`PacketProcess.cpp:62`), whose outcomes no property can tell, and the login keys
that are never erased (`UserManager.cpp:77`), which follows from that line alone.

## Modules

| Module | Models | Correspondence |
|---|---|---|
| `UserManager` | `UserManager.cpp`, `User.h` | one action per operation. IDs are looked up by the *address* of the string (`unordered_map<const char*, User*>`), so a key is `<<session, position in its receive buffer>>`; `RemoveUser` erases the address of a local copy |
| `Room` | `Room.cpp`, `Game.h` | operators on room records; the member vector is a sequence |
| `Lobby` | `Lobby.cpp`, `LobbyManager.cpp` | members, slots and rooms of every lobby; operators for who receives a notification |
| `ListPaging` | `SendRoomList`, `SendUserList` | the page, the refusal of a start index and `IsEnd` as operators |
| `PacketProcess` | all handlers | composes the modules above: one action per handler, including its answer (`reply`) and its notifications (`sent`, a set of addressed packets). `ConnectedUser` is kept as "connected" and "logged in" here |
| `RoomListing` | the listing protocol of `Packet.h:69-89` | a client that asks page after page, rooms changing in between |
| `LoginCheck` | `ConnectedUserManager.h`, the loop of `ServerHost::Run`, connections and queue of `TcpNetwork` | network actions, logic actions, time; `closeSession` by either thread in three steps, among which the other may go on |
| `Presence` | what clients take for granted | abstract: who is in which lobby and room, one user one step at a time, within the capacities. `PacketProcess` implements it (`Whereabouts`) |
| `TcpNetwork` | sessions, tag deque, sockets, queue | one action per access that the other thread could tell: `closeSession` alone has six, run by either thread |
| `ServerHost` | `ServerHost.cpp`, `Main.cpp` | composes `TcpNetwork` with the logic thread and with `main`: start, failed start, key, joins, release |
| `PacketOrder` | what the handlers rely on | abstract: CONNECT, packets, CLOSE, for each session. `ServerHost` implements it (`Order`) |
| `ReceiveBuffer` | `recvSocket`, `recvBufferProcess` | the byte stream in units; a place of the buffer holds the number of the unit that lies there, a queued packet its position; `start` has the first unit of each packet. The body size in a header is an integer, negative ones and ones above `MaxBody` included |
| `SendBuffer` | `SendData`, `flushSendBuff` | every read and write of `SendSize` and of the buffer is a step |
| `SessionBuffers` | both buffers of a session, its client, handlers that answer and notify | composes the two with both threads, with `closeSession` by either, until the slot is left |
| `UserManagerProofs`, `PacketProcessProofs`, `LobbyProofs`, `HandlerProofs`, `RoomListingProofs`, `LoginCheckProofs`, `ServerHostProofs`, `SessionBuffersProofs` | | the proofs |
| `MCUserManager`, `MCPacketProcess`, `MCSessionBuffers` | | values for TLC |

How they fit: `ServerHost` shows what the network's queue is (`PacketOrder`), and
which sessions it does not hold for: those the logic thread goes to close and
those whose client sends an internal packet itself. `PacketProcess` therefore
takes CONNECT, CLOSE and requests of any session in any order; the variable
`early` names the sessions whose requests were handled while they were marked
closed, and the properties about marks say what then still holds. `SessionBuffers`
looks into one session, whose packets the other modules take as they are.
`LoginCheck` has time and the batches of the timeout check, which `ServerHost`
replaces by "any connected session may be found over time".

Notes on the abstraction:

- Titles, messages and IDs carry no more than the properties tell apart; what a
  packet says is who it is about, or which room and how many are in it.
- An answer is `[to, pkt, err]`; `Answer` is the scheme all requests follow:
  error and nothing else, or the effect and `NONE`.
- A start index that `SendRoomList` refuses gives *no* response, as in the code.
- `sendToAllUser` picks recipients by the users' states at the time of the call,
  so the handlers of a room compute `shown` after the user has moved.
- `NotifyChat` leaves out the *user* whose index equals the sender's *session*
  index, as the code does.
- In `PacketProcess` an accepted `SendData` counts as delivered; what becomes of
  it is the subject of `SessionBuffers`.
- Changes of the `fd_set` are atomic. `ready` starts as `readfds`, and `Receive`
  decides what recv finds: data, or an end of the connection; `FramePacket` and
  `FrameEnds` are the turns of `recvBufferProcess`, as many as there are.
  Whether a socket is writable is the system's choice (`NotWritable`).
- `recvSocket`'s `memcpy` may overlap; it is taken to copy upwards, as `memmove`
  would. A header read where no packet starts, inside of a packet or outside of what
  was received, says anything (`Announced`).
- After a failed `Init` the error is logged through `%s` with a number
  (`InitFails`): the process is ended by that, or goes on.
- History variables (`early`, `astray`, `forced`, `forged`, `overlapped`,
  `collided`, `clearedAt`, `late`, `kept`, `accepted`, ...) are read by properties
  only, and by the bounds.
- Operators that no action uses (`KeepSlot`, `ReleaseTwice`, ...) stand directly
  above the operator they vary. Each is a plausible slip; `PROJECT.json`
  ("mutants") says which property notices it when it takes the operator's place.

## Runs

| Run | Question | Bounds, and why they are enough |
|---|---|---|
| `user_manager` | Is the pool exact, and each session's user its own? | 3 objects, 4 sessions (a full pool with a session waiting), 2 IDs, 2 login positions: repeated logins and re-used positions happen. IDs are interchangeable, hence the symmetry. 69 583 states |
| `packet_process` | Rooms, masters, games and notifications with several members | 3 users, one lobby, one room for all three, so the order of members and a departure from the middle matter. CONNECT and CLOSE come at any time. 132 168 states |
| `packet_process_lobbies` | Do the redundant structures ever disagree? | 2 users, 2 lobbies × 2 rooms for one: full rooms, stale indices into another lobby, second logins from a second buffer position, CONNECT and CLOSE at any time. 38 295 states |
| `room_listing` | What does a client learn, and does it finish? | 7 rooms, pages of 2: several full pages, partial ones, and a full page just before the last room. 103 631 states |
| `login_check` | Does the timeout see and close what it should? | 2 sessions, batches of 1: the cursor passes its batch and wraps, and one session is skipped, as 20 of 2064 are with batches of 100; timeout 1; a queue of 2 lets a slot be re-used while its CLOSE waits; one session may go astray (both threads close it at once, or its client sends a CONNECT or a CLOSE). 546 611 states; three sessions are out of reach since both threads' closes are taken apart |
| `server_host` | What do two threads do to the same sessions? | 2 sessions, 2 handles, 3 connections: a slot and a handle are both re-used; one session forced to close or with a client that sends a CONNECT or a CLOSE; 2 waiting packets, one of them a client's. 1 128 827 states, three to four minutes |
| `session_buffers` | What becomes of a session's bytes? | 2 requests with headers of 2 units and bodies of 1 (the limit), 2 (too big), -2 (the loop stays where it is) and -3 (it goes back), so that recv cuts headers and bodies at every place and leaves packets over; a receive buffer of 4, the least that holds what a round may leave over and add, so that a body that is too big runs past it; a send buffer of 3 for responses of 2: partial sends, a full buffer, appends that do not fit; one notification; 2 packets framed. 1 626 860 states |

Four more runs each show one statement of a comment violated (see *Findings*).

The view `ServerView` leaves `reply` and `sent` out of the fingerprint: no guard
reads them, and the properties that mention them are action properties, checked
on every step.

`MaxQueue` and `Timeout` bound `LoginCheck`; `Ages` counts every age from the
timeout on as one, since the code only compares `>= 180`. `MaxConnections`,
`MaxVoid`, `MaxQueue` and `MaxPackets` bound `TcpNetwork` (the last two only
clients, never a close: the code's queue has no limit), `MaxRequests`,
`MaxNotifications` and `MaxFramed` (packets queued) bound `SessionBuffers`, and
`MaxAstray` bounds `LoginCheck` beside the above. Nothing else is capped.

All runs but `session_buffers` check for deadlock. A session that is closed, and
one whose receive buffer has been overrun, does not go on; that run says
`CHECK_DEADLOCK FALSE`. A process that has ended stutters (`Ended`); in all
other runs the system cannot stop. (`RoomListing` goes on with rooms that come and
go after the listing ended.)

What the passing runs show beyond the types:

- `FreeListExact`, `SessionBinding`, `SessionKeepsUser`: no order of logins and
  closes loses or doubles a pool index, though a second login does allocate a
  second user. It finds no session entry: `insert` keeps the first. That user
  stays allocated for ever, which the model shows and the code does.
- `LobbyIndexesAgree`, `RoomMembership`, `MembersOnline`, `LoginMarkAgrees`: the
  structures agree in every reachable state, in spite of stale indices, because
  `Room::LeaveUser` does nothing for who is not a member. They do so even where a
  client sends CONNECT and CLOSE itself; the connect mark is then missing from a
  session whose requests are handled all the same (`early`).
- `NoDefensiveError`: 14 error branches of the handlers are dead code.
- `RoomChangesAnnounced`, `PresenceAnnounced`: clients are told of every change,
  except for a leave by disconnect (a finding).
- `MasterSuccession`, `GameNeverEnds`, `ChatStaysInPlace`: who becomes master;
  a game once started is never reset, so the room can never start another;
  a chat message stays in its lobby or room although the wrong user is left out.
- `KeptRoomsListed`, `NoRoomTwice`, `ListingStops`, `OnlyLastRefused`: paging is
  right under concurrent change but for a refusal at the last room (a finding).
- `ImplementsPresence`: behind the maps, slots and vectors is one simple registry.
- `ListFollowsNetwork`, `TimeOverIsClosed`, `SkippedNeverForced`: the list catches
  up with the network, also after a forced close, unless the network thread was
  at the same session meanwhile: then a CONNECT may be queued before the CLOSE
  of the older connection, which clears the time of an open session. Sessions the
  check looks at are closed in time; every 101st is never looked at.
- `ClosedEarlyOnlyIfReused`: the check acts on a slot by the time of its last
  known connection. That hits a younger one while the CLOSE of the older still
  waits in the queue, and otherwise only in a session that went astray.
- `TagsExact`: two threads that close one session at the same time can release
  its tag twice, because the test of `IsConnected` and the clearing are apart. The
  property shows that nothing else does: tags are exact for every session that
  the threads never went to close at once.
- `SocketsOwned` has the stronger premise `overlapped = {}`: `ForcingClose` reads
  the handle before the test. If the network thread closes the session meanwhile
  and the system gives the handle to another connection, it is *that* one's socket
  which is closed, whichever slot it has. Until the two threads have met once,
  every session owns its socket.
- `ImplementsPacketOrder`, `PacketsExpected`: although the tag is released before
  the CLOSE is queued, no CONNECT overtakes it as long as the network thread does
  both. A forced close is the other thread, and voids the promise for its slot; so
  does a client that sends a CONNECT or a CLOSE itself.
- `PacketsOfOwner`: `SendData` tests nothing. A packet waits either while its
  connection has the session, or with a CLOSE of the session behind it (or about
  to be): until that CLOSE is handled an answer may go to a slot that is free or
  another's, and no later one does. What it leaves in a free slot is the
  subject of `SlotLeftEmpty`.
- `SessionsServed`, `StopHeeded`: every session is read again and again; a key ends
  the process, with `std::terminate` in a destructor if the network never started.
  Both have the premise `FramingEnds`: a header with a negative body size can keep
  the network thread in `recvBufferProcess` for ever.
- `SendSizeInRange`: no interleaving of the unlocked accesses writes outside the
  send buffer, but for one: `ForcingClose` may set `SendSize` to 0 in the middle
  of `flushSendBuff`, which then moves and subtracts what is not there
  (`clearedAt`).
- `SlotLeftEmpty`: `connectedSession` resets no buffer, so a slot's next connection
  finds what the last one left. That is nothing, unless an answer was written
  after the close (`late`) or the logic thread cleared the session while the
  network thread was receiving from it or flushing to it; in those cases
  TLC does find a slot that is left filled.
- `StreamIntact`: bytes are lost or doubled only by an append that runs into
  the part of a flush after its send.
- `ReceiveFits`, `FramingExact`, `IntactForLockStep`: the receive buffer has room
  for all that `recv` is asked for as long as no header announces a body above the
  limit, which the code looks at only after the whole body has come; framing is
  right for every cut of a stream without negative sizes; and a packet that waits
  in the queue stays intact if its client waits for answers. (A client that sends
  ahead has its packets overwritten.)
- `LockStepNeverDropped`, `AnswersArrive`: a full send buffer takes an answer from
  such a client only after notifications; what was accepted arrives.

### Fairness

- `RoomListing`: weak fairness of the server's step. The logic thread takes every
  packet of the queue sooner or later; rooms may change for ever.
- `LoginCheck`: weak fairness of both threads' own steps and of the 60 ms clock.
  The clients, and so the seconds, need not progress. That the queue is found
  empty again and again is *not* assumed: it is the premise `[]<>(at["logic"] =
  "check")` of `TimeOverIsClosed`, because steady traffic can starve `StateCheck`
  (`ServerHost.cpp:78-98`).
- `ServerHost`: weak fairness of each thread and of main's own steps (the system
  schedules them), none of the key or the clients. `StopHeeded` has the same premise
  as above: that the queue is found empty, or ended, often enough. That framing
  ends is a premise too, `FramingEnds`, and not assumed.
- `SessionBuffers`: weak fairness of both threads, and strong fairness of `Send`:
  the client reads, so its socket is writable again and again.

## Findings

| Run | The code | What it contradicts |
|---|---|---|
| `duplicate_ids` | looks IDs up by address, so two sessions can log in with one ID | `PacketProcessLogin.cpp:19`, duplicate IDs are an error |
| `lobby_leave_announced` | a disconnect from the lobby is not announced if the user was ever in a room: the room index is stale | `Packet.h:120`, leaving is told to the users in the lobby |
| `room_listing_refused` | refuses a listing that continues at the last room, without an answer | `Packet.h:72`, continue at the last number + 1 |
| `logged_in_not_closed` | closes sessions that *have* logged in and never those that have not | `Define.h:20` |

## Proofs

TLAPS proves, for every value of the constants that satisfies the modules'
named assumptions:

- `UserManagerProofs`: `TypeCorrect`, `PoolCorrect`, `SessionsBound`
  and `UsersStay`. The inductive invariant is `UserManagerInv`, the conjunction of
  type, `FreeListExact` and `SessionBinding`. The last two need each other: that
  `RemoveUser` returns an index that is not in the deque follows from the binding
  of the session, and that a login does not take a bound user from the deque.
- `PacketProcessProofs`: `RoomsCorrect` (`Spec => []RoomMembership`) and
  `UsersCorrect` for the whole server, with all 16 handlers. The inductive
  invariant `RoomInv` adds to the user manager's invariant the types of the
  lobbies, rooms and connect marks, and `UnconfirmedIdle`: a `User` not in use has
  state NONE, so the object a login takes from the pool is in no room. Three
  lemmas carry the argument: `JoinRoom`, `QuitRoom` (over `EraseFacts`, what
  `vector::erase` does to a sequence without repetition) and `OutsideRooms`. In a
  disconnect the stored indices may be stale; `QuitRoom` covers it because a user
  that *is* in a room has that room's indices, and for anyone else the leave does
  nothing. `FirstFacts` gets the least unused room from the well-foundedness of `<`.
- `LobbyProofs`: `LobbiesCorrect`, `MarksCorrect`, `NobodyLeftBehind` and
  `TypesAndCapacities`. The invariant `LobbyInv` adds four facts to `RoomInv`.
  `PlaceInv`: map, slots and user states of each lobby agree, as quantifiers
  instead of the counting of `LobbyIndexesAgree`. `MembersBound`: who is in a
  lobby is the user its session's entry leads to; without it a disconnect would
  remove one user from the map and leave another there. A second login makes a
  `User` that no entry leads to, and `MembersBound` says it never enters anything.
  `LoginMarkAgrees`: a member's session is marked as logged in, and by `EarlyInv`
  marked connected, unless its requests came while it was not. No order of
  CONNECT, requests and CLOSE is assumed. The room capacity: the check is an
  equality, which is enough only because the size never passes it.
- `HandlerProofs`: `MasterSucceeds` and `GamesGoOn` by what a step can do to one
  room (`RoomStep`), and `ChecksNeverFire`, each defensive error against the part
  of `LobbyInv` that excludes it. That a lobby below its capacity has an empty
  slot is a pigeonhole argument (`SlotForEveryPlace`). `PresenceImplemented`
  (`Spec => ImplementsPresence`): `Spot` writes the refinement mapping as a
  function of one user's state; `LobbyInv` makes the two equal, and then every
  handler moves one `Spot`, or none. `RoomChangesTold`, `PresenceTold` and
  `ChatStays` compare, handler by handler, what is sent with whom it must reach;
  they need `LobbyInv` for the step from "in the map of the lobby" (whom the code
  sends to) to "in the lobby by the user's own state" (who the properties speak
  of).
- `RoomListingProofs`: `ListingComplete`, `RefusedAtLastOnly` and `EachRoomOnce`,
  for lists of any length and pages of any size. `PageFacts` says of a page that
  it has no gap, and that it has everything from its start on unless it is full;
  the invariant says that what is still to be listed lies from `start` on.
- `LoginCheckProofs`: `SkippedStay`, by the arithmetic of the cursor (`CursorInv`:
  it stands behind a batch, on a multiple of `Batch + 1`, less one), and
  `ListCatchesUp` and `EarlyOnlyIfReused`, over all interleavings of the two
  threads' closes. For every session that has not gone astray, `SessionInv` says
  that a thread is at it alone and finds it as its step needs it (`Places`), and
  that wherever a waiting report or a list entry disagrees with the network, a
  later report that corrects it is in the queue or about to be (`Reports`,
  `Listed`). `OverdueInv` says of the sessions the check has still to close that
  they are time-over and none is skipped.
- `ServerHostProofs`: `ServerHostTypes`, `TagsStayExact`, `SocketsStayOwned`,
  `PacketsComeExpected`, `PacketsStayOwned` and `PacketOrderImplemented`, over all
  interleavings of both threads. What the threads may rely on is `HoldInv`:
  connections have numbers of their own (`SeqInv`); of a session that is not in
  `overlapped` only one thread is in `closeSession`, and it is still connected
  until that thread clears it (`CloseInv`); then its tag is held by a connection
  or by a thread, or lies in the deque once (`TagInv`). `FdInv` and `SocketInv`
  add that the handle a thread has read is still the session's, and the connection
  behind it the session's own; this is where `IndexAssigned` is needed, and in
  what rests on it. For the queue, `Alternates` says how the packets of one
  session follow one another between any two positions, outside of `Void`, the
  sessions that were forced or whose client sent a CONNECT or a CLOSE; and
  `OwnerInv` that an entry of an older connection still has its CLOSE behind it.
  Two classifications of the steps keep the proofs short: every action is first
  shown to be of one `Kind` as regards the sessions, or of one kind as regards the
  queue, and each invariant is then proved kind by kind.
- `SessionBuffersProofs`: `SendSizeStays`, by `SizeInv` (what each thread has read
  of `SendSize` bounds it on the right side), which `SizesHold` carries through
  the closes up to a clear in the middle of a flush; `SlotStaysEmpty`, by
  `SlotInv`: from the close on both buffers are empty wherever the network thread
  goes; and `StreamStaysIntact`, by `Stream`, which says for every step of a flush
  where the unsent units lie. For the receive side, `OrderlyInv` holds while the
  session is open and no size is negative. Its `ReceiveInv`: `recvBufferProcess`
  always stands at the start of the packet it will queue next (`Reading`), the
  units not yet framed lie one after another from its place on (`Lies`), and what
  it leaves over is less than that packet. With it `HeaderAt` finds the right
  header (`HeaderFacts`), hence `FramingStaysExact`, and, with the assumption on
  `RecvBufferSize`, `ReceiveAlwaysFits`. `LockStepStaysIntact` follows by
  `LockInv`: as long as a packet of such a client is pending, recv has nothing to
  take (`NothingPending`), so nothing in the buffer moves. `LockStepStaysServed`
  ties both sides together by `Quiet`: when a packet of such a client is queued,
  the send buffer is empty, so the answer finds room; a flush beside the append
  has nothing to send. `start` is a variable and not a sum over `body`, because
  the induction over such a sum is out of the prover's reach.

Each inductive invariant was checked by TLC on the instance of the run before it
was proved.

Only model-checked: the liveness properties `ListingStops`, `TimeOverIsClosed`,
`SessionsServed`, `StopHeeded` and `AnswersArrive`, since liveness under fairness
and ENABLED are beyond the prover. Every invariant, action property and refinement
that a passing run checks is also proved. The proofs cover the modules, not their
relation to C++. `SocketsStayOwned` and `PacketsStayOwned` assume that sessions
know their index, which as committed they do not; the other theorems of
`ServerHost` hold either way.

## Not modelled, and the plan

Not modelled because nothing depends on it: `Room::Update`, `Game::Clear`,
`Game::CheckSelectTime` and `TcpNetwork::RegistEventHandle` (called by nobody),
`conmanip.h`, logging, packet layouts and error numbers, `loadConfig` (its values
are the constants). The `Game` is therefore a state that one handler sets; no code
ends or decides a game. Which socket call of `TcpNetwork::Init` fails makes no
difference to what follows, and is left open.

Left for later, in this order:

1. An abstract specification of `SessionBuffers`, a channel of packets and a channel
   of bytes, with the refinement proved for a session without collisions.
2. Theorems about the operators of `ListPaging` and `Lobby` on their own, for use
   by a model of a client.
3. The safety part of the liveness arguments, for instance that the cursor of the
   timeout check comes back to every session it does not skip.
