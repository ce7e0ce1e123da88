--------------------------- MODULE HandlerProofs ---------------------------
(***************************************************************************)
(* Proofs about single steps of PacketProcess: what a handler may do to a  *)
(* room, and that no handler ever meets a contradiction in the state; and  *)
(* that every handler takes a step of Presence, or none: the maps of the   *)
(* lobbies and the vectors of the rooms, which the handlers change         *)
(* separately, say together where each user is.                            *)
(***************************************************************************)
EXTENDS LobbyProofs

\* What a step does to one room.
RoomStep(old, new) ==
    \/ new = old
    \/ \E u \in Users : new.users = Append(old.users, u) /\ new.game = old.game
    \/ \E u \in Users : new = LeaveRoom(old, u)
    \/ old.game = "NONE" /\ new.users = old.users

LEMMA OnlyOneRoom ==
  ASSUME room \in [Lobbies -> [Rooms -> RoomRecord]],
         NEW l \in Lobbies, NEW r \in Rooms, NEW new,
         room' = [room EXCEPT ![l][r] = new], RoomStep(room[l][r], new)
  PROVE  \A l2 \in Lobbies, r2 \in Rooms :
             RoomStep(room[l2][r2], room'[l2][r2])
<1>1. /\ room'[l][r] = new
      /\ \A l2 \in Lobbies, r2 \in Rooms :
             <<l2, r2>> # <<l, r>> => room'[l2][r2] = room[l2][r2]
  OBVIOUS
<1> SUFFICES ASSUME NEW l2 \in Lobbies, NEW r2 \in Rooms
             PROVE  RoomStep(room[l2][r2], room'[l2][r2])
  OBVIOUS
<1>2. CASE l2 = l /\ r2 = r
  BY <1>1, <1>2
<1>3. CASE ~(l2 = l /\ r2 = r)
  BY <1>1, <1>3 DEF RoomStep
<1> QED
  BY <1>2, <1>3

LEMMA RoomSteps ==
  ASSUME LobbyInv, [Next]_vars
  PROVE  \A l \in Lobbies, r \in Rooms : RoomStep(room[l][r], room'[l][r])
<1>1. CASE room' = room
  BY <1>1 DEF RoomStep
<1>2. room \in [Lobbies -> [Rooms -> RoomRecord]]
  BY DEF LobbyInv, RoomInv, StateTypes
<1>3. CASE \E s \in Sessions : Effective(s)
  <2>1. PICK s \in Sessions : Effective(s)
    BY <1>3
  <2> DEFINE u == GetUser(s)
             l == user[u].lobby
             r == user[u].room
  <2>2. CASE CloseSession(s)
    <3>1. /\ u = NoUser => UNCHANGED room
          /\ u # NoUser =>
                 /\ u \in Users
                 /\ IF l \in Lobbies THEN CloseInLobby(u, l) ELSE UNCHANGED room
      BY <2>2, CloseEffect DEF LobbyInv
    <3> HIDE DEF u, l
    <3>2. CASE u # NoUser /\ l \in Lobbies /\ GetRoom(user[u].room) # NoRoom
      <4> DEFINE rIn == GetRoom(user[u].room)
      <4>1. rIn \in Rooms
        BY <3>2 DEF GetRoom
      <4>2. room' = [room EXCEPT ![l][rIn] = LeaveRoom(room[l][rIn], u)]
        BY <3>1, <3>2 DEF CloseInLobby
      <4> HIDE DEF rIn
      <4>3. RoomStep(room[l][rIn], LeaveRoom(room[l][rIn], u))
        BY <3>1, <3>2 DEF RoomStep
      <4> QED
        BY <1>2, <3>2, <4>1, <4>2, <4>3, OnlyOneRoom
    <3> QED
      BY <1>1, <3>1, <3>2 DEF CloseInLobby
  <2>3. CASE \E create \in BOOLEAN, n \in Int : RoomEnter(s, create, n)
    <3>1. PICK create \in BOOLEAN, n \in Int : RoomEnter(s, create, n)
      BY <2>3
    <3>2. CASE RoomEnterError(s, create, n) # "NONE"
      BY <1>1, <3>1, <3>2 DEF RoomEnter, Answer, serverVars
    <3>3. CASE RoomEnterError(s, create, n) = "NONE"
      <4>1. PICK rIn \in Rooms, users \in Seq(Users), rm \in RoomRecord :
               /\ u \in Users /\ l \in Lobbies
               /\ user[u].state = "LOBBY" /\ user'[u].state = "ROOM"
               /\ user'[u].lobby = l /\ user'[u].room = rIn
               /\ user'[u].session = user[u].session
               /\ \A v \in Users : v # u => user'[v] = user[v]
               /\ users = room[l][rIn].users
               /\ Len(users) # MaxRoomUserCount
               /\ rm.users = Append(users, u)
               /\ rm.game = room[l][rIn].game
               /\ room' = [room EXCEPT ![l][rIn] = rm]
               /\ UNCHANGED <<userSessionDic, lobbyUsers, lobbySlots,
                              connectedUser>>
        BY <3>1, <3>3, RoomEnterEffect DEF LobbyInv
      <4> HIDE DEF u, l
      <4>2. RoomStep(room[l][rIn], rm)
        BY <4>1 DEF RoomStep
      <4> QED
        BY <1>2, <4>1, <4>2, OnlyOneRoom
    <3> QED
      BY <3>2, <3>3
  <2>4. CASE RoomLeave(s)
    <3>1. CASE RoomLeaveError(s) # "NONE"
      BY <1>1, <2>4, <3>1 DEF RoomLeave, Answer, serverVars
    <3>2. CASE RoomLeaveError(s) = "NONE"
      <4>1. /\ u \in Users /\ l \in Lobbies /\ r \in Rooms
            /\ room' = [room EXCEPT ![l][r] = LeaveRoom(room[l][r], u)]
        BY <2>4, <3>2, RoomLeaveEffect DEF LobbyInv
      <4> HIDE DEF u, l, r
      <4>2. RoomStep(room[l][r], LeaveRoom(room[l][r], u))
        BY <4>1 DEF RoomStep
      <4> QED
        BY <1>2, <4>1, <4>2, OnlyOneRoom
    <3> QED
      BY <3>1, <3>2
  <2>5. CASE RoomMasterGameStart(s)
    <3>1. CASE MasterGameStartError(s) # "NONE"
      BY <1>1, <2>5, <3>1 DEF RoomMasterGameStart, Answer, serverVars
    <3>2. CASE MasterGameStartError(s) = "NONE"
      <4>1. room' = [room EXCEPT ![l][r] = Started(room[l][r])]
        BY <2>5, <3>2 DEF RoomMasterGameStart, Answer
      <4>2. /\ l \in Lobbies /\ r \in Rooms
            /\ room[l][r].game = "NONE"
        BY <3>2 DEF MasterGameStartError, GameStartError, InRoomError,
                    InPlaceError, RoomOf
      <4> HIDE DEF l, r
      <4>3. RoomStep(room[l][r], Started(room[l][r]))
        BY <4>2 DEF RoomStep, Started
      <4> QED
        BY <1>2, <4>1, <4>2, <4>3, OnlyOneRoom
    <3> QED
      BY <3>1, <3>2
  <2>6. CASE \/ ConnectSession(s) \/ LobbyLeave(s)
             \/ \E id \in Ids, key \in Addresses : Login(s, id, key)
             \/ \E n \in Int : LobbyEnter(s, n)
    <3>1. room' = room
      BY <2>6 DEF ConnectSession, LobbyLeave, Login, LobbyEnter, Answer,
                  serverVars, lobbyVars
    <3> QED
      BY <1>1, <3>1
  <2> QED
    BY <2>1, <2>2, <2>3, <2>4, <2>5, <2>6 DEF Effective
<1> QED
  BY <1>1, <1>3, EffectiveSteps DEF serverVars

-----------------------------------------------------------------------------
Succession(old, new) ==
    old # <<>> /\ new # <<>> =>
        \/ new[1] = old[1]
        \/ old[1] \notin Range(new) /\ new[1] = old[2]

\* Taking out the front makes the second the front; taking out another member
\* leaves the front.
LEMMA EraseSuccession ==
  ASSUME NEW users \in Seq(Users), NoRepeat(users), NEW u \in Range(users),
         Len(users) # 1
  PROVE  Succession(users, Erase(users, u))
<1> DEFINE k == CHOOSE i \in DOMAIN users :
                    /\ users[i] = u
                    /\ \A j \in DOMAIN users : users[j] = u => i <= j
           rest == [i \in 1 .. Len(users) - 1 |->
                        IF i < k THEN users[i] ELSE users[i + 1]]
<1>1. Len(users) \in Nat /\ DOMAIN users = 1 .. Len(users)
  OBVIOUS
<1>2. k \in 1 .. Len(users) /\ users[k] = u
  <2>1. PICK n \in DOMAIN users : users[n] = u
    BY <1>1 DEF Range
  <2>2. \A j \in DOMAIN users : users[j] = u => n <= j
    BY <1>1, <2>1 DEF NoRepeat
  <2> QED
    BY <1>1, <2>1, <2>2
<1>3. Erase(users, u) = rest
  BY DEF Erase
<1>4. Range(rest) = Range(users) \ {u}
  BY <1>3, EraseFacts
<1> HIDE DEF k
<1>5. 1 \in 1 .. Len(users) - 1
  BY <1>1, <1>2
<1>6. CASE k = 1
  <2>1. rest[1] = users[2] /\ users[1] = u
    BY <1>2, <1>5, <1>6
  <2> HIDE DEF rest
  <2> QED
    BY <1>3, <1>4, <2>1 DEF Succession
<1>7. CASE k # 1
  <2>1. rest[1] = users[1]
    BY <1>2, <1>5, <1>7
  <2> HIDE DEF rest
  <2> QED
    BY <1>3, <2>1 DEF Succession
<1> QED
  BY <1>6, <1>7

LEMMA StepSuccession ==
  ASSUME NEW old \in RoomRecord, NoRepeat(old.users), NEW new,
         RoomStep(old, new)
  PROVE  Succession(old.users, new.users)
<1>1. old.users \in Seq(Users)
  BY DEF RoomRecord
<1>2. CASE new.users = old.users
  BY <1>2 DEF Succession
<1>3. ASSUME NEW u \in Users, new.users = Append(old.users, u)
      PROVE  Succession(old.users, new.users)
  BY <1>1, <1>3 DEF Succession
<1>4. ASSUME NEW u \in Users, new = LeaveRoom(old, u)
      PROVE  Succession(old.users, new.users)
  <2>1. CASE LeaveRoomError(old, u) # "NONE"
    BY <1>2, <1>4, <2>1 DEF LeaveRoom
  <2>2. CASE LeaveRoomError(old, u) = "NONE" /\ Len(old.users) = 1
    BY <1>4, <2>2 DEF LeaveRoom, ClearedRoom, Succession
  <2>3. CASE LeaveRoomError(old, u) = "NONE" /\ Len(old.users) # 1
    <3>1. u \in Range(old.users)
      BY <2>3 DEF LeaveRoomError
    <3>2. new.users = Erase(old.users, u)
      BY <1>4, <2>3 DEF LeaveRoom, Without
    <3> QED
      BY <1>1, <2>3, <3>1, <3>2, EraseSuccession
  <2> QED
    BY <2>1, <2>2, <2>3
<1> QED
  BY <1>2, <1>3, <1>4 DEF RoomStep

(* The master of a room changes only when he leaves it or loses his        *)
(* connection, and then the member after him becomes it.                   *)
THEOREM MasterSucceeds == Spec => MasterSuccession
<1>1. LobbyInv /\ [Next]_vars =>
          \A l \in Lobbies, r \in Rooms :
              LET old == room[l][r].users
                  new == room'[l][r].users
              IN  old # <<>> /\ new # <<>> =>
                      \/ new[1] = old[1]
                      \/ /\ old[1] \notin Range(new)
                         /\ new[1] = old[2]
  <2> SUFFICES ASSUME LobbyInv, [Next]_vars,
                      NEW l \in Lobbies, NEW r \in Rooms
               PROVE  Succession(room[l][r].users, room'[l][r].users)
    BY DEF Succession
  <2>1. room[l][r] \in RoomRecord /\ NoRepeat(room[l][r].users)
    BY DEF LobbyInv, RoomInv, StateTypes, RoomMembership
  <2>2. RoomStep(room[l][r], room'[l][r])
    BY RoomSteps
  <2> QED
    BY <2>1, <2>2, StepSuccession
<1> QED
  BY <1>1, LobbyInvInit, LobbyInvNext, PTL DEF Spec, MasterSuccession

(* A room whose game has started has a started game for ever.              *)
THEOREM GamesGoOn == Spec => GameNeverEnds
<1>1. LobbyInv /\ [Next]_vars =>
          \A l \in Lobbies, r \in Rooms :
              room[l][r].game # "NONE" => room'[l][r].game = room[l][r].game
  <2> SUFFICES ASSUME LobbyInv, [Next]_vars,
                      NEW l \in Lobbies, NEW r \in Rooms,
                      room[l][r].game # "NONE"
               PROVE  room'[l][r].game = room[l][r].game
    OBVIOUS
  <2>1. RoomStep(room[l][r], room'[l][r])
    BY RoomSteps
  <2>2. \A u \in Users : LeaveRoom(room[l][r], u).game = room[l][r].game
    BY DEF LeaveRoom, ClearedRoom, Without
  <2> QED
    BY <2>1, <2>2 DEF RoomStep
<1> QED
  BY <1>1, LobbyInvInit, LobbyInvNext, PTL DEF Spec, GameNeverEnds

-----------------------------------------------------------------------------
\* Where the user behind a request is known to be, its indices are good.
LEMMA NoUserError ==
  ASSUME LobbyInv, NEW s \in Sessions
  PROVE  GetUserError(s) \in {"NONE", "USER_MGR_INVALID_SESSION_INDEX"}
BY GetUserFacts DEF GetUserError, LobbyInv, RoomInv, UserManagerInv,
                    UserManagerTypeOK, SessionBinding

LEMMA NoPlaceError ==
  ASSUME LobbyInv, NEW s \in Sessions, NEW state \in {"LOBBY", "ROOM"},
         NEW badState, NEW badLobby
  PROVE  InPlaceError(s, state, badState, badLobby)
             \in {"NONE", "USER_MGR_INVALID_SESSION_INDEX", badState}
<1>1. CASE GetUserError(s) # "NONE"
  BY <1>1, NoUserError DEF InPlaceError
<1>2. CASE GetUserError(s) = "NONE"
  <2>1. GetUser(s) \in Users
    BY <1>2, GetUserFacts DEF LobbyInv, RoomInv
  <2>2. user[GetUser(s)].state = state => user[GetUser(s)].lobby \in Lobbies
    BY <2>1 DEF LobbyInv, MemberInv, PlaceInv, Lodged, Lodges
  <2> QED
    BY <1>2, <2>2 DEF InPlaceError
<1> QED
  BY <1>1, <1>2

LEMMA NoRoomError ==
  ASSUME LobbyInv, NEW s \in Sessions,
         NEW badState, NEW badLobby, NEW badRoom, badState # "NONE"
  PROVE  InRoomError(s, badState, badLobby, badRoom)
             \in {"NONE", "USER_MGR_INVALID_SESSION_INDEX", badState}
<1> DEFINE place == InPlaceError(s, "ROOM", badState, badLobby)
<1>1. place \in {"NONE", "USER_MGR_INVALID_SESSION_INDEX", badState}
  BY NoPlaceError
<1>2. CASE place # "NONE"
  BY <1>1, <1>2 DEF InRoomError
<1>3. CASE place = "NONE" /\ user[GetUser(s)].room \in Rooms
  BY <1>3 DEF InRoomError
<1>4. CASE place = "NONE" /\ user[GetUser(s)].room \notin Rooms
  <2>1. CASE GetUserError(s) # "NONE"
    BY <1>4, <2>1 DEF InPlaceError
  <2>2. CASE GetUserError(s) = "NONE" /\ user[GetUser(s)].state = "ROOM"
    <3>1. GetUser(s) \in Users
      BY <2>2, GetUserFacts DEF LobbyInv, RoomInv
    <3> QED
      BY <1>4, <2>2, <3>1 DEF LobbyInv, MemberInv, PlaceInv, Lodged
  <2>3. CASE GetUserError(s) = "NONE" /\ user[GetUser(s)].state # "ROOM"
    BY <1>4, <2>3 DEF InPlaceError
  <2> QED
    BY <2>1, <2>2, <2>3
<1> QED
  BY <1>2, <1>3, <1>4

\* A lobby with space in its map has an empty slot: with every slot taken, the
\* slots' users, all different, are as many members as there are slots.
LEMMA SlotForEveryPlace ==
  ASSUME LobbyInv, NEW l \in Lobbies,
         ~(Cardinality(lobbyUsers[l]) >= MaxLobbyUserCount)
  PROVE  EmptySlots(l) # {}
<1> SUFFICES ASSUME EmptySlots(l) = {} PROVE FALSE
  OBVIOUS
<1> DEFINE slots == lobbySlots[l]
<1>1. slots \in [Slots -> Users \cup {NoUser}]
  BY DEF LobbyInv, MemberInv, PlaceInv, SlotsTyped
<1>2. \A i \in Slots : slots[i] # NoUser
  BY DEF EmptySlots
<1>3. \A i \in Slots : slots[i] \in lobbyUsers[l]
  BY <1>1, <1>2 DEF LobbyInv, MemberInv, PlaceInv, SlotsHold
<1>4. \A i, j \in Slots : slots[i] = slots[j] => i = j
  BY <1>2 DEF LobbyInv, MemberInv, PlaceInv, SlotsOnce
<1> HIDE DEF slots
<1>5. slots \in Injection(Slots, lobbyUsers[l])
  <2>1. slots \in [Slots -> lobbyUsers[l]]
    BY <1>1, <1>3
  <2>2. IsInjective(slots)
    BY <1>1, <1>4 DEF IsInjective
  <2> QED
    BY <2>1, <2>2 DEF Injection
<1>6. IsFiniteSet(lobbyUsers[l]) /\ Cardinality(lobbyUsers[l]) \in Nat
  BY UsersFinite DEF LobbyInv, MemberInv, PlaceInv
<1>7. Cardinality(Slots) <= Cardinality(lobbyUsers[l])
  BY <1>5, <1>6, FS_Injection
<1>8. Cardinality(Slots) = MaxLobbyUserCount
  <2>1. Cardinality(Slots) = IF 0 > MaxLobbyUserCount - 1 THEN 0
                             ELSE MaxLobbyUserCount - 1 - 0 + 1
    BY FS_Interval, LobbyAssumption DEF Slots
  <2> QED
    BY <2>1, LobbyAssumption
<1> QED
  BY <1>6, <1>7, <1>8, LobbyAssumption

Fair(answer) ==
    /\ answer.err \notin DefensiveErrors
    /\ answer.err = "ROOM_ENTER_INVALID_ROOM_INDEX"
          => answer.pkt = "ROOM_ENTER_RES"
    /\ answer.err = "ROOM_ENTER_NOT_CREATED"
          => answer.pkt = "ROOM_ENTER_RES"

\* The handlers of users who are in a lobby, and that have no other errors.
LEMMA LobbyRequests ==
  ASSUME LobbyInv, NEW s \in Sessions,
         \/ LobbyChat(s)
         \/ \E address \in Addresses : LobbyWisper(s, address)
         \/ \E start \in Int : LobbyRoomList(s, start)
         \/ \E start \in Int : LobbyUserList(s, start)
  PROVE  Fair(reply')
<1>1. /\ LobbyChatError(s) \in {"NONE", "USER_MGR_INVALID_SESSION_INDEX",
                               "LOBBY_CHAT_INVALID_DOServerHost"}
      /\ InPlaceError(s, "LOBBY", "LOBBY_ROOM_LIST_INVALID_DOServerHost",
                      "LOBBY_ROOM_LIST_INVALID_LOBBY_INDEX")
             \in {"NONE", "USER_MGR_INVALID_SESSION_INDEX",
                  "LOBBY_ROOM_LIST_INVALID_DOServerHost"}
      /\ InPlaceError(s, "LOBBY", "LOBBY_USER_LIST_INVALID_DOServerHost",
                      "LOBBY_USER_LIST_INVALID_LOBBY_INDEX")
             \in {"NONE", "USER_MGR_INVALID_SESSION_INDEX",
                  "LOBBY_USER_LIST_INVALID_DOServerHost"}
  BY NoPlaceError DEF LobbyChatError
<1>2. CASE LobbyChat(s) \/ \E address \in Addresses : LobbyWisper(s, address)
  <2>1. reply'.err = LobbyChatError(s)
    BY <1>2 DEF LobbyChat, LobbyWisper, Answer
  <2> QED
    BY <1>1, <2>1 DEF Fair, DefensiveErrors
<1>3. CASE \E start \in Int : LobbyRoomList(s, start)
  <2>1. \/ reply'.err = "NONE"
        \/ reply'.err =
               InPlaceError(s, "LOBBY", "LOBBY_ROOM_LIST_INVALID_DOServerHost",
                            "LOBBY_ROOM_LIST_INVALID_LOBBY_INDEX")
    BY <1>3 DEF LobbyRoomList, SendList, NoReply
  <2> QED
    BY <1>1, <2>1 DEF Fair, DefensiveErrors
<1>4. CASE \E start \in Int : LobbyUserList(s, start)
  <2>1. \/ reply'.err = "NONE"
        \/ reply'.err =
               InPlaceError(s, "LOBBY", "LOBBY_USER_LIST_INVALID_DOServerHost",
                            "LOBBY_USER_LIST_INVALID_LOBBY_INDEX")
    BY <1>4 DEF LobbyUserList, SendList, NoReply
  <2> QED
    BY <1>1, <2>1 DEF Fair, DefensiveErrors
<1> QED
  BY <1>2, <1>3, <1>4

\* The same for users in a room. A room with a member is in use.
LEMMA RoomRequests ==
  ASSUME LobbyInv, NEW s \in Sessions,
         RoomChat(s) \/ RoomMasterGameStart(s) \/ RoomGameStart(s)
  PROVE  Fair(reply')
<1>1. /\ InRoomError(s, "ROOM_CHAT_INVALID_DOServerHost",
                     "ROOM_CHAT_INVALID_LOBBY_INDEX",
                     "ROOM_ENTER_INVALID_ROOM_INDEX")
             \in {"NONE", "USER_MGR_INVALID_SESSION_INDEX",
                  "ROOM_CHAT_INVALID_DOServerHost"}
      /\ GameStartError(s)
             \in {"NONE", "USER_MGR_INVALID_SESSION_INDEX",
                  "ROOM_MASTER_GAME_START_INVALID_DOServerHost"}
  BY NoRoomError DEF GameStartError
<1>2. CASE RoomChat(s)
  BY <1>1, <1>2 DEF RoomChat, Answer, Fair, DefensiveErrors
<1>3. CASE RoomMasterGameStart(s)
  <2>1. reply'.err = MasterGameStartError(s)
    BY <1>3 DEF RoomMasterGameStart, Answer
  <2>2. MasterGameStartError(s) \in
            {"NONE", "USER_MGR_INVALID_SESSION_INDEX",
             "ROOM_MASTER_GAME_START_INVALID_DOServerHost",
             "ROOM_MASTER_GAME_START_INVALID_MASTER",
             "ROOM_MASTER_GAME_START_INVALID_USER_COUNT",
             "ROOM_MASTER_GAME_START_INVALID_GAME_STATE"}
    BY <1>1 DEF MasterGameStartError
  <2> QED
    BY <2>1, <2>2 DEF Fair, DefensiveErrors
<1>4. CASE RoomGameStart(s)
  <2>1. reply'.err \in
            {"NONE", "USER_MGR_INVALID_SESSION_INDEX",
             "ROOM_MASTER_GAME_START_INVALID_DOServerHost",
             "ROOM_MASTER_GAME_START_INVALID_GAME_STATE"}
    BY <1>1, <1>4 DEF RoomGameStart, Answer
  <2> QED
    BY <2>1 DEF Fair, DefensiveErrors
<1> QED
  BY <1>2, <1>3, <1>4

LEMMA MoveRequests ==
  ASSUME LobbyInv, NEW s \in Sessions,
         \/ \E l \in Int : LobbyEnter(s, l)
         \/ LobbyLeave(s)
         \/ \E create \in BOOLEAN, r \in Int : RoomEnter(s, create, r)
         \/ RoomLeave(s)
  PROVE  Fair(reply')
<1> DEFINE u == GetUser(s)
           l == user[u].lobby
           r == user[u].room
<1>1. GetUserError(s) = "NONE" => u \in Users
  BY GetUserFacts DEF LobbyInv, RoomInv
<1>2. u \in Users /\ user[u].state \in {"LOBBY", "ROOM"} => u \in lobbyUsers[l]
  BY DEF LobbyInv, MemberInv, PlaceInv, LobbyMembership, Lodged, Lodges
<1>3. ASSUME NEW n \in Int, LobbyEnter(s, n)
      PROVE  Fair(reply')
  <2>1. reply'.err = LobbyEnterError(s, n)
    BY <1>3 DEF LobbyEnter, Answer
  <2>2. u \in Users /\ user[u].state = "LOGIN" /\ n \in Lobbies
            => u \notin lobbyUsers[n]
    BY DEF LobbyInv, MemberInv, PlaceInv, LobbyMembership
  <2>3. u \in Users /\ user[u].state = "LOGIN" /\ n \in Lobbies
            => EnterLobbyError(n, u) \in {"NONE", "LOBBY_ENTER_MAX_USER_COUNT"}
    BY <2>2, SlotForEveryPlace DEF EnterLobbyError
  <2>4. LobbyEnterError(s, n) \in
            {"NONE", "USER_MGR_INVALID_SESSION_INDEX",
             "LOBBY_ENTER_INVALID_DOServerHost",
             "LOBBY_ENTER_INVALID_LOBBY_INDEX", "LOBBY_ENTER_MAX_USER_COUNT"}
    BY <1>1, <2>3, NoUserError DEF LobbyEnterError
  <2> QED
    BY <2>1, <2>4 DEF Fair, DefensiveErrors
<1>4. CASE LobbyLeave(s)
  <2> DEFINE err == InPlaceError(s, "LOBBY", "LOBBY_LEAVE_INVALID_DOServerHost",
                                 "LOBBY_LEAVE_INVALID_LOBBY_INDEX")
  <2>1. err \in {"NONE", "USER_MGR_INVALID_SESSION_INDEX",
                 "LOBBY_LEAVE_INVALID_DOServerHost"}
    BY NoPlaceError
  <2>2. err = "NONE" => GetUserError(s) = "NONE" /\ user[u].state = "LOBBY"
    BY DEF InPlaceError
  <2>3. err = "NONE" => LeaveLobbyError(l, u) = "NONE"
    BY <1>1, <1>2, <2>2 DEF LeaveLobbyError
  <2>4. reply'.err = LobbyLeaveError(s)
    BY <1>4 DEF LobbyLeave, Answer
  <2>5. LobbyLeaveError(s) \in {"NONE", "USER_MGR_INVALID_SESSION_INDEX",
                                "LOBBY_LEAVE_INVALID_DOServerHost"}
    BY <2>1, <2>3 DEF LobbyLeaveError
  <2> QED
    BY <2>4, <2>5 DEF Fair, DefensiveErrors
<1>5. ASSUME NEW create \in BOOLEAN, NEW n \in Int, RoomEnter(s, create, n)
      PROVE  Fair(reply')
  <2> DEFINE err == InPlaceError(s, "LOBBY", "ROOM_ENTER_INVALID_DOServerHost",
                                 "ROOM_ENTER_INVALID_LOBBY_INDEX")
  <2>1. err \in {"NONE", "USER_MGR_INVALID_SESSION_INDEX",
                 "ROOM_ENTER_INVALID_DOServerHost"}
    BY NoPlaceError
  <2>2. CreateRoom(l) # NoRoom =>
            CreateRoomError(room[l][CreateRoom(l)]) = "NONE"
    <3>1. UnusedRooms(l) \subseteq Nat
      BY DEF UnusedRooms, Rooms
    <3>2. UnusedRooms(l) # {} => First(UnusedRooms(l)) \in UnusedRooms(l)
      BY <3>1, FirstFacts
    <3>3. UnusedRooms(l) # {} => ~room[l][First(UnusedRooms(l))].used
      BY <3>2 DEF UnusedRooms
    <3> QED
      BY <3>3 DEF CreateRoom, CreateRoomError
  <2>3. reply'.err = RoomEnterError(s, create, n)
        /\ reply'.pkt = "ROOM_ENTER_RES"
    BY <1>5 DEF RoomEnter, Answer
  <2>4. RoomEnterError(s, create, n) \in
            {"NONE", "USER_MGR_INVALID_SESSION_INDEX",
             "ROOM_ENTER_INVALID_DOServerHost", "ROOM_ENTER_EMPTY_ROOM",
             "ROOM_ENTER_INVALID_ROOM_INDEX", "ROOM_ENTER_NOT_CREATED",
             "ROOM_ENTER_MEMBER_FULL"}
    BY <2>1, <2>2 DEF RoomEnterError, RoomToEnter, EnterRoomError
  <2> QED
    BY <2>3, <2>4 DEF Fair, DefensiveErrors
<1>6. CASE RoomLeave(s)
  <2> DEFINE err == InRoomError(s, "ROOM_LEAVE_INVALID_DOServerHost",
                                "ROOM_ENTER_INVALID_LOBBY_INDEX",
                                "ROOM_ENTER_INVALID_ROOM_INDEX")
  <2>1. err \in {"NONE", "USER_MGR_INVALID_SESSION_INDEX",
                 "ROOM_LEAVE_INVALID_DOServerHost"}
    BY NoRoomError
  <2>2. err = "NONE" => /\ GetUserError(s) = "NONE" /\ user[u].state = "ROOM"
                        /\ l \in Lobbies /\ r \in Rooms
    BY DEF InRoomError, InPlaceError
  <2>3. err = "NONE" => LeaveRoomError(RoomOf(u), u) = "NONE"
    <3> SUFFICES ASSUME err = "NONE"
                 PROVE  LeaveRoomError(RoomOf(u), u) = "NONE"
      OBVIOUS
    <3>1. u \in Range(room[l][r].users)
      BY <1>1, <2>2 DEF LobbyInv, RoomInv, RoomMembership, RoomHolds
    <3>2. room[l][r].used
      <4>1. room[l][r].users # <<>>
        BY <3>1 DEF Range
      <4> QED
        BY <2>2, <4>1 DEF LobbyInv, RoomInv, RoomMembership
    <3> QED
      BY <3>1, <3>2 DEF LeaveRoomError, RoomOf
  <2>4. reply'.err = RoomLeaveError(s)
    BY <1>6 DEF RoomLeave, Answer
  <2>5. RoomLeaveError(s) \in {"NONE", "USER_MGR_INVALID_SESSION_INDEX",
                               "ROOM_LEAVE_INVALID_DOServerHost"}
    BY <2>1, <2>3 DEF RoomLeaveError
  <2> QED
    BY <2>4, <2>5 DEF Fair, DefensiveErrors
<1> QED
  BY <1>3, <1>4, <1>5, <1>6

LEMMA OtherRequests ==
  ASSUME LobbyInv, NEW s \in Sessions,
         \/ ConnectSession(s) \/ CloseSession(s) \/ DevEcho(s) \/ LobbyList(s)
         \/ \E id \in Ids, key \in Addresses : Login(s, id, key)
  PROVE  Fair(reply')
<1>1. reply'.err \in {"NONE", "USER_MGR_ID_DUPLICATION",
                      "USER_MGR_MAX_USER_COUNT",
                      "USER_MGR_INVALID_SESSION_INDEX",
                      "LOBBY_LIST_INVALID_DOServerHost"}
  BY NoUserError DEF ConnectSession, CloseSession, DevEcho, LobbyList, Login,
                     Answer, NoReply, AddUserError
<1> QED
  BY <1>1 DEF Fair, DefensiveErrors

(* The handlers' defensive checks never fire, whatever the clients do: no  *)
(* stored index is ever bad, the map of a lobby never contradicts its slots*)
(* or its members' states, and no member is missing from its room.         *)
THEOREM ChecksNeverFire == Spec => NoDefensiveError
<1>1. LobbyInv /\ [Next]_vars =>
          [/\ reply'.err \notin DefensiveErrors
           /\ reply'.err = "ROOM_ENTER_INVALID_ROOM_INDEX"
                 => reply'.pkt = "ROOM_ENTER_RES"
           /\ reply'.err = "ROOM_ENTER_NOT_CREATED"
                 => reply'.pkt = "ROOM_ENTER_RES"]_vars
  <2> SUFFICES ASSUME LobbyInv, Next PROVE Fair(reply')
    BY DEF Fair
  <2>1. PICK s \in Sessions :
            ConnectSession(s) \/ CloseSession(s) \/ ClientPacket(s)
    BY DEF Next
  <2>2. CASE ConnectSession(s) \/ CloseSession(s)
    BY <2>2, OtherRequests
  <2>3. CASE ClientPacket(s)
    <3> USE LobbyAssumption
    <3>1. /\ \A o \in Offsets : <<s, o>> \in Addresses
          /\ \A n \in 0 .. MaxRoomCountByLobby : n \in Int
          /\ \A n \in 0 .. MaxLobbyCount : n \in Int
          /\ \A n \in 0 .. MaxLobbyUserCount : n \in Int
      BY DEF Addresses
    <3>2. CASE \/ DevEcho(s) \/ LobbyList(s)
               \/ \E id \in Ids, o \in Offsets : Login(s, id, <<s, o>>)
      BY <3>1, <3>2, OtherRequests
    <3>3. CASE \/ \E l \in 0 .. MaxLobbyCount : LobbyEnter(s, l)
               \/ LobbyLeave(s)
               \/ \E r \in 0 .. MaxRoomCountByLobby, create \in BOOLEAN :
                      RoomEnter(s, create, r)
               \/ RoomLeave(s)
      BY <3>1, <3>3, MoveRequests
    <3>4. CASE \/ LobbyChat(s)
               \/ \E o \in Offsets : LobbyWisper(s, <<s, o>>)
               \/ \E start \in 0 .. MaxRoomCountByLobby :
                      LobbyRoomList(s, start)
               \/ \E start \in 0 .. MaxLobbyUserCount : LobbyUserList(s, start)
      BY <3>1, <3>4, LobbyRequests
    <3>5. CASE RoomChat(s) \/ RoomMasterGameStart(s) \/ RoomGameStart(s)
      BY <3>5, RoomRequests
    <3> QED
      BY <2>3, <3>2, <3>3, <3>4, <3>5 DEF ClientPacket
  <2> QED
    BY <2>1, <2>2, <2>3
<1> QED
  BY <1>1, LobbyInvInit, LobbyInvNext, PTL DEF Spec, NoDefensiveError
-----------------------------------------------------------------------------
(* The refinement of Presence.                                             *)
\* Where a user's own state says it is.
Spot(u) ==
    IF user[u].state = "LOBBY" THEN {<<user[u].lobby>>}
    ELSE IF user[u].state = "ROOM"
    THEN {<<user[u].lobby>>, <<user[u].lobby, user[u].room>>}
    ELSE {}

\* Where the lobbies' maps and the rooms' vectors say it is.
Found(u) ==
    {<<l>> : l \in {l \in Lobbies : u \in lobbyUsers[l]}}
    \cup {p \in Lobbies \X Rooms : u \in Range(room[p[1]][p[2]].users)}

At == [u \in Users |-> Found(u)]
-----------------------------------------------------------------------------
LEMMA FoundInSpot ==
  ASSUME LobbyInv, NEW u \in Users
  PROVE  Found(u) = Spot(u)
<1>1. \A l \in Lobbies :
          u \in lobbyUsers[l] <=> /\ user[u].state \in {"LOBBY", "ROOM"}
                                 /\ user[u].lobby = l
  BY DEF LobbyInv, MemberInv, PlaceInv, LobbyMembership
<1>2. \A l \in Lobbies, r \in Rooms :
          u \in Range(room[l][r].users) <=> /\ user[u].state = "ROOM"
                                           /\ user[u].lobby = l
                                           /\ user[u].room = r
  BY DEF LobbyInv, RoomInv, RoomMembership, RoomHolds
<1>3. /\ user[u].state \in {"LOBBY", "ROOM"} => user[u].lobby \in Lobbies
      /\ user[u].state = "ROOM" => user[u].room \in Rooms
  BY DEF LobbyInv, MemberInv, PlaceInv, Lodged, Lodges
<1>4. \A p \in Found(u) : p \in Spot(u)
  <2>1. \A l \in Lobbies : u \in lobbyUsers[l] => <<l>> \in Spot(u)
    BY <1>1 DEF Spot
  <2>2. \A l \in Lobbies, r \in Rooms :
            u \in Range(room[l][r].users) => <<l, r>> \in Spot(u)
    BY <1>2 DEF Spot
  <2>3. \A p \in Lobbies \X Rooms :
            p = <<p[1], p[2]>> /\ p[1] \in Lobbies /\ p[2] \in Rooms
    OBVIOUS
  <2> QED
    BY <2>1, <2>2, <2>3 DEF Found
<1>5. \A p \in Spot(u) : p \in Found(u)
  <2>1. user[u].state \in {"LOBBY", "ROOM"} => <<user[u].lobby>> \in Found(u)
    BY <1>1, <1>3 DEF Found
  <2>2. user[u].state = "ROOM" => <<user[u].lobby, user[u].room>> \in Found(u)
    BY <1>2, <1>3 DEF Found
  <2> QED
    BY <2>1, <2>2 DEF Spot
<1> QED
  BY <1>4, <1>5

AtSpot == At = [u \in Users |-> Spot(u)]

LEMMA AtIsSpot == LobbyInv => AtSpot
BY FoundInSpot DEF At, AtSpot

\* One user moves.
LEMMA OneMoves ==
  ASSUME LobbyInv, LobbyInv', NEW u \in Users, NEW spot, user'[u] = spot,
         \A v \in Users : v # u => user'[v] = user[v]
  PROVE  At' = [At EXCEPT ![u] =
                    IF spot.state = "LOBBY" THEN {<<spot.lobby>>}
                    ELSE IF spot.state = "ROOM"
                    THEN {<<spot.lobby>>, <<spot.lobby, spot.room>>}
                    ELSE {}]
<1>1. AtSpot /\ AtSpot'
  BY AtIsSpot, PTL
<1>2. \A v \in Users : v # u => Spot(v)' = Spot(v)
  BY DEF Spot
<1> QED
  BY <1>1, <1>2 DEF AtSpot, Spot

\* The capacities of Presence count those in a lobby's map, or in a room.
LEMMA SameCardinality ==
  ASSUME NEW S
  PROVE  Whereabouts!Cardinality(S) = Cardinality(S)
BY DEF Whereabouts!Cardinality, Cardinality

LEMMA LobbyNotFull ==
  ASSUME LobbyInv, NEW l \in Lobbies,
         ~(Cardinality(lobbyUsers[l]) >= MaxLobbyUserCount)
  PROVE  ~Whereabouts!Full(<<l>>, MaxLobbyUserCount)
<1>1. \A u \in Users : <<l>> \in Found(u) <=> u \in lobbyUsers[l]
  BY DEF Found
<1>2. lobbyUsers[l] \subseteq Users
  BY DEF LobbyInv, MemberInv, PlaceInv
<1>3. {u \in Users : <<l>> \in At[u]} = lobbyUsers[l]
  BY <1>1, <1>2 DEF At
<1> QED
  BY <1>3, SameCardinality DEF Whereabouts!Full, At, Found

LEMMA RoomNotFull ==
  ASSUME LobbyInv, NEW l \in Lobbies, NEW r \in Rooms,
         Len(room[l][r].users) # MaxRoomUserCount
  PROVE  ~Whereabouts!Full(<<l, r>>, MaxRoomUserCount)
<1> DEFINE users == room[l][r].users
<1>1. \A u \in Users : <<l, r>> \in Found(u) <=> u \in Range(users)
  <2>1. \A m \in Lobbies : <<m>> # <<l, r>>
    OBVIOUS
  <2>2. <<l, r>> \in Lobbies \X Rooms
    OBVIOUS
  <2> QED
    BY <2>1, <2>2 DEF Found
<1>2. users \in Seq(Users)
  BY DEF LobbyInv, RoomInv, StateTypes, RoomRecord
<1>3. Range(users) \subseteq Users
  BY <1>2 DEF Range
<1>4. {u \in Users : <<l, r>> \in At[u]} = Range(users)
  BY <1>1, <1>3 DEF At
<1>5. /\ Len(users) \in Nat /\ Len(users) < MaxRoomUserCount
      /\ DOMAIN users = 1 .. Len(users)
  BY <1>2, RoomAssumption DEF LobbyInv, MemberInv, RoomCapacity
<1>6. Cardinality(Range(users)) <= Len(users)
  <2>1. users \in Surjection(1 .. Len(users), Range(users))
    BY <1>2, <1>5 DEF Surjection, Range
  <2>2. /\ IsFiniteSet(1 .. Len(users))
        /\ Cardinality(1 .. Len(users)) = Len(users)
    BY <1>5, FS_Interval
  <2> QED
    BY <2>1, <2>2, FS_Surjection
<1>7. Cardinality(Range(users)) \in Nat
  BY <1>3, UsersFinite
<1> HIDE DEF users
<1>8. ~(Cardinality(Range(users)) >= MaxRoomUserCount)
  BY <1>5, <1>6, <1>7, RoomAssumption
<1> QED
  BY <1>4, <1>8, SameCardinality DEF Whereabouts!Full, At, Found

-----------------------------------------------------------------------------
\* Presence's steps, in terms of At.
LEMMA EnterStep ==
  ASSUME NEW u \in Users, NEW l \in Lobbies, At[u] = {},
         ~Whereabouts!Full(<<l>>, MaxLobbyUserCount),
         At' = [At EXCEPT ![u] = {<<l>>}]
  PROVE  Whereabouts!Next
<1>1. Whereabouts!Enter(u, l)
  BY DEF Whereabouts!Enter, At, Found
<1> QED
  BY <1>1 DEF Whereabouts!Next

LEMMA EnterRoomStep ==
  ASSUME NEW u \in Users, NEW l \in Lobbies, NEW r \in Rooms,
         At[u] = {<<l>>}, ~Whereabouts!Full(<<l, r>>, MaxRoomUserCount),
         At' = [At EXCEPT ![u] = {<<l>>, <<l, r>>}]
  PROVE  Whereabouts!Next
<1>1. Whereabouts!EnterRoom(u, l, r)
  BY DEF Whereabouts!EnterRoom, At, Found
<1> QED
  BY <1>1 DEF Whereabouts!Next

LEMMA LeaveRoomStep ==
  ASSUME NEW u \in Users, NEW l \in Lobbies, NEW r \in Rooms,
         At[u] = {<<l>>, <<l, r>>}, At' = [At EXCEPT ![u] = {<<l>>}]
  PROVE  Whereabouts!Next
<1>1. Whereabouts!LeaveRoom(u, l, r)
  BY DEF Whereabouts!LeaveRoom, At, Found
<1> QED
  BY <1>1 DEF Whereabouts!Next

LEMMA LeaveStep ==
  ASSUME NEW u \in Users, At' = [At EXCEPT ![u] = {}]
  PROVE  Whereabouts!Next \/ At' = At
<1>1. CASE At[u] = {}
  BY <1>1 DEF At
<1>2. CASE At[u] # {}
  <2>1. Whereabouts!Leave(u)
    BY <1>2 DEF Whereabouts!Leave, At, Found
  <2> QED
    BY <2>1 DEF Whereabouts!Next
<1> QED
  BY <1>1, <1>2

-----------------------------------------------------------------------------
\* A user whose state changes in neither lobby nor room does not move, nor
\* does anybody when the lobbies' maps and the rooms stay as they are.
LEMMA Still ==
  ASSUME lobbyUsers' = lobbyUsers,
         \A l \in Lobbies, r \in Rooms :
             room'[l][r].users = room[l][r].users
  PROVE  At' = At
<1>1. \A u \in Users : Found(u)' = Found(u)
  <2> SUFFICES ASSUME NEW u \in Users PROVE Found(u)' = Found(u)
    OBVIOUS
  <2>1. \A p \in Lobbies \X Rooms :
            room'[p[1]][p[2]].users = room[p[1]][p[2]].users
    OBVIOUS
  <2> QED
    BY <2>1 DEF Found
<1> QED
  BY <1>1 DEF At

LEMMA CloseMoves ==
  ASSUME LobbyInv, LobbyInv', NEW s \in Sessions, CloseSession(s)
  PROVE  Whereabouts!Next \/ At' = At
<1> DEFINE u == GetUser(s)
<1>1. /\ u = NoUser => UNCHANGED <<user, lobbyUsers, lobbySlots, room>>
      /\ u # NoUser =>
             /\ u \in Users
             /\ user'[u].state = "NONE"
             /\ \A v \in Users : v # u => user'[v] = user[v]
  BY CloseEffect DEF LobbyInv
<1> HIDE DEF u
<1>2. CASE u = NoUser
  BY <1>1, <1>2, Still
<1>3. CASE u # NoUser
  <2> DEFINE new == user'[u]
  <2>1. At' = [At EXCEPT ![u] = {}]
    BY <1>1, <1>3, OneMoves
  <2> QED
    BY <1>1, <1>3, <2>1, LeaveStep
<1> QED
  BY <1>2, <1>3

LEMMA LobbyEnterMoves ==
  ASSUME LobbyInv, LobbyInv', NEW s \in Sessions, NEW l \in Int,
         LobbyEnter(s, l), LobbyEnterError(s, l) = "NONE"
  PROVE  Whereabouts!Next
<1> DEFINE u == GetUser(s)
<1>1. /\ u \in Users /\ l \in Lobbies /\ EnterLobbyError(l, u) = "NONE"
      /\ user[u].state = "LOGIN" /\ user'[u].state = "LOBBY"
      /\ user'[u].lobby = l
      /\ \A v \in Users : v # u => user'[v] = user[v]
  BY LobbyEnterEffect DEF LobbyInv
<1> HIDE DEF u
<1>2. At[u] = {}
  BY <1>1, AtIsSpot DEF AtSpot, Spot
<1>3. At' = [At EXCEPT ![u] = {<<l>>}]
  BY <1>1, OneMoves
<1>4. ~Whereabouts!Full(<<l>>, MaxLobbyUserCount)
  BY <1>1, LobbyNotFull DEF EnterLobbyError
<1> QED
  BY <1>1, <1>2, <1>3, <1>4, EnterStep

LEMMA LobbyLeaveMoves ==
  ASSUME LobbyInv, LobbyInv', NEW s \in Sessions, LobbyLeave(s),
         LobbyLeaveError(s) = "NONE"
  PROVE  Whereabouts!Next \/ At' = At
<1> DEFINE u == GetUser(s)
<1>1. /\ u \in Users /\ user'[u].state = "LOGIN"
      /\ \A v \in Users : v # u => user'[v] = user[v]
  BY LobbyLeaveEffect DEF LobbyInv
<1> HIDE DEF u
<1>2. At' = [At EXCEPT ![u] = {}]
  BY <1>1, OneMoves
<1> QED
  BY <1>1, <1>2, LeaveStep

LEMMA RoomEnterMoves ==
  ASSUME LobbyInv, LobbyInv', NEW s \in Sessions, NEW create \in BOOLEAN,
         NEW r \in Int, RoomEnter(s, create, r),
         RoomEnterError(s, create, r) = "NONE"
  PROVE  Whereabouts!Next
<1> DEFINE u == GetUser(s)
           l == user[u].lobby
<1>1. PICK rIn \in Rooms, users \in Seq(Users), rm \in RoomRecord :
           /\ u \in Users /\ l \in Lobbies
           /\ user[u].state = "LOBBY" /\ user'[u].state = "ROOM"
           /\ user'[u].lobby = l /\ user'[u].room = rIn
           /\ \A v \in Users : v # u => user'[v] = user[v]
           /\ users = room[l][rIn].users
           /\ Len(users) # MaxRoomUserCount
  BY RoomEnterEffect DEF LobbyInv
<1>2. l = user[u].lobby
  OBVIOUS
<1> HIDE DEF u, l
<1>3. At[u] = {<<l>>}
  BY <1>1, <1>2, AtIsSpot DEF AtSpot, Spot
<1>4. At' = [At EXCEPT ![u] = {<<l>>, <<l, rIn>>}]
  BY <1>1, OneMoves
<1>5. ~Whereabouts!Full(<<l, rIn>>, MaxRoomUserCount)
  BY <1>1, RoomNotFull
<1> QED
  BY <1>1, <1>3, <1>4, <1>5, EnterRoomStep

LEMMA RoomLeaveMoves ==
  ASSUME LobbyInv, LobbyInv', NEW s \in Sessions, RoomLeave(s),
         RoomLeaveError(s) = "NONE"
  PROVE  Whereabouts!Next
<1> DEFINE u == GetUser(s)
           l == user[u].lobby
           r == user[u].room
<1>1. /\ u \in Users /\ l \in Lobbies /\ r \in Rooms
      /\ user[u].state = "ROOM" /\ user'[u].state = "LOBBY"
      /\ user'[u].lobby = l
      /\ \A v \in Users : v # u => user'[v] = user[v]
  BY RoomLeaveEffect DEF LobbyInv
<1>2. l = user[u].lobby /\ r = user[u].room
  OBVIOUS
<1> HIDE DEF u, l, r
<1>3. At[u] = {<<l>>, <<l, r>>}
  BY <1>1, <1>2, AtIsSpot DEF AtSpot, Spot
<1>4. At' = [At EXCEPT ![u] = {<<l>>}]
  BY <1>1, OneMoves
<1> QED
  BY <1>1, <1>3, <1>4, LeaveRoomStep

LEMMA GameStartStill ==
  ASSUME LobbyInv, NEW s \in Sessions, RoomMasterGameStart(s),
         MasterGameStartError(s) = "NONE"
  PROVE  At' = At
<1> DEFINE l == user[GetUser(s)].lobby
           r == user[GetUser(s)].room
<1>1. /\ room' = [room EXCEPT ![l][r] = Started(@)]
      /\ UNCHANGED <<user, lobbyUsers>>
  BY DEF RoomMasterGameStart, Answer, userManagerVars
<1>2. l \in Lobbies /\ r \in Rooms
  BY DEF MasterGameStartError, GameStartError, InRoomError, InPlaceError
<1> HIDE DEF l, r
<1>3. \A l2 \in Lobbies, r2 \in Rooms :
          room'[l2][r2].users = room[l2][r2].users
  BY <1>1, <1>2 DEF Started, LobbyInv, RoomInv, StateTypes
<1> QED
  BY <1>1, <1>3, Still

LEMMA PresenceNext ==
  LobbyInv /\ LobbyInv' /\ [Next]_vars => Whereabouts!Next \/ At' = At
<1> SUFFICES ASSUME LobbyInv, LobbyInv', [Next]_vars
             PROVE  Whereabouts!Next \/ At' = At
  OBVIOUS
<1>1. CASE UNCHANGED <<lobbyUsers, room>>
  BY <1>1, Still
<1>2. CASE \E s \in Sessions : Effective(s)
  <2>1. PICK s \in Sessions : Effective(s)
    BY <1>2
  <2>2. CASE CloseSession(s)
    BY <2>2, CloseMoves
  <2>3. CASE ConnectSession(s)
    BY <1>1, <2>3 DEF ConnectSession, lobbyVars
  <2>4. CASE \E id \in Ids, key \in Addresses : Login(s, id, key)
    BY <1>1, <2>4 DEF Login, Answer, serverVars, lobbyVars
  <2>5. CASE \E l \in Int : LobbyEnter(s, l)
    <3>1. PICK l \in Int : LobbyEnter(s, l)
      BY <2>5
    <3>2. CASE LobbyEnterError(s, l) # "NONE"
      BY <1>1, <3>1, <3>2 DEF LobbyEnter, Answer, serverVars
    <3> QED
      BY <3>1, <3>2, LobbyEnterMoves
  <2>6. CASE LobbyLeave(s)
    <3>1. CASE LobbyLeaveError(s) # "NONE"
      BY <1>1, <2>6, <3>1 DEF LobbyLeave, Answer, serverVars
    <3> QED
      BY <2>6, <3>1, LobbyLeaveMoves
  <2>7. CASE \E create \in BOOLEAN, r \in Int : RoomEnter(s, create, r)
    <3>1. PICK create \in BOOLEAN, r \in Int : RoomEnter(s, create, r)
      BY <2>7
    <3>2. CASE RoomEnterError(s, create, r) # "NONE"
      BY <1>1, <3>1, <3>2 DEF RoomEnter, Answer, serverVars
    <3> QED
      BY <3>1, <3>2, RoomEnterMoves
  <2>8. CASE RoomLeave(s)
    <3>1. CASE RoomLeaveError(s) # "NONE"
      BY <1>1, <2>8, <3>1 DEF RoomLeave, Answer, serverVars
    <3> QED
      BY <2>8, <3>1, RoomLeaveMoves
  <2>9. CASE RoomMasterGameStart(s)
    <3>1. CASE MasterGameStartError(s) # "NONE"
      BY <1>1, <2>9, <3>1 DEF RoomMasterGameStart, Answer, serverVars
    <3> QED
      BY <2>9, <3>1, GameStartStill
  <2> QED
    BY <2>1, <2>2, <2>3, <2>4, <2>5, <2>6, <2>7, <2>8, <2>9 DEF Effective
<1> QED
  BY <1>1, <1>2, EffectiveSteps DEF serverVars

LEMMA PresenceInit == Init => Whereabouts!Init
<1> SUFFICES ASSUME Init PROVE At = [u \in Users |-> {}]
  BY DEF Whereabouts!Init, At, Found
<1>1. LobbyInv
  BY LobbyInvInit
<1>2. \A u \in Users : user[u].state = "NONE"
  BY DEF Init, UserManagerInit, NewUser
<1> QED
  BY <1>1, <1>2, AtIsSpot DEF AtSpot, Spot

(* What the lobbies' maps and the rooms' vectors say of where users are    *)
(* changes as in Presence, whatever the clients do: nobody is ever in two  *)
(* places, and nobody gets into a lobby or a room that is full.            *)
THEOREM PresenceImplemented == Spec => ImplementsPresence
<1>1. LobbyInv /\ LobbyInv' /\ [Next]_vars =>
          [Whereabouts!Next]_[u \in Users |->
              {<<l>> : l \in {l \in Lobbies : u \in lobbyUsers[l]}}
              \cup {p \in Lobbies \X Rooms : u \in Range(room[p[1]][p[2]].users)}]
  BY PresenceNext DEF At, Found
<1>2. Spec => Whereabouts!Spec
  BY <1>1, PresenceInit, LobbyInvInit, LobbyInvNext, PTL
  DEF Spec, Whereabouts!Spec
<1> QED
  BY <1>2 DEF ImplementsPresence

-----------------------------------------------------------------------------
(* What is told to whom.                                                   *)
\* The users shown in a lobby are those whose own state puts them there.
ShownByState ==
    \A l \in Lobbies :
        Shown(l) = {v \in Users : user[v].state = "LOBBY" /\ user[v].lobby = l}

LEMMA ShownExact == LobbyInv => ShownByState
<1> SUFFICES ASSUME LobbyInv, NEW l \in Lobbies
             PROVE  Shown(l) = {v \in Users : /\ user[v].state = "LOBBY"
                                              /\ user[v].lobby = l}
  BY DEF ShownByState
<1>1. lobbyUsers[l] \subseteq Users
  BY DEF LobbyInv, MemberInv, PlaceInv
<1>2. \A v \in Users : v \in lobbyUsers[l] <=>
          user[v].state \in {"LOBBY", "ROOM"} /\ user[v].lobby = l
  BY DEF LobbyInv, MemberInv, PlaceInv, LobbyMembership
<1> QED
  BY <1>1, <1>2 DEF Shown

\* When one user moves, all the others are shown where they were, and are
\* reached through the same sessions.
LEMMA OthersShown ==
  ASSUME LobbyInv, LobbyInv', NEW u \in Users,
         \A v \in Users : v # u => user'[v] = user[v], NEW l \in Lobbies
  PROVE  /\ \A w : w # u => (w \in Shown(l)' <=> w \in Shown(l))
         /\ \A w \in Shown(l)' : w \in Users
         /\ \A w \in Shown(l) : w \in Users
         /\ \A w \in Shown(l)' : w # u => user'[w].session = user[w].session
         /\ u \in Shown(l)' <=> user'[u].state = "LOBBY" /\ user'[u].lobby = l
         /\ u \in Shown(l) <=> user[u].state = "LOBBY" /\ user[u].lobby = l
<1>1. ShownByState /\ ShownByState'
  BY ShownExact, PTL
<1>2. /\ Shown(l) = {v \in Users : user[v].state = "LOBBY" /\ user[v].lobby = l}
      /\ Shown(l)' = {v \in Users : /\ user'[v].state = "LOBBY"
                                    /\ user'[v].lobby = l}
  BY <1>1 DEF ShownByState
<1> QED
  BY <1>2

LEMMA EachIsSent ==
  ASSUME NEW S, NEW pkt, NEW who, NEW r, NEW n, NEW w \in S
  PROVE  Ntf(user[w].session, pkt, who, r, n) \in
             ToSessionsOf(S, pkt, who, r, n)
BY DEF ToSessionsOf

-----------------------------------------------------------------------------
\* The packets of a room's new number of members.
RoomTold(l, r) ==
    \A w \in Shown(l)' :
        Ntf(user'[w].session, "ROOM_CHANGED_INFO_NTF", NoUser, r,
            Len(room'[l][r].users)) \in sent'

LEMMA CloseTellsRoom ==
  ASSUME LobbyInv, LobbyInv', NEW s \in Sessions, CloseSession(s),
         NEW l \in Lobbies, NEW r \in Rooms,
         room'[l][r].users # room[l][r].users
  PROVE  RoomTold(l, r)
<1> DEFINE u   == GetUser(s)
           rIn == GetRoom(user[u].room)
           rm  == LeaveRoom(room[l][rIn], u)
<1>1. /\ u = NoUser => UNCHANGED room
      /\ u # NoUser =>
             /\ u \in Users
             /\ user'[u].state = "NONE"
             /\ \A v \in Users : v # u => user'[v] = user[v]
             /\ IF user[u].lobby \in Lobbies
                THEN CloseInLobby(u, user[u].lobby)
                ELSE UNCHANGED room
  BY CloseEffect DEF LobbyInv
<1> HIDE DEF u
<1>2. u # NoUser /\ CloseInLobby(u, user[u].lobby) /\ rIn # NoRoom
  BY <1>1 DEF CloseInLobby
<1>3. rIn \in Rooms
  BY <1>2 DEF GetRoom
<1>4. room \in [Lobbies -> [Rooms -> RoomRecord]]
  BY DEF LobbyInv, RoomInv, StateTypes
<1>5. room' = [room EXCEPT ![user[u].lobby][rIn] =
                   LeaveRoom(room[user[u].lobby][rIn], u)]
  BY <1>2 DEF CloseInLobby
<1> HIDE DEF rIn
<1>6. l = user[u].lobby /\ r = rIn
  BY <1>4, <1>5
<1>7. room'[l][r] = rm
  BY <1>3, <1>4, <1>5, <1>6
<1>8. ToSessionsOf(Shown(l), "ROOM_CHANGED_INFO_NTF", NoUser, r, Len(rm.users))
          \subseteq sent'
  BY <1>2, <1>6 DEF CloseInLobby, NotifyChangedRoomInfo, rIn
<1> HIDE DEF rm
<1> SUFFICES ASSUME NEW w \in Shown(l)'
             PROVE  Ntf(user'[w].session, "ROOM_CHANGED_INFO_NTF", NoUser, r,
                        Len(rm.users)) \in sent'
  BY <1>7 DEF RoomTold
<1>9. w # u /\ w \in Shown(l) /\ user'[w].session = user[w].session
  BY <1>1, <1>2, OthersShown
<1> QED
  BY <1>8, <1>9, EachIsSent

LEMMA RoomEnterTellsRoom ==
  ASSUME LobbyInv, LobbyInv', NEW s \in Sessions, NEW create \in BOOLEAN,
         NEW n \in Int, RoomEnter(s, create, n),
         RoomEnterError(s, create, n) = "NONE",
         NEW l \in Lobbies, NEW r \in Rooms,
         room'[l][r].users # room[l][r].users
  PROVE  RoomTold(l, r)
<1> DEFINE u   == GetUser(s)
           rIn == RoomToEnter(user[u].lobby, create, n)
           rm  == EnterRoom(RoomToEnterRecord(user[u].lobby, create, n), u)
<1>1. /\ u \in Users /\ user[u].lobby \in Lobbies
      /\ user'[u].state = "ROOM"
      /\ \A v \in Users : v # u => user'[v] = user[v]
  BY RoomEnterEffect DEF LobbyInv
<1>2. room \in [Lobbies -> [Rooms -> RoomRecord]]
  BY DEF LobbyInv, RoomInv, StateTypes
<1>3. room' = [room EXCEPT ![user[u].lobby][rIn] = rm]
  BY DEF RoomEnter, Answer
<1>4. ToSessionsOf(Shown(user[u].lobby) \ {u}, "ROOM_CHANGED_INFO_NTF", NoUser,
                   rIn, Len(rm.users)) \subseteq sent'
  BY DEF RoomEnter, Answer, NotifyChangedRoomInfo
<1> HIDE DEF rm, rIn, u
<1>5. l = user[u].lobby /\ r = rIn
  BY <1>2, <1>3
<1>6. room'[l][r] = rm
  BY <1>2, <1>3, <1>5
<1> SUFFICES ASSUME NEW w \in Shown(l)'
             PROVE  Ntf(user'[w].session, "ROOM_CHANGED_INFO_NTF", NoUser, r,
                        Len(rm.users)) \in sent'
  BY <1>6 DEF RoomTold
<1>7. w # u /\ w \in Shown(l) /\ user'[w].session = user[w].session
  BY <1>1, OthersShown
<1> QED
  BY <1>4, <1>5, <1>7, EachIsSent

LEMMA RoomLeaveTellsRoom ==
  ASSUME LobbyInv, LobbyInv', NEW s \in Sessions, RoomLeave(s),
         RoomLeaveError(s) = "NONE",
         NEW l \in Lobbies, NEW r \in Rooms,
         room'[l][r].users # room[l][r].users
  PROVE  RoomTold(l, r)
<1> DEFINE u   == GetUser(s)
           rIn == user[u].room
           rm  == LeaveRoom(RoomOf(u), u)
<1>1. /\ u \in Users /\ user[u].lobby \in Lobbies
      /\ user'[u].session = user[u].session
      /\ \A v \in Users : v # u => user'[v] = user[v]
  BY RoomLeaveEffect DEF LobbyInv
<1>2. room \in [Lobbies -> [Rooms -> RoomRecord]]
  BY DEF LobbyInv, RoomInv, StateTypes
<1>3. room' = [room EXCEPT ![user[u].lobby][rIn] = rm]
  BY DEF RoomLeave, Answer
<1>4. ToSessionsOf(Shown(user[u].lobby) \cup {u}, "ROOM_CHANGED_INFO_NTF",
                   NoUser, rIn, Len(rm.users)) \subseteq sent'
  BY DEF RoomLeave, Answer, NotifyChangedRoomInfo
<1> HIDE DEF rm, rIn, u
<1>5. l = user[u].lobby /\ r = rIn
  BY <1>2, <1>3
<1>6. room'[l][r] = rm
  BY <1>2, <1>3, <1>5
<1> SUFFICES ASSUME NEW w \in Shown(l)'
             PROVE  Ntf(user'[w].session, "ROOM_CHANGED_INFO_NTF", NoUser, r,
                        Len(rm.users)) \in sent'
  BY <1>6 DEF RoomTold
<1>7. w \in Shown(l) \cup {u} /\ user'[w].session = user[w].session
  BY <1>1, OthersShown
<1> QED
  BY <1>4, <1>5, <1>7, EachIsSent

(* Whenever the members of a room change, everybody then shown in the      *)
(* lobby is told the new number: RoomChangesAnnounced.                     *)
THEOREM RoomChangesTold == Spec => RoomChangesAnnounced
<1>1. LobbyInv /\ LobbyInv' /\ [Next]_vars =>
          \A l \in Lobbies, r \in Rooms :
             room'[l][r].users # room[l][r].users =>
                 \A w \in Shown(l)' :
                     Ntf(user'[w].session, "ROOM_CHANGED_INFO_NTF", NoUser, r,
                         Len(room'[l][r].users)) \in sent'
  <2> SUFFICES ASSUME LobbyInv, LobbyInv', [Next]_vars,
                      NEW l \in Lobbies, NEW r \in Rooms,
                      room'[l][r].users # room[l][r].users
               PROVE  RoomTold(l, r)
    BY DEF RoomTold
  <2>1. PICK s \in Sessions : Effective(s)
    BY EffectiveSteps DEF serverVars
  <2>2. CASE CloseSession(s)
    BY <2>2, CloseTellsRoom
  <2>3. CASE \E create \in BOOLEAN, n \in Int : RoomEnter(s, create, n)
    <3>1. PICK create \in BOOLEAN, n \in Int : RoomEnter(s, create, n)
      BY <2>3
    <3>2. RoomEnterError(s, create, n) = "NONE"
      BY <3>1 DEF RoomEnter, Answer, serverVars
    <3> QED
      BY <3>1, <3>2, RoomEnterTellsRoom
  <2>4. CASE RoomLeave(s)
    <3>1. RoomLeaveError(s) = "NONE"
      BY <2>4 DEF RoomLeave, Answer, serverVars
    <3> QED
      BY <2>4, <3>1, RoomLeaveTellsRoom
  <2>5. CASE RoomMasterGameStart(s)
    <3>1. MasterGameStartError(s) = "NONE"
      BY <2>5 DEF RoomMasterGameStart, Answer, serverVars
    <3> DEFINE lIn == user[GetUser(s)].lobby
               rIn == user[GetUser(s)].room
    <3>2. room' = [room EXCEPT ![lIn][rIn] = Started(@)]
      BY <2>5, <3>1 DEF RoomMasterGameStart, Answer
    <3> HIDE DEF lIn, rIn
    <3>3. room'[l][r].users = room[l][r].users
      BY <3>2 DEF Started, LobbyInv, RoomInv, StateTypes
    <3> QED
      BY <3>3
  <2>6. CASE \/ ConnectSession(s) \/ LobbyLeave(s)
             \/ \E id \in Ids, key \in Addresses : Login(s, id, key)
             \/ \E n \in Int : LobbyEnter(s, n)
    BY <2>6 DEF ConnectSession, LobbyLeave, Login, LobbyEnter, Answer,
                serverVars, lobbyVars
  <2> QED
    BY <2>1, <2>2, <2>3, <2>4, <2>5, <2>6 DEF Effective
<1> QED
  BY <1>1, LobbyInvInit, LobbyInvNext, PTL DEF Spec, RoomChangesAnnounced

-----------------------------------------------------------------------------
\* The packets of who appears in a lobby, and of who vanishes from it.
LobbyTold(l) ==
    \A w \in Shown(l) \cap Shown(l)' :
        /\ \A v \in Shown(l)' \ Shown(l) : Told(w, "LOBBY_ENTER_USER_NTF", v)
        /\ reply' # NoReply =>
               \A v \in Shown(l) \ Shown(l)' :
                   Told(w, "LOBBY_LEAVE_USER_NTF", v)

\* What a handler that moves one user has to send.
LEMMA OneIsTold ==
  ASSUME LobbyInv, LobbyInv', NEW u \in Users,
         \A v \in Users : v # u => user'[v] = user[v],
         NEW l \in Lobbies,
         /\ user'[u].state = "LOBBY" /\ user'[u].lobby = l
         /\ ~(user[u].state = "LOBBY" /\ user[u].lobby = l)
         => ToSessionsOf(Shown(l) \ {u}, "LOBBY_ENTER_USER_NTF", u, NoRoom, 0)
                \subseteq sent',
         /\ user[u].state = "LOBBY" /\ user[u].lobby = l
         /\ ~(user'[u].state = "LOBBY" /\ user'[u].lobby = l)
         /\ reply' # NoReply
         => ToSessionsOf(Shown(l) \ {u}, "LOBBY_LEAVE_USER_NTF", u, NoRoom, 0)
                \subseteq sent'
  PROVE  LobbyTold(l)
<1> SUFFICES ASSUME NEW w \in Shown(l), w \in Shown(l)'
             PROVE  /\ \A v \in Shown(l)' \ Shown(l) :
                           Told(w, "LOBBY_ENTER_USER_NTF", v)
                    /\ reply' # NoReply =>
                           \A v \in Shown(l) \ Shown(l)' :
                               Told(w, "LOBBY_LEAVE_USER_NTF", v)
  BY DEF LobbyTold
<1>1. ASSUME NEW v \in Shown(l)' \ Shown(l)
      PROVE  Told(w, "LOBBY_ENTER_USER_NTF", v)
  <2>1. v = u /\ w # u /\ user'[w].session = user[w].session
    BY <1>1, OthersShown
  <2>2. ToSessionsOf(Shown(l) \ {u}, "LOBBY_ENTER_USER_NTF", u, NoRoom, 0)
            \subseteq sent'
    BY <1>1, <2>1, OthersShown
  <2>3. Ntf(user[w].session, "LOBBY_ENTER_USER_NTF", u, NoRoom, 0) \in sent'
    BY <2>1, <2>2, EachIsSent
  <2> QED
    BY <2>1, <2>3 DEF Told
<1>2. ASSUME NEW v \in Shown(l) \ Shown(l)', reply' # NoReply
      PROVE  Told(w, "LOBBY_LEAVE_USER_NTF", v)
  <2>1. v = u /\ w # u /\ user'[w].session = user[w].session
    BY <1>2, OthersShown
  <2>2. ToSessionsOf(Shown(l) \ {u}, "LOBBY_LEAVE_USER_NTF", u, NoRoom, 0)
            \subseteq sent'
    BY <1>2, <2>1, OthersShown
  <2>3. Ntf(user[w].session, "LOBBY_LEAVE_USER_NTF", u, NoRoom, 0) \in sent'
    BY <2>1, <2>2, EachIsSent
  <2> QED
    BY <2>1, <2>3 DEF Told
<1> QED
  BY <1>1, <1>2

\* Where nobody moves nobody has to be told.
LEMMA NobodyIsTold ==
  ASSUME UNCHANGED <<user, lobbyUsers>>, NEW l \in Lobbies
  PROVE  LobbyTold(l)
<1>1. Shown(l)' = Shown(l)
  BY DEF Shown
<1> QED
  BY <1>1 DEF LobbyTold

LEMMA CloseTellsLobby ==
  ASSUME LobbyInv, LobbyInv', NEW s \in Sessions, CloseSession(s),
         NEW l \in Lobbies
  PROVE  LobbyTold(l)
<1> DEFINE u == GetUser(s)
<1>1. /\ u = NoUser => UNCHANGED <<user, lobbyUsers>>
      /\ u # NoUser =>
             /\ u \in Users
             /\ user'[u].state = "NONE"
             /\ \A v \in Users : v # u => user'[v] = user[v]
  BY CloseEffect DEF LobbyInv
<1>2. reply' = NoReply
  BY DEF CloseSession
<1> HIDE DEF u
<1>3. CASE u = NoUser
  BY <1>1, <1>3, NobodyIsTold
<1>4. CASE u # NoUser
  BY <1>1, <1>2, <1>4, OneIsTold
<1> QED
  BY <1>3, <1>4

LEMMA LoginTellsLobby ==
  ASSUME LobbyInv, LobbyInv', NEW s \in Sessions, NEW id \in Ids,
         NEW key \in Addresses, Login(s, id, key),
         AddUserError(key) = "NONE", NEW l \in Lobbies
  PROVE  LobbyTold(l)
<1>1. PICK u \in Users :
          /\ user[u].state = "NONE" /\ user'[u].state = "LOGIN"
          /\ \A v \in Users : v # u => user'[v] = user[v]
  BY LoginEffect DEF LobbyInv
<1> QED
  BY <1>1, OneIsTold

LEMMA LobbyEnterTellsLobby ==
  ASSUME LobbyInv, LobbyInv', NEW s \in Sessions, NEW n \in Int,
         LobbyEnter(s, n), LobbyEnterError(s, n) = "NONE", NEW l \in Lobbies
  PROVE  LobbyTold(l)
<1> DEFINE u == GetUser(s)
<1>1. /\ u \in Users
      /\ user[u].state = "LOGIN" /\ user'[u].state = "LOBBY"
      /\ user'[u].lobby = n
      /\ \A v \in Users : v # u => user'[v] = user[v]
  BY LobbyEnterEffect DEF LobbyInv
<1>2. ToSessionsOf(Shown(n) \ {u}, "LOBBY_ENTER_USER_NTF", u, NoRoom, 0)
          \subseteq sent'
  BY DEF LobbyEnter, Answer, AnnounceEnter, ToLobby
<1> HIDE DEF u
<1> QED
  BY <1>1, <1>2, OneIsTold

LEMMA LobbyLeaveTellsLobby ==
  ASSUME LobbyInv, LobbyInv', NEW s \in Sessions, LobbyLeave(s),
         LobbyLeaveError(s) = "NONE", NEW l \in Lobbies
  PROVE  LobbyTold(l)
<1> DEFINE u == GetUser(s)
<1>1. /\ u \in Users
      /\ user[u].state = "LOBBY" /\ user'[u].state = "LOGIN"
      /\ \A v \in Users : v # u => user'[v] = user[v]
  BY LobbyLeaveEffect DEF LobbyInv
<1>2. ToSessionsOf(Shown(user[u].lobby) \ {u}, "LOBBY_LEAVE_USER_NTF", u,
                   NoRoom, 0) \subseteq sent'
  BY DEF LobbyLeave, Answer, ToLobby
<1> HIDE DEF u
<1> QED
  BY <1>1, <1>2, OneIsTold

LEMMA RoomEnterTellsLobby ==
  ASSUME LobbyInv, LobbyInv', NEW s \in Sessions, NEW create \in BOOLEAN,
         NEW n \in Int, RoomEnter(s, create, n),
         RoomEnterError(s, create, n) = "NONE", NEW l \in Lobbies
  PROVE  LobbyTold(l)
<1> DEFINE u == GetUser(s)
<1>1. /\ u \in Users
      /\ user[u].state = "LOBBY" /\ user'[u].state = "ROOM"
      /\ \A v \in Users : v # u => user'[v] = user[v]
  BY RoomEnterEffect DEF LobbyInv
<1>2. ToLobby(Shown(user[u].lobby) \ {u}, "LOBBY_LEAVE_USER_NTF", u, u)
          \subseteq sent'
  BY DEF RoomEnter, Answer
<1> HIDE DEF u
<1>3. ToSessionsOf(Shown(user[u].lobby) \ {u}, "LOBBY_LEAVE_USER_NTF", u,
                   NoRoom, 0) \subseteq sent'
  BY <1>2 DEF ToLobby, ToSessionsOf
<1> QED
  BY <1>1, <1>3, OneIsTold

LEMMA RoomLeaveTellsLobby ==
  ASSUME LobbyInv, LobbyInv', NEW s \in Sessions, RoomLeave(s),
         RoomLeaveError(s) = "NONE", NEW l \in Lobbies
  PROVE  LobbyTold(l)
<1> DEFINE u == GetUser(s)
<1>1. /\ u \in Users
      /\ user[u].state = "ROOM" /\ user'[u].state = "LOBBY"
      /\ user'[u].lobby = user[u].lobby
      /\ \A v \in Users : v # u => user'[v] = user[v]
  BY RoomLeaveEffect DEF LobbyInv
<1>2. ToLobby(Shown(user[u].lobby) \cup {u}, "LOBBY_ENTER_USER_NTF", u, u)
          \subseteq sent'
  BY DEF RoomLeave, Answer
<1> HIDE DEF u
<1>3. ToSessionsOf(Shown(user[u].lobby) \ {u}, "LOBBY_ENTER_USER_NTF", u,
                   NoRoom, 0) \subseteq sent'
  BY <1>2 DEF ToLobby, ToSessionsOf
<1> QED
  BY <1>1, <1>3, OneIsTold

(* When a request makes a user appear in a lobby or vanish from it, all    *)
(* the others shown there are told: PresenceAnnounced.                     *)
THEOREM PresenceTold == Spec => PresenceAnnounced
<1>1. LobbyInv /\ LobbyInv' /\ [Next]_vars =>
          \A l \in Lobbies : \A w \in Shown(l) \cap Shown(l)' :
             /\ \A v \in Shown(l)' \ Shown(l) :
                    Told(w, "LOBBY_ENTER_USER_NTF", v)
             /\ reply' # NoReply =>
                    \A v \in Shown(l) \ Shown(l)' :
                        Told(w, "LOBBY_LEAVE_USER_NTF", v)
  <2> SUFFICES ASSUME LobbyInv, LobbyInv', [Next]_vars, NEW l \in Lobbies
               PROVE  LobbyTold(l)
    BY DEF LobbyTold
  <2>1. CASE UNCHANGED <<user, lobbyUsers>>
    BY <2>1, NobodyIsTold
  <2>2. CASE \E s \in Sessions : Effective(s)
    <3>1. PICK s \in Sessions : Effective(s)
      BY <2>2
    <3>2. CASE CloseSession(s)
      BY <3>2, CloseTellsLobby
    <3>3. CASE \E id \in Ids, key \in Addresses : Login(s, id, key)
      <4>1. PICK id \in Ids, key \in Addresses : Login(s, id, key)
        BY <3>3
      <4>2. CASE AddUserError(key) # "NONE"
        BY <2>1, <4>1, <4>2 DEF Login, Answer, serverVars
      <4> QED
        BY <4>1, <4>2, LoginTellsLobby
    <3>4. CASE \E n \in Int : LobbyEnter(s, n)
      <4>1. PICK n \in Int : LobbyEnter(s, n)
        BY <3>4
      <4>2. CASE LobbyEnterError(s, n) # "NONE"
        BY <2>1, <4>1, <4>2 DEF LobbyEnter, Answer, serverVars
      <4> QED
        BY <4>1, <4>2, LobbyEnterTellsLobby
    <3>5. CASE LobbyLeave(s)
      <4>1. CASE LobbyLeaveError(s) # "NONE"
        BY <2>1, <3>5, <4>1 DEF LobbyLeave, Answer, serverVars
      <4> QED
        BY <3>5, <4>1, LobbyLeaveTellsLobby
    <3>6. CASE \E create \in BOOLEAN, n \in Int : RoomEnter(s, create, n)
      <4>1. PICK create \in BOOLEAN, n \in Int : RoomEnter(s, create, n)
        BY <3>6
      <4>2. CASE RoomEnterError(s, create, n) # "NONE"
        BY <2>1, <4>1, <4>2 DEF RoomEnter, Answer, serverVars
      <4> QED
        BY <4>1, <4>2, RoomEnterTellsLobby
    <3>7. CASE RoomLeave(s)
      <4>1. CASE RoomLeaveError(s) # "NONE"
        BY <2>1, <3>7, <4>1 DEF RoomLeave, Answer, serverVars
      <4> QED
        BY <3>7, <4>1, RoomLeaveTellsLobby
    <3>8. CASE ConnectSession(s) \/ RoomMasterGameStart(s)
      <4>1. UNCHANGED <<user, lobbyUsers>>
        BY <3>8 DEF ConnectSession, RoomMasterGameStart, Answer, serverVars,
                    userManagerVars, lobbyVars
      <4> QED
        BY <2>1, <4>1
    <3> QED
      BY <3>1, <3>2, <3>3, <3>4, <3>5, <3>6, <3>7, <3>8 DEF Effective
  <2> QED
    BY <2>1, <2>2, EffectiveSteps DEF serverVars
<1> QED
  BY <1>1, LobbyInvInit, LobbyInvNext, PTL DEF Spec, PresenceAnnounced

-----------------------------------------------------------------------------
\* Who a chat message that a handler sends goes to.
InPlace(n) ==
    n.pkt \in {"LOBBY_CHAT_NTF", "ROOM_CHAT_NTF"} =>
        LET v == userSessionDic[n.to]
        IN  /\ v # NoUser
            /\ user[v].state = user[n.who].state
            /\ user[v].lobby = user[n.who].lobby
            /\ user[v].state = "ROOM" => user[v].room = user[n.who].room

LEMMA OtherPackets ==
  ASSUME NEW S, NEW pkt, NEW who, NEW r, NEW k,
         pkt \notin {"LOBBY_CHAT_NTF", "ROOM_CHAT_NTF"}
  PROVE  \A n \in ToSessionsOf(S, pkt, who, r, k) : InPlace(n)
BY DEF ToSessionsOf, Ntf, InPlace

\* A message to users who are all where the sender is.
LEMMA ChatPackets ==
  ASSUME LobbyInv, NEW S \in SUBSET Users, NEW who \in Users, NEW pkt,
         Lodges(who),
         \A v \in S : /\ user[v].state = user[who].state
                      /\ user[v].lobby = user[who].lobby
                      /\ user[v].state = "ROOM" =>
                             user[v].room = user[who].room
  PROVE  \A n \in ToSessionsOf(S, pkt, who, NoRoom, 0) : InPlace(n)
<1> SUFFICES ASSUME NEW v \in S
             PROVE  InPlace(Ntf(user[v].session, pkt, who, NoRoom, 0))
  BY DEF ToSessionsOf
<1>1. v \in Users /\ Lodges(v)
  BY DEF Lodges
<1>2. userSessionDic[user[v].session] = v
  BY <1>1 DEF LobbyInv, MemberInv, MembersBound
<1>3. v # NoUser
  BY <1>1 DEF Users, NoUser
<1> DEFINE n == Ntf(user[v].session, pkt, who, NoRoom, 0)
<1>4. userSessionDic[n.to] = v /\ n.who = who
  BY <1>2 DEF Ntf
<1> HIDE DEF n
<1>5. InPlace(n)
  BY <1>3, <1>4 DEF InPlace
<1> QED
  BY <1>5 DEF n

LEMMA LobbyChatInPlace ==
  ASSUME LobbyInv, NEW s \in Sessions, LobbyChat(s)
  PROVE  \A n \in sent' : InPlace(n)
<1>1. CASE LobbyChatError(s) # "NONE"
  BY <1>1 DEF LobbyChat, Answer
<1>2. CASE LobbyChatError(s) = "NONE"
  <2> DEFINE u == GetUser(s)
             l == user[u].lobby
             S == Shown(l) \ {user[u].session}
  <2>1. GetUserError(s) = "NONE" /\ user[u].state = "LOBBY" /\ l \in Lobbies
    BY <1>2 DEF LobbyChatError, InPlaceError
  <2>2. u \in Users
    BY <2>1, GetUserFacts DEF LobbyInv, RoomInv
  <2>3. sent' = ToSessionsOf(S, "LOBBY_CHAT_NTF", u, NoRoom, 0)
    BY <1>2 DEF LobbyChat, Answer, ToLobby
  <2> HIDE DEF u
  <2>4. \A v \in S : v \in Users /\ user[v].state = "LOBBY" /\ user[v].lobby = l
    BY <2>1, ShownExact DEF ShownByState
  <2> HIDE DEF S
  <2> QED
    BY <2>1, <2>2, <2>3, <2>4, ChatPackets DEF Lodges
<1> QED
  BY <1>1, <1>2

LEMMA RoomChatInPlace ==
  ASSUME LobbyInv, NEW s \in Sessions, RoomChat(s)
  PROVE  \A n \in sent' : InPlace(n)
<1> DEFINE err == InRoomError(s, "ROOM_CHAT_INVALID_DOServerHost",
                              "ROOM_CHAT_INVALID_LOBBY_INDEX",
                              "ROOM_ENTER_INVALID_ROOM_INDEX")
<1>1. CASE err # "NONE"
  BY <1>1 DEF RoomChat, Answer
<1>2. CASE err = "NONE"
  <2> DEFINE u == GetUser(s)
             S == Range(RoomOf(u).users) \ {user[u].session}
  <2>1. /\ GetUserError(s) = "NONE" /\ user[u].state = "ROOM"
        /\ user[u].lobby \in Lobbies /\ user[u].room \in Rooms
    BY <1>2 DEF InRoomError, InPlaceError
  <2>2. u \in Users
    BY <2>1, GetUserFacts DEF LobbyInv, RoomInv
  <2>3. sent' = ToSessionsOf(S, "ROOM_CHAT_NTF", u, NoRoom, 0)
    BY <1>2 DEF RoomChat, Answer, ToRoom
  <2> HIDE DEF u
  <2>4. RoomOf(u) \in RoomRecord
    BY <2>1 DEF RoomOf, LobbyInv, RoomInv, StateTypes
  <2>5. \A v \in S : v \in Users /\ v \in Range(RoomOf(u).users)
    BY <2>4 DEF RoomRecord, Range
  <2>6. \A v \in S : /\ v \in Users /\ user[v].state = "ROOM"
                     /\ user[v].lobby = user[u].lobby
                     /\ user[v].room = user[u].room
    BY <2>1, <2>5 DEF RoomOf, LobbyInv, RoomInv, RoomMembership, RoomHolds
  <2> HIDE DEF S
  <2> QED
    BY <2>1, <2>2, <2>3, <2>6, ChatPackets DEF Lodges
<1> QED
  BY <1>1, <1>2

\* What the other handlers send is no chat message.
LEMMA OthersInPlace ==
  ASSUME NEW s \in Sessions,
         \/ ConnectSession(s) \/ CloseSession(s) \/ DevEcho(s)
         \/ \E id \in Ids, key \in Addresses : Login(s, id, key)
         \/ LobbyList(s)
         \/ \E l \in Int : LobbyEnter(s, l)
         \/ LobbyLeave(s)
         \/ \E start \in Int : LobbyRoomList(s, start) \/ LobbyUserList(s, start)
         \/ \E key \in Addresses : LobbyWisper(s, key)
         \/ \E r \in Int, create \in BOOLEAN : RoomEnter(s, create, r)
         \/ RoomLeave(s)
         \/ RoomMasterGameStart(s)
         \/ RoomGameStart(s)
  PROVE  \A n \in sent' : InPlace(n)
<1> SUFFICES ASSUME NEW n \in sent' PROVE InPlace(n)
  OBVIOUS
<1> DEFINE OneOf(pkts) == \E S, pkt, who, r, k :
                              /\ pkt \in pkts
                              /\ n \in ToSessionsOf(S, pkt, who, r, k)
           Pkts == {"LOBBY_ENTER_USER_NTF", "LOBBY_LEAVE_USER_NTF",
                    "LOBBY_WISPER_NTF", "ROOM_ENTER_USER_NTF",
                    "ROOM_LEAVE_USER_NTF", "ROOM_CHANGED_INFO_NTF",
                    "ROOM_MASTER_GAME_START_NTF"}
<1>1. sent' # {}
  OBVIOUS
<1>2. OneOf(Pkts)
  <2>1. CASE \/ ConnectSession(s) \/ DevEcho(s)
             \/ \E id \in Ids, key \in Addresses : Login(s, id, key)
             \/ LobbyList(s)
             \/ \E start \in Int :
                    LobbyRoomList(s, start) \/ LobbyUserList(s, start)
             \/ RoomGameStart(s)
    BY <1>1, <2>1 DEF ConnectSession, DevEcho, Login, LobbyList, LobbyRoomList,
                      LobbyUserList, SendList, RoomGameStart, Answer
  <2>2. CASE \E l \in Int : LobbyEnter(s, l)
    BY <1>1, <2>2 DEF LobbyEnter, Answer, AnnounceEnter, ToLobby
  <2>3. CASE LobbyLeave(s)
    BY <1>1, <2>3 DEF LobbyLeave, Answer, ToLobby
  <2>4. CASE \E key \in Addresses : LobbyWisper(s, key)
    BY <1>1, <2>4 DEF LobbyWisper, Answer
  <2>5. CASE \E r \in Int, create \in BOOLEAN : RoomEnter(s, create, r)
    BY <1>1, <2>5 DEF RoomEnter, Answer, ToLobby, ToRoom, NotifyChangedRoomInfo
  <2>6. CASE RoomLeave(s)
    BY <1>1, <2>6 DEF RoomLeave, Answer, ToLobby, ToRoom, NotifyChangedRoomInfo
  <2>7. CASE RoomMasterGameStart(s)
    BY <1>1, <2>7 DEF RoomMasterGameStart, Answer, ToRoom
  <2>8. CASE CloseSession(s)
    <3>1. \E u, l : CloseInLobby(u, l)
      BY <1>1, <2>8 DEF CloseSession
    <3> QED
      BY <3>1 DEF CloseInLobby, ToLobby, ToRoom, NotifyChangedRoomInfo
  <2> QED
    BY <2>1, <2>2, <2>3, <2>4, <2>5, <2>6, <2>7, <2>8
<1> QED
  BY <1>2, OtherPackets

(* A chat message reaches only users who are where its sender is, through  *)
(* the sessions they are logged in with: ChatStaysInPlace.                 *)
THEOREM ChatStays == Spec => ChatStaysInPlace
<1>1. LobbyInv /\ [Next]_vars =>
          [\A n \in sent' :
               n.pkt \in {"LOBBY_CHAT_NTF", "ROOM_CHAT_NTF"} =>
                   LET v == userSessionDic[n.to]
                   IN  /\ v # NoUser
                       /\ user[v].state = user[n.who].state
                       /\ user[v].lobby = user[n.who].lobby
                       /\ user[v].state = "ROOM" =>
                              user[v].room = user[n.who].room]_vars
  <2> SUFFICES ASSUME LobbyInv, Next PROVE \A n \in sent' : InPlace(n)
    BY DEF InPlace
  <2>1. PICK s \in Sessions :
            ConnectSession(s) \/ CloseSession(s) \/ ClientPacket(s)
    BY DEF Next
  <2>2. CASE ConnectSession(s) \/ CloseSession(s)
    BY <2>2, OthersInPlace
  <2>3. CASE ClientPacket(s)
    <3> USE LobbyAssumption
    <3>1. /\ \A o \in Offsets : <<s, o>> \in Addresses
          /\ \A n \in 0 .. MaxRoomCountByLobby : n \in Int
          /\ \A n \in 0 .. MaxLobbyCount : n \in Int
          /\ \A n \in 0 .. MaxLobbyUserCount : n \in Int
      BY DEF Addresses
    <3>2. CASE \/ DevEcho(s) \/ LobbyList(s)
               \/ \E id \in Ids, o \in Offsets : Login(s, id, <<s, o>>)
      BY <3>1, <3>2, OthersInPlace
    <3>3. CASE \/ \E l \in 0 .. MaxLobbyCount : LobbyEnter(s, l)
               \/ LobbyLeave(s)
               \/ \E r \in 0 .. MaxRoomCountByLobby, create \in BOOLEAN :
                      RoomEnter(s, create, r)
               \/ RoomLeave(s)
      BY <3>1, <3>3, OthersInPlace
    <3>4. CASE \/ \E o \in Offsets : LobbyWisper(s, <<s, o>>)
               \/ \E start \in 0 .. MaxRoomCountByLobby :
                      LobbyRoomList(s, start)
               \/ \E start \in 0 .. MaxLobbyUserCount : LobbyUserList(s, start)
      BY <3>1, <3>4, OthersInPlace
    <3>5. CASE RoomMasterGameStart(s) \/ RoomGameStart(s)
      BY <3>5, OthersInPlace
    <3>6. CASE LobbyChat(s)
      BY <3>6, LobbyChatInPlace
    <3>7. CASE RoomChat(s)
      BY <3>7, RoomChatInPlace
    <3> QED
      BY <2>3, <3>2, <3>3, <3>4, <3>5, <3>6, <3>7 DEF ClientPacket
  <2> QED
    BY <2>1, <2>2, <2>3
<1> QED
  BY <1>1, LobbyInvInit, LobbyInvNext, PTL DEF Spec, ChatStaysInPlace
=============================================================================
