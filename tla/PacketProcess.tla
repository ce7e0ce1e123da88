--------------------------- MODULE PacketProcess ---------------------------
(***************************************************************************)
(* LogicLib::PacketProcess: the handlers that the logic thread runs, one at*)
(* a time, on the packets it takes from the network's queue. Each action   *)
(* is one handler, up to and including the packets it sends.               *)
(*                                                                         *)
(* The queue should hold, for each session, a CONNECT, then the client's   *)
(* packets, then a CLOSE. It need not: recvBufferProcess queues whatever id*)
(* a client's header has, those of CONNECT and CLOSE too, and a close by   *)
(* the logic thread may let the next connection's CONNECT in first. The    *)
(* handlers test none of this, so here any packet of any session may come  *)
(* at any time. (An id outside PacketFuncArray has no defined effect.)     *)
(***************************************************************************)
EXTENDS Lobby, ListPaging

VARIABLES
    connectedUser,   \* ConnectedUserManager::_connectedUserList
    early,           \* history: the sessions whose requests have been handled
                     \* with no connect mark, since their last CONNECT or CLOSE
    reply,           \* the response the last handler sent to its requester
    sent             \* the notifications the last handler sent

serverVars == <<user, freeUsers, userSessionDic, userIDDic,
                lobbyUsers, lobbySlots, room, connectedUser>>
vars == <<user, freeUsers, userSessionDic, userIDDic,
          lobbyUsers, lobbySlots, room, connectedUser, early, reply, sent>>

ConnectedUser == [connected : BOOLEAN,    \* _connectedTime # 0
                  login     : BOOLEAN]    \* _isLoginSuccess

NotConnected == [connected |-> FALSE, login |-> FALSE]

NoReply == [to |-> NoIndex, pkt |-> "NONE", err |-> "NONE"]

Init ==
    /\ UserManagerInit
    /\ LobbyInit
    /\ connectedUser = [s \in Sessions |-> NotConnected]
    /\ early = {}
    /\ reply = NoReply
    /\ sent = {}
-----------------------------------------------------------------------------
\* Every handler of a request answers with its error and does nothing, or
\* takes effect and answers NONE.
Answer(s, pkt, err, effect) ==
    /\ reply' = [to |-> s, pkt |-> pkt, err |-> err]
    /\ IF err = "NONE" THEN effect ELSE sent' = {} /\ UNCHANGED serverVars

\* GetUser, the check of the user's state, and GetLobby of where it is.
InPlaceError(s, state, badState, badLobby) ==
    IF GetUserError(s) # "NONE" THEN GetUserError(s)
    ELSE IF user[GetUser(s)].state # state THEN badState
    ELSE IF user[GetUser(s)].lobby \notin Lobbies THEN badLobby
    ELSE "NONE"

\* The same for a user in a room, with GetRoom of the room it is in.
InRoomError(s, badState, badLobby, badRoom) ==
    IF InPlaceError(s, "ROOM", badState, badLobby) # "NONE"
    THEN InPlaceError(s, "ROOM", badState, badLobby)
    ELSE IF user[GetUser(s)].room \notin Rooms THEN badRoom
    ELSE "NONE"

RoomOf(u) == room[user[u].lobby][user[u].room]
-----------------------------------------------------------------------------
\* SetDisConnectSession.
ForgetConnect(s) == [connectedUser EXCEPT ![s].connected = FALSE]
SetDisconnected(s) == [connectedUser EXCEPT ![s] = NotConnected]

ConnectSession(s) ==
    /\ connectedUser' = [connectedUser EXCEPT ![s].connected = TRUE]
    /\ early' = early \ {s}
    /\ reply' = NoReply /\ sent' = {}
    /\ UNCHANGED <<userManagerVars, lobbyVars>>

\* The lobby and the room are those of the stored indices, which LeaveLobby
\* and the return from a room to its lobby leave in place.
CloseInLobby(u, l) ==
    LET r  == GetRoom(user[u].room)
        rm == LeaveRoom(room[l][r], u)
    IN  /\ lobbyUsers' = RemoveMember(l, u)
        /\ lobbySlots' = RemoveFromSlots(l, u)
        /\ IF r = NoRoom
           THEN /\ sent' = ToLobby(Shown(l), "LOBBY_LEAVE_USER_NTF", u, u)
                /\ UNCHANGED room
           ELSE /\ room' = [room EXCEPT ![l][r] = rm]
                /\ sent' = ToRoom(rm, "ROOM_LEAVE_USER_NTF", u, NoUser)
                           \cup NotifyChangedRoomInfo(Shown(l), r, rm)

CloseSession(s) ==
    /\ IF GetUser(s) # NoUser /\ user[GetUser(s)].lobby \in Lobbies
       THEN CloseInLobby(GetUser(s), user[GetUser(s)].lobby)
       ELSE sent' = {} /\ UNCHANGED lobbyVars
    /\ IF GetUser(s) # NoUser
       THEN RemoveUser(s)
       ELSE UNCHANGED userManagerVars
    /\ connectedUser' = SetDisconnected(s)
    /\ early' = early \ {s}
    /\ reply' = NoReply

DevEcho(s) ==
    /\ reply' = [to |-> s, pkt |-> "DEV_ECHO_RES", err |-> "NONE"]
    /\ sent' = {} /\ UNCHANGED serverVars
-----------------------------------------------------------------------------
Login(s, id, key) ==
    Answer(s, "LOGIN_IN_RES", AddUserError(key),
           /\ AddUser(s, id, key)
           /\ connectedUser' = [connectedUser EXCEPT ![s].login = TRUE]
           /\ sent' = {} /\ UNCHANGED lobbyVars)

LobbyList(s) ==
    Answer(s, "LOBBY_LIST_RES",
           IF GetUserError(s) # "NONE" THEN GetUserError(s)
           ELSE IF user[GetUser(s)].state # "LOGIN"
           THEN "LOBBY_LIST_INVALID_DOServerHost" ELSE "NONE",
           sent' = {} /\ UNCHANGED serverVars)
-----------------------------------------------------------------------------
LobbyEnterError(s, l) ==
    IF GetUserError(s) # "NONE" THEN GetUserError(s)
    ELSE IF user[GetUser(s)].state # "LOGIN"
    THEN "LOBBY_ENTER_INVALID_DOServerHost"
    ELSE IF l \notin Lobbies THEN "LOBBY_ENTER_INVALID_LOBBY_INDEX"
    ELSE EnterLobbyError(l, GetUser(s))

AnnounceBefore(l, u) == {}
AnnounceEnter(l, u) == ToLobby(Shown(l), "LOBBY_ENTER_USER_NTF", u, u)

LobbyEnter(s, l) ==
    Answer(s, "LOBBY_ENTER_RES", LobbyEnterError(s, l),
           /\ EnterLobby(l, GetUser(s))
           /\ sent' = AnnounceEnter(l, GetUser(s))
           /\ UNCHANGED <<freeUsers, userSessionDic, userIDDic, room,
                          connectedUser>>)

LobbyLeaveError(s) ==
    LET err == InPlaceError(s, "LOBBY", "LOBBY_LEAVE_INVALID_DOServerHost",
                            "LOBBY_LEAVE_INVALID_LOBBY_INDEX")
    IN  IF err # "NONE" THEN err
        ELSE LeaveLobbyError(user[GetUser(s)].lobby, GetUser(s))

\* Lobby::LeaveUser empties the slot before it looks for the user in the map.
LobbyLeave(s) ==
    LET u   == GetUser(s)
        l   == user[u].lobby
        err == LobbyLeaveError(s)
    IN  /\ reply' = [to |-> s, pkt |-> "LOBBY_LEAVE_RES", err |-> err]
        /\ lobbySlots' = IF err \in {"NONE", NotMember}
                         THEN RemoveFromSlots(l, u) ELSE lobbySlots
        /\ IF err = "NONE"
           THEN /\ user' = [user EXCEPT ![u] = OutOfLobby(u)]
                /\ lobbyUsers' = RemoveMember(l, u)
                /\ sent' = ToLobby(Shown(l), "LOBBY_LEAVE_USER_NTF", u, u)
           ELSE sent' = {} /\ UNCHANGED <<user, lobbyUsers>>
        /\ UNCHANGED <<freeUsers, userSessionDic, userIDDic, room,
                       connectedUser>>

\* The start index is SendRoomList's and SendUserList's only error; they drop
\* it, and then no response is sent at all. RoomListing models the pages.
SendList(s, pkt, err, refused) ==
    /\ reply' = IF err = "NONE" /\ refused THEN NoReply
                ELSE [to |-> s, pkt |-> pkt, err |-> err]
    /\ sent' = {} /\ UNCHANGED serverVars

LobbyRoomList(s, start) ==
    SendList(s, "LOBBY_ENTER_ROOM_LIST_RES",
             InPlaceError(s, "LOBBY", "LOBBY_ROOM_LIST_INVALID_DOServerHost",
                          "LOBBY_ROOM_LIST_INVALID_LOBBY_INDEX"),
             StartRefused(start, MaxRoomCountByLobby))

LobbyUserList(s, start) ==
    SendList(s, "LOBBY_ENTER_USER_LIST_RES",
             InPlaceError(s, "LOBBY", "LOBBY_USER_LIST_INVALID_DOServerHost",
                          "LOBBY_USER_LIST_INVALID_LOBBY_INDEX"),
             StartRefused(start, MaxLobbyUserCount))
-----------------------------------------------------------------------------
LobbyChatError(s) ==
    InPlaceError(s, "LOBBY", "LOBBY_CHAT_INVALID_DOServerHost",
                 "LOBBY_CHAT_INVALID_LOBBY_INDEX")

\* NotifyChat hands its caller's session index to sendToAllUser, which takes
\* it for the user index to leave out.
LobbyChat(s) ==
    LET u == GetUser(s)
    IN  Answer(s, "LOBBY_CHAT_RES", LobbyChatError(s),
               /\ sent' = ToLobby(Shown(user[u].lobby), "LOBBY_CHAT_NTF",
                                  u, user[u].session)
               /\ UNCHANGED serverVars)

LobbyWisper(s, address) ==
    LET u == GetUser(s)
    IN  Answer(s, "LOBBY_WISPER_RES", LobbyChatError(s),
               /\ sent' = ToSessionsOf(WhisperTo(user[u].lobby, address),
                                       "LOBBY_WISPER_NTF", u, NoRoom, 0)
               /\ UNCHANGED serverVars)
-----------------------------------------------------------------------------
\* The room a ROOM_ENTER_REQ is for: the first unused one, or the one named.
RoomToEnter(l, create, r) == IF create THEN CreateRoom(l) ELSE GetRoom(r)

RoomToEnterRecord(l, create, r) ==
    LET rm == room[l][RoomToEnter(l, create, r)]
    IN  IF create THEN CreatedRoom(rm) ELSE rm

RoomEnterError(s, create, r) ==
    LET err == InPlaceError(s, "LOBBY", "ROOM_ENTER_INVALID_DOServerHost",
                            "ROOM_ENTER_INVALID_LOBBY_INDEX")
        l   == user[GetUser(s)].lobby
    IN  IF err # "NONE" THEN err
        ELSE IF RoomToEnter(l, create, r) = NoRoom
        THEN IF create THEN "ROOM_ENTER_EMPTY_ROOM"
             ELSE "ROOM_ENTER_INVALID_ROOM_INDEX"
        ELSE IF create /\ CreateRoomError(room[l][CreateRoom(l)]) # "NONE"
        THEN CreateRoomError(room[l][CreateRoom(l)])
        ELSE EnterRoomError(RoomToEnterRecord(l, create, r))

\* EnterRoom, and EnterLobby in RoomLeave, come before the notifications: the
\* user is then no more, or again, among those shown in the lobby.
RoomEnter(s, create, r) ==
    LET u    == GetUser(s)
        l    == user[u].lobby
        rIn  == RoomToEnter(l, create, r)
        rm   == EnterRoom(RoomToEnterRecord(l, create, r), u)
        shown == Shown(l) \ {u}
    IN  Answer(s, "ROOM_ENTER_RES", RoomEnterError(s, create, r),
               /\ user' = [user EXCEPT ![u] = InRoom(u, l, rIn)]
               /\ room' = [room EXCEPT ![l][rIn] = rm]
               /\ UNCHANGED <<freeUsers, userSessionDic, userIDDic,
                              lobbyUsers, lobbySlots, connectedUser>>
               /\ sent' = ToLobby(shown, "LOBBY_LEAVE_USER_NTF", u, u)
                          \cup NotifyChangedRoomInfo(shown, rIn, rm)
                          \cup ToRoom(rm, "ROOM_ENTER_USER_NTF", u, u))

RoomLeaveError(s) ==
    LET err == InRoomError(s, "ROOM_LEAVE_INVALID_DOServerHost",
                           "ROOM_ENTER_INVALID_LOBBY_INDEX",
                           "ROOM_ENTER_INVALID_ROOM_INDEX")
    IN  IF err # "NONE" THEN err
        ELSE LeaveRoomError(RoomOf(GetUser(s)), GetUser(s))

RoomLeave(s) ==
    LET u  == GetUser(s)
        l  == user[u].lobby
        r  == user[u].room
        rm == LeaveRoom(RoomOf(u), u)
        shown == Shown(l) \cup {u}
    IN  Answer(s, "ROOM_LEAVE_RES", RoomLeaveError(s),
               /\ user' = [user EXCEPT ![u] = InLobby(u, l)]
               /\ room' = [room EXCEPT ![l][r] = rm]
               /\ UNCHANGED <<freeUsers, userSessionDic, userIDDic,
                              lobbyUsers, lobbySlots, connectedUser>>
               /\ sent' = ToRoom(rm, "ROOM_LEAVE_USER_NTF", u, NoUser)
                          \cup ToLobby(shown, "LOBBY_ENTER_USER_NTF", u, u)
                          \cup NotifyChangedRoomInfo(shown, r, rm))

RoomChat(s) ==
    LET u == GetUser(s)
    IN  Answer(s, "ROOM_CHAT_RES",
               InRoomError(s, "ROOM_CHAT_INVALID_DOServerHost",
                           "ROOM_CHAT_INVALID_LOBBY_INDEX",
                           "ROOM_ENTER_INVALID_ROOM_INDEX"),
               /\ sent' = ToRoom(RoomOf(u), "ROOM_CHAT_NTF", u,
                                 user[u].session)
               /\ UNCHANGED serverVars)
-----------------------------------------------------------------------------
GameStartError(s) ==
    InRoomError(s, "ROOM_MASTER_GAME_START_INVALID_DOServerHost",
                "ROOM_MASTER_GAME_START_INVALID_LOBBY_INDEX",
                "ROOM_MASTER_GAME_START_INVALID_ROOM_INDEX")

MasterGameStartError(s) ==
    LET rm == RoomOf(GetUser(s))
    IN  IF GameStartError(s) # "NONE" THEN GameStartError(s)
        ELSE IF ~IsMaster(rm, GetUser(s))
        THEN "ROOM_MASTER_GAME_START_INVALID_MASTER"
        ELSE IF Len(rm.users) # 2
        THEN "ROOM_MASTER_GAME_START_INVALID_USER_COUNT"
        ELSE IF rm.game # "NONE"
        THEN "ROOM_MASTER_GAME_START_INVALID_GAME_STATE"
        ELSE "NONE"

RoomMasterGameStart(s) ==
    LET u == GetUser(s)
    IN  Answer(s, "ROOM_MASTER_GAME_START_RES", MasterGameStartError(s),
               /\ room' = [room EXCEPT ![user[u].lobby][user[u].room] =
                               Started(@)]
               /\ sent' = ToRoom(RoomOf(u), "ROOM_MASTER_GAME_START_NTF",
                                 NoUser, u)
               /\ UNCHANGED <<userManagerVars, lobbyUsers, lobbySlots,
                              connectedUser>>)

RoomGameStart(s) ==
    Answer(s, "ROOM_GAME_START_RES",
           IF GameStartError(s) # "NONE" THEN GameStartError(s)
           ELSE IF RoomOf(GetUser(s)).game # "STARTTING"
           THEN "ROOM_MASTER_GAME_START_INVALID_GAME_STATE" ELSE "NONE",
           sent' = {} /\ UNCHANGED serverVars)
-----------------------------------------------------------------------------
\* A request, of a session that is connected or not; indices a client may
\* send are those of the lobbies and rooms, and the one beyond.
ClientPacket(s) ==
    /\ early' = IF connectedUser[s].connected THEN early ELSE early \cup {s}
    /\ \/ DevEcho(s)
       \/ \E id \in Ids, o \in Offsets : Login(s, id, <<s, o>>)
       \/ LobbyList(s)
       \/ \E l \in 0 .. MaxLobbyCount : LobbyEnter(s, l)
       \/ LobbyLeave(s)
       \/ \E start \in 0 .. MaxRoomCountByLobby : LobbyRoomList(s, start)
       \/ \E start \in 0 .. MaxLobbyUserCount : LobbyUserList(s, start)
       \/ LobbyChat(s)
       \/ \E o \in Offsets : LobbyWisper(s, <<s, o>>)
       \/ \E r \in 0 .. MaxRoomCountByLobby, create \in BOOLEAN :
              RoomEnter(s, create, r)
       \/ RoomLeave(s)
       \/ RoomChat(s)
       \/ RoomMasterGameStart(s)
       \/ RoomGameStart(s)

Next ==
    \E s \in Sessions :
        \/ ConnectSession(s)
        \/ CloseSession(s)
        \/ ClientPacket(s)

Spec == Init /\ [][Next]_vars
-----------------------------------------------------------------------------
(* Type invariant of the server's state, with the capacities of lobbies    *)
(* and rooms.                                                              *)
ServerTypeOK ==
    /\ UserManagerTypeOK
    /\ lobbyUsers \in [Lobbies -> SUBSET Users]
    /\ lobbySlots \in [Lobbies -> [Slots -> Users \cup {NoUser}]]
    /\ room \in [Lobbies -> [Rooms -> RoomRecord]]
    /\ connectedUser \in [Sessions -> ConnectedUser]
    /\ early \subseteq Sessions
    /\ \A l \in Lobbies :
        /\ Cardinality(lobbyUsers[l]) <= MaxLobbyUserCount
        /\ \A r \in Rooms : Len(room[l][r].users) <= MaxRoomUserCount

(* The three places that say which lobby a user is in agree: the map of    *)
(* the lobby, exactly one of its slots, and the user's own state. EnterUser*)
(* relies on it to find a slot whenever the map has space.                 *)
LobbyMembership ==
    \A l \in Lobbies, u \in Users :
        u \in lobbyUsers[l] <=> /\ user[u].state \in {"LOBBY", "ROOM"}
                               /\ user[u].lobby = l

OneSlotEach ==
    \A l \in Lobbies, u \in Users :
        Cardinality({i \in Slots : lobbySlots[l][i] = u})
            = (IF u \in lobbyUsers[l] THEN 1 ELSE 0)

LobbyIndexesAgree == LobbyMembership /\ OneSlotEach

(* A room's vector holds exactly the users whose state puts them there,    *)
(* each once, and the room is in use just while somebody is in it: every   *)
(* handler that runs IsMaster finds a front.                               *)
RoomHolds(l, r) ==
    \A u \in Users :
        u \in Range(room[l][r].users) <=> /\ user[u].state = "ROOM"
                                         /\ user[u].lobby = l
                                         /\ user[u].room = r

NoRepeat(users) ==
    \A i, j \in DOMAIN users : users[i] = users[j] => i = j

RoomMembership ==
    \A l \in Lobbies, r \in Rooms :
        /\ RoomHolds(l, r)
        /\ NoRepeat(room[l][r].users)
        /\ room[l][r].used <=> room[l][r].users # <<>>

(* Whoever is in a lobby is the user of its session: a CLOSE, even of a    *)
(* session that logged in twice, leaves nobody behind, and no packet goes  *)
(* to a session through a User of an earlier connection. And the session   *)
(* is marked connected, unless requests were handled that came while it    *)
(* was not (after a CLOSE of the client's own, say): nothing refuses them. *)
MembersOnline ==
    \A l \in Lobbies : \A u \in lobbyUsers[l] :
        LET s == user[u].session
        IN  /\ userSessionDic[s] = u
            /\ connectedUser[s].connected \/ s \in early

(* ConnectedUserManager's login mark and UserManager's session map, kept by*)
(* different handlers, agree, in whatever order packets come; so the mark  *)
(* of a closed session is cleared. And only a session marked connected is  *)
(* marked logged in, unless its login came while it was not.               *)
MarksMatch ==
    \A s \in Sessions : connectedUser[s].login <=> userSessionDic[s] # NoUser

LoginConnected ==
    \A s \in Sessions :
        connectedUser[s].login => connectedUser[s].connected \/ s \in early

LoginMarkAgrees == MarksMatch /\ LoginConnected

Told(w, pkt, who) == Ntf(user'[w].session, pkt, who, NoRoom, 0) \in sent'

(* Whenever the members of a room change, by a request or by a disconnect, *)
(* every user then shown in the lobby receives the new number.             *)
RoomChangesAnnounced ==
    [][\A l \in Lobbies, r \in Rooms :
         room'[l][r].users # room[l][r].users =>
             \A w \in Shown(l)' :
                 Ntf(user'[w].session, "ROOM_CHANGED_INFO_NTF", NoUser, r,
                     Len(room'[l][r].users)) \in sent']_vars

(* Requests keep the clients' view of a lobby exact: when one makes a user *)
(* appear in it or vanish from it, all the others shown there are told.    *)
PresenceAnnounced ==
    [][\A l \in Lobbies : \A w \in Shown(l) \cap Shown(l)' :
         /\ \A v \in Shown(l)' \ Shown(l) : Told(w, "LOBBY_ENTER_USER_NTF", v)
         /\ reply' # NoReply =>
                \A v \in Shown(l) \ Shown(l)' :
                    Told(w, "LOBBY_LEAVE_USER_NTF", v)]_vars

(* A room passes to the member who is there longest: the master changes    *)
(* only when he leaves, and then to the one who was second.                *)
MasterSuccession ==
    [][\A l \in Lobbies, r \in Rooms :
         LET old == room[l][r].users
             new == room'[l][r].users
         IN  old # <<>> /\ new # <<>> =>
                 \/ new[1] = old[1]
                 \/ /\ old[1] \notin Range(new)
                    /\ new[1] = old[2]]_vars

(* Neither leaving a room nor closing it ends its game: once started, a    *)
(* room has a started game for ever, for all its later members too.        *)
GameNeverEnds ==
    [][\A l \in Lobbies, r \in Rooms :
         room[l][r].game # "NONE" => room'[l][r].game = room[l][r].game]_vars

(* A chat message reaches only those who are where its sender is: in the   *)
(* same lobby and no room, or in the same room.                            *)
ChatStaysInPlace ==
    [][\A n \in sent' :
         n.pkt \in {"LOBBY_CHAT_NTF", "ROOM_CHAT_NTF"} =>
             LET v == userSessionDic[n.to]
             IN  /\ v # NoUser
                 /\ user[v].state = user[n.who].state
                 /\ user[v].lobby = user[n.who].lobby
                 /\ user[v].state = "ROOM" => user[v].room = user[n.who].room
      ]_vars

(* The handlers' defensive checks never fire: an index stored in a User is *)
(* always good, and the maps and lists never contradict each other.        *)
DefensiveErrors ==
    {"USER_MGR_NOT_CONFIRM_USER", "LOBBY_ENTER_USER_DUPLICATION",
     "LOBBY_ENTER_EMPTY_USER_LIST", "LOBBY_ROOM_LIST_INVALID_LOBBY_INDEX",
     "LOBBY_USER_LIST_INVALID_LOBBY_INDEX", "LOBBY_LEAVE_INVALID_LOBBY_INDEX",
     "LOBBY_LEAVE_USER_NVALID_UNIQUEINDEX", "ROOM_ENTER_INVALID_LOBBY_INDEX",
     "ROOM_ENTER_CREATE_FAIL", "ROOM_LEAVE_NOT_MEMBER",
     "ROOM_CHAT_INVALID_LOBBY_INDEX", "LOBBY_CHAT_INVALID_LOBBY_INDEX",
     "ROOM_MASTER_GAME_START_INVALID_LOBBY_INDEX",
     "ROOM_MASTER_GAME_START_INVALID_ROOM_INDEX"}

NoDefensiveError ==
    [][/\ reply'.err \notin DefensiveErrors
       /\ reply'.err = "ROOM_ENTER_INVALID_ROOM_INDEX"
             => reply'.pkt = "ROOM_ENTER_RES"
       /\ reply'.err = "ROOM_ENTER_NOT_CREATED"
             => reply'.pkt = "ROOM_ENTER_RES"]_vars

(* What the lobbies' maps and the rooms' vectors say of where users are    *)
(* changes as in Presence: nobody is in two lobbies or rooms, a handler    *)
(* moves one user one step, and no handler lets one in past the capacity.  *)
Whereabouts == INSTANCE Presence WITH
    People <- Users, Halls <- Lobbies, Chambers <- Rooms,
    HallPlaces <- MaxLobbyUserCount, ChamberPlaces <- MaxRoomUserCount,
    at <- [u \in Users |->
              {<<l>> : l \in {l \in Lobbies : u \in lobbyUsers[l]}}
              \cup {p \in Lobbies \X Rooms : u \in Range(room[p[1]][p[2]].users)}]

ImplementsPresence == Whereabouts!Spec

(* Packet.h:120, "a user leaves the lobby, told to the users in the lobby":*)
(* PresenceAnnounced for a disconnect too.                                 *)
LobbyLeaveAnnounced ==
    [][\A l \in Lobbies : \A w \in Shown(l) \cap Shown(l)' :
         \A v \in Shown(l) \ Shown(l)' :
             Told(w, "LOBBY_LEAVE_USER_NTF", v)]_vars
=============================================================================
