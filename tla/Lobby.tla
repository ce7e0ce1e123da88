------------------------------- MODULE Lobby -------------------------------
(***************************************************************************)
(* LogicLib::LobbyManager and its Lobby objects: the slots of the user     *)
(* list, the members by user index, the rooms; and who receives what a     *)
(* lobby or a room sends to its users.                                     *)
(***************************************************************************)
EXTENDS Room

CONSTANTS
    MaxLobbyCount,
    MaxLobbyUserCount,
    MaxRoomCountByLobby

ASSUME LobbyAssumption ==
    /\ MaxLobbyCount \in Nat
    /\ MaxLobbyUserCount \in Nat
    /\ MaxRoomCountByLobby \in Nat

Lobbies == 0 .. MaxLobbyCount - 1
Slots   == 0 .. MaxLobbyUserCount - 1
Rooms   == 0 .. MaxRoomCountByLobby - 1
NoRoom  == -1          \* nullptr of a Room*

VARIABLES
    lobbyUsers,   \* _userIndexDic: the users of each lobby, also those in rooms
    lobbySlots,   \* _userList: the user of each slot, or NoUser
    room          \* _roomList

lobbyVars == <<lobbyUsers, lobbySlots, room>>

LobbyInit ==
    /\ lobbyUsers = [l \in Lobbies |-> {}]
    /\ lobbySlots = [l \in Lobbies |-> [i \in Slots |-> NoUser]]
    /\ room = [l \in Lobbies |-> [r \in Rooms |-> NewRoom]]
-----------------------------------------------------------------------------
InLobby(u, l) == [user[u] EXCEPT !.lobby = l, !.state = "LOBBY"]
InRoom(u, l, r) == [user[u] EXCEPT !.lobby = l, !.room = r, !.state = "ROOM"]
OutOfLobby(u) == [user[u] EXCEPT !.state = "LOGIN"]   \* keeps both indices

First(S) == CHOOSE i \in S : \A j \in S : i <= j

EmptySlots(l) == {i \in Slots : lobbySlots[l][i] = NoUser}

EnterLobbyError(l, u) ==
    IF Cardinality(lobbyUsers[l]) >= MaxLobbyUserCount
    THEN "LOBBY_ENTER_MAX_USER_COUNT"
    ELSE IF u \in lobbyUsers[l] THEN "LOBBY_ENTER_USER_DUPLICATION"
    ELSE IF EmptySlots(l) = {} THEN "LOBBY_ENTER_EMPTY_USER_LIST"
    ELSE "NONE"

\* Lobby::EnterUser, past its errors.
EnterLobby(l, u) ==
    /\ user' = [user EXCEPT ![u] = InLobby(u, l)]
    /\ lobbyUsers' = [lobbyUsers EXCEPT ![l] = @ \cup {u}]
    /\ lobbySlots' = [lobbySlots EXCEPT ![l][First(EmptySlots(l))] = u]

NotMember == "LOBBY_LEAVE_USER_NVALID_UNIQUEINDEX"
LeaveLobbyError(l, u) == IF u \in lobbyUsers[l] THEN "NONE" ELSE NotMember

\* Lobby::LeaveUser empties the slot (removeUser) before it looks for the user
\* in _userIndexDic, so also when it then reports an error.
KeepSlot(l, u) == lobbySlots
RemoveFromSlots(l, u) ==
    [lobbySlots EXCEPT ![l] =
        [i \in Slots |->
            IF /\ @[i] = u
               /\ \A j \in Slots : @[j] = u => i <= j
            THEN NoUser ELSE @[i]]]

KeepMember(l, u) == lobbyUsers
RemoveMember(l, u) == [lobbyUsers EXCEPT ![l] = @ \ {u}]

\* CreateRoom: the first room that is not used; GetRoom: by index.
UnusedRooms(l) == {r \in Rooms : ~room[l][r].used}
CreateRoom(l) == IF UnusedRooms(l) = {} THEN NoRoom ELSE First(UnusedRooms(l))
GetRoom(r) == IF r \in Rooms THEN r ELSE NoRoom
-----------------------------------------------------------------------------
\* One packet to one session: who it is about, or which room, and the number
\* of the room's members.
Ntf(to, pkt, who, r, n) ==
    [to |-> to, pkt |-> pkt, who |-> who, room |-> r, count |-> n]

ToSessionsOf(S, pkt, who, r, n) ==
    {Ntf(user[v].session, pkt, who, r, n) : v \in S}

\* sendToAllUser: the users shown in the lobby, i.e. not in a room, but pass.
Members(l) == lobbyUsers[l]
Shown(l) == {v \in lobbyUsers[l] : user[v].state = "LOBBY"}

ToLobby(shown, pkt, who, pass) ==
    ToSessionsOf(shown \ {pass}, pkt, who, NoRoom, 0)

NotifyIfUsed(shown, r, rm) ==
    IF ~rm.used THEN {}
    ELSE ToSessionsOf(shown, "ROOM_CHANGED_INFO_NTF", NoUser, r, Len(rm.users))
NotifyChangedRoomInfo(shown, r, rm) ==
    ToSessionsOf(shown, "ROOM_CHANGED_INFO_NTF", NoUser, r, Len(rm.users))

\* Room::SendToAllUser; NotifyLeaveUserInfo sends nothing for an unused room.
ToRoom(rm, pkt, who, pass) ==
    ToSessionsOf(Range(rm.users) \ {pass}, pkt, who, NoRoom, 0)

\* Lobby::_userIDDic: the same members as _userIndexDic, under the address of
\* each User's own ID. A whisper looks up the address of DestUserID, which
\* lies in the sender's receive buffer.
IdAddress(u) == <<NoIndex, u>>
WhisperTo(l, address) == {u \in lobbyUsers[l] : IdAddress(u) = address}
=============================================================================
