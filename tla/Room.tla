-------------------------------- MODULE Room --------------------------------
(***************************************************************************)
(* LogicLib::Room and the Game it owns, as records and operators on them.  *)
(* The vector of members is in the order of entry: its front is the master.*)
(***************************************************************************)
EXTENDS UserManager, Functions

CONSTANT MaxRoomUserCount

\* ServerConfig.ini gives 4. A room for nobody would stay used once created.
ASSUME RoomAssumption == MaxRoomUserCount \in Nat \ {0}

GameStates == {"NONE", "STARTTING", "ING", "END"}

RoomRecord == [used : BOOLEAN, users : Seq(Users), game : GameStates]

NewRoom == [used |-> FALSE, users |-> <<>>, game |-> "NONE"]

\* Room::Clear, and the _isUsed half of CreateRoom: neither clears _game.
ClearedRoom(rm) == [used |-> FALSE, users |-> <<>>, game |-> rm.game]
CreatedRoom(rm) == [used |-> TRUE, users |-> rm.users, game |-> rm.game]

Started(rm) == [used |-> rm.used, users |-> rm.users, game |-> "STARTTING"]

CreateRoomError(rm) == IF rm.used THEN "ROOM_ENTER_CREATE_FAIL" ELSE "NONE"

EnterUncounted(rm) == IF ~rm.used THEN "ROOM_ENTER_NOT_CREATED" ELSE "NONE"
EnterRoomError(rm) ==
    IF ~rm.used THEN "ROOM_ENTER_NOT_CREATED"
    ELSE IF Len(rm.users) = MaxRoomUserCount THEN "ROOM_ENTER_MEMBER_FULL"
    ELSE "NONE"

EnterFront(rm, u) ==
    [used |-> rm.used, users |-> <<u>> \o rm.users, game |-> rm.game]
EnterRoom(rm, u) ==
    [used |-> rm.used, users |-> Append(rm.users, u), game |-> rm.game]

LeaveRoomError(rm, u) ==
    IF ~rm.used THEN "ROOM_ENTER_NOT_CREATED"
    ELSE IF u \notin Range(rm.users) THEN "ROOM_LEAVE_NOT_MEMBER"
    ELSE "NONE"

\* vector::erase of the first member with this index.
Erase(users, u) ==
    LET k == CHOOSE i \in DOMAIN users :
                 /\ users[i] = u
                 /\ \A j \in DOMAIN users : users[j] = u => i <= j
    IN  [i \in 1 .. Len(users) - 1 |->
            IF i < k THEN users[i] ELSE users[i + 1]]

Without(rm, u) ==
    [used |-> rm.used, users |-> Erase(rm.users, u), game |-> rm.game]

\* Room::LeaveUser; a caller that ignores its error ignores a no-op.
KeepRoomUsed(rm, u) ==
    IF LeaveRoomError(rm, u) # "NONE" THEN rm ELSE Without(rm, u)
ResetGame(rm, u) ==
    IF LeaveRoomError(rm, u) # "NONE" THEN rm
    ELSE IF Len(rm.users) = 1 THEN NewRoom
    ELSE Without(rm, u)
LeaveRoom(rm, u) ==
    IF LeaveRoomError(rm, u) # "NONE" THEN rm
    ELSE IF Len(rm.users) = 1 THEN ClearedRoom(rm)
    ELSE Without(rm, u)

IsMaster(rm, u) == rm.users[1] = u
=============================================================================
