---------------------------- MODULE LobbyProofs ----------------------------
(***************************************************************************)
(* More proofs about PacketProcess: the lobbies' three indexes of their    *)
(* members, the sessions behind the members, and the capacities.           *)
(***************************************************************************)
EXTENDS PacketProcessProofs, FiniteSetTheorems

Lodges(u) == user[u].state \in {"LOBBY", "ROOM"}

\* A user that is in a lobby or a room names a lobby or room there is.
Lodged ==
    \A u \in Users :
        /\ Lodges(u) => user[u].lobby \in Lobbies
        /\ user[u].state = "ROOM" => user[u].room \in Rooms

SlotsTyped == lobbySlots \in [Lobbies -> [Slots -> Users \cup {NoUser}]]

\* OneSlotEach, without counting.
SlotsHold ==
    \A l \in Lobbies, u \in Users :
        u \in lobbyUsers[l] <=> \E i \in Slots : lobbySlots[l][i] = u

SlotsOnce ==
    \A l \in Lobbies : \A i, j \in Slots :
        lobbySlots[l][i] = lobbySlots[l][j] /\ lobbySlots[l][i] # NoUser
            => i = j

LobbyCapacity ==
    \A l \in Lobbies : Cardinality(lobbyUsers[l]) <= MaxLobbyUserCount

RoomCapacity ==
    \A l \in Lobbies, r \in Rooms : Len(room[l][r].users) <= MaxRoomUserCount

PlaceInv ==
    /\ lobbyUsers \in [Lobbies -> SUBSET Users]
    /\ SlotsTyped /\ Lodged /\ LobbyMembership
    /\ SlotsHold /\ SlotsOnce /\ LobbyCapacity

\* A session that logs in twice has a second User object that its entry does
\* not lead to: that one never gets into a lobby.
MembersBound ==
    \A u \in Users :
        Lodges(u) => /\ user[u].session \in Sessions
                     /\ userSessionDic[user[u].session] = u

MemberInv == PlaceInv /\ MembersBound /\ MarksMatch /\ RoomCapacity

LobbyInv == RoomInv /\ MemberInv

USE DEF Slots
-----------------------------------------------------------------------------
\* A set of users is finite.
LEMMA UsersFinite ==
  ASSUME NEW S \in SUBSET Users
  PROVE  IsFiniteSet(S) /\ Cardinality(S) \in Nat
<1>1. IsFiniteSet(Users)
  BY FS_Interval, UserManagerAssumption DEF Users
<1>2. IsFiniteSet(S)
  BY <1>1, FS_Subset
<1> QED
  BY <1>2, FS_CardinalityType

\* The lobbies stay right when users move who are in no lobby before or
\* after, or in the same one.
LEMMA StayInLobby ==
  ASSUME PlaceInv, UNCHANGED <<lobbyUsers, lobbySlots>>,
         \A v \in Users :
             \/ user'[v] = user[v]
             \/ ~Lodges(v) /\ ~Lodges(v)'
             \/ /\ Lodges(v) /\ Lodges(v)'
                /\ user'[v].lobby = user[v].lobby
                /\ user'[v].state = "ROOM" => user'[v].room \in Rooms
  PROVE  PlaceInv'
<1>1. ASSUME NEW v \in Users
      PROVE  /\ Lodges(v)' <=> Lodges(v)
             /\ Lodges(v) => user'[v].lobby = user[v].lobby
             /\ user'[v].state = "ROOM" => user'[v].room \in Rooms
  <2>1. Lodges(v) => user[v].lobby \in Lobbies
    BY DEF PlaceInv, Lodged
  <2>2. user[v].state = "ROOM" => user[v].room \in Rooms
    BY DEF PlaceInv, Lodged
  <2> QED
    BY <2>1, <2>2 DEF Lodges
<1>2. Lodged'
  BY <1>1 DEF PlaceInv, Lodged
<1>3. LobbyMembership'
  BY <1>1 DEF PlaceInv, LobbyMembership, Lodges
<1> QED
  BY <1>2, <1>3
  DEF PlaceInv, SlotsTyped, SlotsHold, SlotsOnce, LobbyCapacity

\* One user enters one lobby, in its first empty slot.
LEMMA JoinLobby ==
  ASSUME PlaceInv, NEW u \in Users, NEW l \in Lobbies,
         ~Lodges(u), EnterLobbyError(l, u) = "NONE",
         user'[u].state = "LOBBY", user'[u].lobby = l,
         \A v \in Users : v # u => user'[v] = user[v],
         lobbyUsers' = [lobbyUsers EXCEPT ![l] = @ \cup {u}],
         lobbySlots' = [lobbySlots EXCEPT ![l][First(EmptySlots(l))] = u]
  PROVE  PlaceInv'
<1> DEFINE k == First(EmptySlots(l))
<1>1. /\ ~(Cardinality(lobbyUsers[l]) >= MaxLobbyUserCount)
      /\ u \notin lobbyUsers[l] /\ EmptySlots(l) # {}
  BY DEF EnterLobbyError
<1>2. k \in Slots /\ lobbySlots[l][k] = NoUser
  <2>1. EmptySlots(l) \subseteq Nat
    BY DEF EmptySlots
  <2>2. k \in EmptySlots(l)
    BY <1>1, <2>1, FirstFacts
  <2> QED
    BY <2>2 DEF EmptySlots
<1>3. /\ lobbyUsers' \in [Lobbies -> SUBSET Users]
      /\ lobbyUsers'[l] = lobbyUsers[l] \cup {u}
      /\ \A m \in Lobbies : m # l => lobbyUsers'[m] = lobbyUsers[m]
  BY DEF PlaceInv
<1> HIDE DEF k
<1>4. /\ SlotsTyped'
      /\ lobbySlots'[l][k] = u
      /\ \A i \in Slots : i # k => lobbySlots'[l][i] = lobbySlots[l][i]
      /\ \A m \in Lobbies : m # l => lobbySlots'[m] = lobbySlots[m]
  BY <1>2 DEF PlaceInv, SlotsTyped, k
<1>5. Lodged'
  BY DEF PlaceInv, Lodged, Lodges
<1>6. LobbyMembership'
  <2> SUFFICES ASSUME NEW m \in Lobbies, NEW v \in Users
               PROVE  v \in lobbyUsers'[m] <=>
                          /\ user'[v].state \in {"LOBBY", "ROOM"}
                          /\ user'[v].lobby = m
    BY DEF LobbyMembership
  <2>1. v \in lobbyUsers[m] <=> /\ user[v].state \in {"LOBBY", "ROOM"}
                                /\ user[v].lobby = m
    BY DEF PlaceInv, LobbyMembership
  <2>2. CASE v = u
    BY <1>3, <2>1, <2>2 DEF Lodges
  <2>3. CASE v # u
    BY <1>3, <2>1, <2>3
  <2> QED
    BY <2>2, <2>3
<1>7. SlotsHold'
  <2> SUFFICES ASSUME NEW m \in Lobbies, NEW v \in Users
               PROVE  v \in lobbyUsers'[m] <=>
                          \E i \in Slots : lobbySlots'[m][i] = v
    BY DEF SlotsHold
  <2>1. v \in lobbyUsers[m] <=> \E i \in Slots : lobbySlots[m][i] = v
    BY DEF PlaceInv, SlotsHold
  <2>2. CASE m # l
    BY <1>3, <1>4, <2>1, <2>2
  <2>3. CASE m = l /\ v = u
    BY <1>2, <1>3, <1>4, <2>3
  <2>4. CASE m = l /\ v # u
    <3>1. NoUser # v
      BY DEF Users, NoUser
    <3> QED
      BY <1>2, <1>3, <1>4, <2>1, <2>4, <3>1
  <2> QED
    BY <2>2, <2>3, <2>4
<1>8. SlotsOnce'
  <2> SUFFICES ASSUME NEW m \in Lobbies, NEW i \in Slots, NEW j \in Slots,
                      lobbySlots'[m][i] = lobbySlots'[m][j],
                      lobbySlots'[m][i] # NoUser
               PROVE  i = j
    BY DEF SlotsOnce
  <2>1. CASE m # l
    BY <1>4, <2>1 DEF PlaceInv, SlotsOnce
  <2>2. CASE m = l
    <3>1. \A n \in Slots : lobbySlots[l][n] # u
      BY <1>1 DEF PlaceInv, SlotsHold
    <3> QED
      BY <1>2, <1>4, <2>2, <3>1 DEF PlaceInv, SlotsOnce
  <2> QED
    BY <2>1, <2>2
<1>9. LobbyCapacity'
  <2> SUFFICES ASSUME NEW m \in Lobbies
               PROVE  Cardinality(lobbyUsers'[m]) <= MaxLobbyUserCount
    BY DEF LobbyCapacity
  <2>1. CASE m # l
    BY <1>3, <2>1 DEF PlaceInv, LobbyCapacity
  <2>2. CASE m = l
    <3>1. /\ IsFiniteSet(lobbyUsers[l])
          /\ Cardinality(lobbyUsers[l]) \in Nat
      BY UsersFinite DEF PlaceInv
    <3>2. Cardinality(lobbyUsers[l] \cup {u}) = Cardinality(lobbyUsers[l]) + 1
      BY <1>1, <3>1, FS_AddElement
    <3>3. Cardinality(lobbyUsers[l]) + 1 <= MaxLobbyUserCount
      BY <1>1, <3>1, LobbyAssumption
    <3> QED
      BY <1>3, <2>2, <3>2, <3>3
  <2> QED
    BY <2>1, <2>2
<1> QED
  BY <1>3, <1>4, <1>5, <1>6, <1>7, <1>8, <1>9 DEF PlaceInv

\* One user leaves the lobby it is in, if it is in one, and its only slot.
LEMMA QuitLobby ==
  ASSUME PlaceInv, NEW u \in Users, NEW l \in Lobbies,
         Lodges(u) => user[u].lobby = l,
         user'[u].state \notin {"LOBBY", "ROOM"},
         \A v \in Users : v # u => user'[v] = user[v],
         lobbyUsers' = RemoveMember(l, u),
         lobbySlots' = RemoveFromSlots(l, u)
  PROVE  PlaceInv'
<1>1. /\ lobbyUsers' \in [Lobbies -> SUBSET Users]
      /\ lobbyUsers'[l] = lobbyUsers[l] \ {u}
      /\ \A m \in Lobbies : m # l => lobbyUsers'[m] = lobbyUsers[m]
  BY DEF PlaceInv, RemoveMember
<1>2. /\ SlotsTyped'
      /\ \A i \in Slots : lobbySlots'[l][i] =
             IF lobbySlots[l][i] = u THEN NoUser ELSE lobbySlots[l][i]
      /\ \A m \in Lobbies : m # l => lobbySlots'[m] = lobbySlots[m]
  <2> DEFINE slots == lobbySlots[l]
             rest  == [i \in Slots |-> IF slots[i] = u THEN NoUser ELSE slots[i]]
  <2>1. slots \in [Slots -> Users \cup {NoUser}]
    BY DEF PlaceInv, SlotsTyped
  <2>2. \A i, j \in Slots : slots[i] = u /\ slots[j] = u => i = j
    <3>1. u # NoUser
      BY DEF Users, NoUser
    <3> QED
      BY <3>1 DEF PlaceInv, SlotsOnce
  <2>3. \A i \in Slots : slots[i] = u => \A j \in Slots : slots[j] = u => i <= j
    BY <2>2
  <2>4. [i \in Slots |-> IF /\ slots[i] = u
                            /\ \A j \in Slots : slots[j] = u => i <= j
                         THEN NoUser ELSE slots[i]] = rest
    <3> HIDE DEF slots
    <3> QED
      BY <2>3
  <2>5. lobbySlots' = [lobbySlots EXCEPT ![l] = rest]
    BY <2>4 DEF RemoveFromSlots
  <2>6. rest \in [Slots -> Users \cup {NoUser}]
    <3> HIDE DEF slots
    <3> QED
      BY <2>1
  <2>7. \A i \in Slots : rest[i] = IF slots[i] = u THEN NoUser ELSE slots[i]
    OBVIOUS
  <2> HIDE DEF rest
  <2>8. /\ lobbySlots' \in [Lobbies -> [Slots -> Users \cup {NoUser}]]
        /\ lobbySlots'[l] = rest
        /\ \A m \in Lobbies : m # l => lobbySlots'[m] = lobbySlots[m]
    BY <2>5, <2>6 DEF PlaceInv, SlotsTyped
  <2> QED
    BY <2>7, <2>8 DEF SlotsTyped
<1>3. Lodged'
  BY DEF PlaceInv, Lodged, Lodges
<1>4. LobbyMembership'
  <2> SUFFICES ASSUME NEW m \in Lobbies, NEW v \in Users
               PROVE  v \in lobbyUsers'[m] <=>
                          /\ user'[v].state \in {"LOBBY", "ROOM"}
                          /\ user'[v].lobby = m
    BY DEF LobbyMembership
  <2>1. v \in lobbyUsers[m] <=> /\ user[v].state \in {"LOBBY", "ROOM"}
                                /\ user[v].lobby = m
    BY DEF PlaceInv, LobbyMembership
  <2>2. CASE v = u
    BY <1>1, <2>1, <2>2 DEF Lodges
  <2>3. CASE v # u
    BY <1>1, <2>1, <2>3
  <2> QED
    BY <2>2, <2>3
<1>5. SlotsHold'
  <2> SUFFICES ASSUME NEW m \in Lobbies, NEW v \in Users
               PROVE  v \in lobbyUsers'[m] <=>
                          \E i \in Slots : lobbySlots'[m][i] = v
    BY DEF SlotsHold
  <2>1. v \in lobbyUsers[m] <=> \E i \in Slots : lobbySlots[m][i] = v
    BY DEF PlaceInv, SlotsHold
  <2>2. v # NoUser
    BY DEF Users, NoUser
  <2>3. CASE m # l
    BY <1>1, <1>2, <2>1, <2>3
  <2>4. CASE m = l /\ v = u
    BY <1>1, <1>2, <2>2, <2>4
  <2>5. CASE m = l /\ v # u
    BY <1>1, <1>2, <2>1, <2>2, <2>5
  <2> QED
    BY <2>3, <2>4, <2>5
<1>6. SlotsOnce'
  BY <1>2 DEF PlaceInv, SlotsOnce
<1>7. LobbyCapacity'
  <2> SUFFICES ASSUME NEW m \in Lobbies
               PROVE  Cardinality(lobbyUsers'[m]) <= MaxLobbyUserCount
    BY DEF LobbyCapacity
  <2>1. CASE m # l
    BY <1>1, <2>1 DEF PlaceInv, LobbyCapacity
  <2>2. CASE m = l
    <3>1. IsFiniteSet(lobbyUsers[l]) /\ Cardinality(lobbyUsers[l]) \in Nat
      BY UsersFinite DEF PlaceInv
    <3>2. /\ Cardinality(lobbyUsers'[l]) <= Cardinality(lobbyUsers[l])
          /\ Cardinality(lobbyUsers'[l]) \in Nat
      <4>1. lobbyUsers'[l] \in SUBSET Users
        BY <1>1
      <4>2. lobbyUsers'[l] \subseteq lobbyUsers[l]
        BY <1>1
      <4> QED
        BY <3>1, <4>1, <4>2, FS_Subset, UsersFinite
    <3>3. Cardinality(lobbyUsers[l]) <= MaxLobbyUserCount
      BY DEF PlaceInv, LobbyCapacity
    <3> QED
      BY <2>2, <3>1, <3>2, <3>3, LobbyAssumption
  <2> QED
    BY <2>1, <2>2
<1> QED
  BY <1>1, <1>2, <1>3, <1>4, <1>5, <1>6, <1>7 DEF PlaceInv

-----------------------------------------------------------------------------
\* What each handler does when it takes effect, for the user it is about.
LEMMA LoginEffect ==
  ASSUME RoomInv, NEW s \in Sessions, NEW id \in Ids, NEW key \in Addresses,
         Login(s, id, key), AddUserError(key) = "NONE"
  PROVE  \E u \in Users :
             /\ user[u].state = "NONE" /\ user'[u].state = "LOGIN"
             /\ \A v \in Users : v # u => user'[v] = user[v]
             /\ userSessionDic' = InsertSession(s, u)
             /\ connectedUser' = [connectedUser EXCEPT ![s].login = TRUE]
             /\ UNCHANGED <<lobbyUsers, lobbySlots, room>>
<1> DEFINE u == Head(freeUsers)
<1>1. /\ AddUser(s, id, key)
      /\ connectedUser' = [connectedUser EXCEPT ![s].login = TRUE]
      /\ UNCHANGED <<lobbyUsers, lobbySlots, room>>
  BY DEF Login, Answer, lobbyVars
<1>2. /\ user' = [user EXCEPT ![u] = SetUser(u, s, id)]
      /\ userSessionDic' = InsertSession(s, u)
  BY <1>1 DEF AddUser
<1>3. u \in Users /\ ~user[u].confirm
  <2>1. freeUsers # <<>> /\ freeUsers \in Seq(Users)
    BY DEF AddUserError, RoomInv, UserManagerInv, UserManagerTypeOK
  <2>2. u = freeUsers[1] /\ u \in Users /\ 1 \in 1 .. Len(freeUsers)
    BY <2>1
  <2> QED
    BY <2>2 DEF RoomInv, UserManagerInv, FreeListExact, FreeIndicesUnused
<1>4. user[u].state = "NONE" /\ user[u] \in User /\ user \in [Users -> User]
  BY <1>3 DEF RoomInv, UnconfirmedIdle, UserManagerInv, UserManagerTypeOK
<1>5. SetUser(u, s, id).state = "LOGIN"
  BY <1>4 DEF SetUser, User
<1>6. /\ user'[u].state = "LOGIN"
      /\ \A v \in Users : v # u => user'[v] = user[v]
  BY <1>2, <1>3, <1>4, <1>5
<1> QED
  BY <1>1, <1>2, <1>3, <1>4, <1>6

LEMMA CloseEffect ==
  ASSUME RoomInv, NEW s \in Sessions, CloseSession(s)
  PROVE  /\ connectedUser' = [connectedUser EXCEPT ![s] = NotConnected]
         /\ userSessionDic' = [userSessionDic EXCEPT ![s] = NoUser]
         /\ GetUser(s) = NoUser =>
                UNCHANGED <<user, lobbyUsers, lobbySlots, room>>
         /\ GetUser(s) # NoUser =>
                LET u == GetUser(s)
                IN  /\ u \in Users
                    /\ user'[u].state = "NONE"
                    /\ \A v \in Users : v # u => user'[v] = user[v]
                    /\ IF user[u].lobby \in Lobbies
                       THEN CloseInLobby(u, user[u].lobby)
                       ELSE UNCHANGED <<lobbyUsers, lobbySlots, room>>
<1>1. connectedUser' = [connectedUser EXCEPT ![s] = NotConnected]
  BY DEF CloseSession, SetDisconnected
<1>2. GetUser(s) = userSessionDic[s]
  BY GetUserFacts DEF RoomInv
<1>3. userSessionDic \in [Sessions -> Users \cup {NoUser}]
  BY DEF RoomInv, UserManagerInv, UserManagerTypeOK
<1>4. CASE GetUser(s) = NoUser
  <2>1. UNCHANGED <<user, userSessionDic, lobbyUsers, lobbySlots, room>>
    BY <1>4 DEF CloseSession, userManagerVars, lobbyVars
  <2>2. userSessionDic' = [userSessionDic EXCEPT ![s] = NoUser]
    BY <1>2, <1>3, <1>4, <2>1
  <2> QED
    BY <1>1, <1>4, <2>1, <2>2
<1>5. CASE GetUser(s) # NoUser
  <2> DEFINE u == GetUser(s)
  <2>1. u \in Users
    BY <1>5, GetUserFacts DEF RoomInv
  <2>2. RemoveUser(s)
    BY <1>5 DEF CloseSession
  <2>3. /\ user' = [user EXCEPT ![u] = ClearedUser]
        /\ userSessionDic' = [userSessionDic EXCEPT ![s] = NoUser]
    BY <1>2, <1>5, <2>2 DEF RemoveUser, EraseSession
  <2>4. IF user[u].lobby \in Lobbies
        THEN CloseInLobby(u, user[u].lobby)
        ELSE UNCHANGED <<lobbyUsers, lobbySlots, room>>
    BY <1>5 DEF CloseSession, lobbyVars
  <2> HIDE DEF u
  <2>5. /\ user'[u].state = "NONE"
        /\ \A v \in Users : v # u => user'[v] = user[v]
    BY <2>1, <2>3
    DEF ClearedUser, RoomInv, UserManagerInv, UserManagerTypeOK
  <2> QED
    BY <1>1, <1>5, <2>1, <2>3, <2>4, <2>5 DEF u
<1> QED
  BY <1>4, <1>5

LEMMA LobbyEnterEffect ==
  ASSUME RoomInv, NEW s \in Sessions, NEW l \in Int, LobbyEnter(s, l),
         LobbyEnterError(s, l) = "NONE"
  PROVE  LET u == GetUser(s)
         IN  /\ u \in Users /\ u = userSessionDic[s]
             /\ l \in Lobbies /\ EnterLobbyError(l, u) = "NONE"
             /\ user[u].state = "LOGIN" /\ user'[u].state = "LOBBY"
             /\ user'[u].lobby = l /\ user'[u].session = s
             /\ \A v \in Users : v # u => user'[v] = user[v]
             /\ lobbyUsers' = [lobbyUsers EXCEPT ![l] = @ \cup {u}]
             /\ lobbySlots' = [lobbySlots EXCEPT ![l][First(EmptySlots(l))] = u]
             /\ UNCHANGED <<userSessionDic, room, connectedUser>>
<1> DEFINE u == GetUser(s)
<1>1. /\ GetUserError(s) = "NONE" /\ user[u].state = "LOGIN"
      /\ l \in Lobbies /\ EnterLobbyError(l, u) = "NONE"
  BY DEF LobbyEnterError
<1>2. /\ u \in Users /\ u = userSessionDic[s]
      /\ user[u].session = s /\ user[u] \in User
  BY <1>1, GetUserFacts DEF RoomInv
<1>3. /\ user' = [user EXCEPT ![u] = InLobby(u, l)]
      /\ lobbyUsers' = [lobbyUsers EXCEPT ![l] = @ \cup {u}]
      /\ lobbySlots' = [lobbySlots EXCEPT ![l][First(EmptySlots(l))] = u]
      /\ UNCHANGED <<userSessionDic, room, connectedUser>>
  BY DEF LobbyEnter, Answer, EnterLobby
<1> HIDE DEF u
<1>4. InLobby(u, l).state = "LOBBY" /\ InLobby(u, l).lobby = l
      /\ InLobby(u, l).session = s
  BY <1>2 DEF InLobby, User
<1>5. user'[u] = InLobby(u, l) /\ \A v \in Users : v # u => user'[v] = user[v]
  BY <1>2, <1>3 DEF RoomInv, UserManagerInv, UserManagerTypeOK
<1> QED
  BY <1>1, <1>2, <1>3, <1>4, <1>5 DEF u

LEMMA LobbyLeaveEffect ==
  ASSUME RoomInv, NEW s \in Sessions, LobbyLeave(s),
         LobbyLeaveError(s) = "NONE"
  PROVE  LET u == GetUser(s)
             l == user[u].lobby
         IN  /\ u \in Users /\ l \in Lobbies
             /\ user[u].state = "LOBBY" /\ user'[u].state = "LOGIN"
             /\ \A v \in Users : v # u => user'[v] = user[v]
             /\ lobbyUsers' = RemoveMember(l, u)
             /\ lobbySlots' = RemoveFromSlots(l, u)
             /\ UNCHANGED <<userSessionDic, room, connectedUser>>
<1> DEFINE u == GetUser(s)
           l == user[u].lobby
<1>1. /\ GetUserError(s) = "NONE" /\ user[u].state = "LOBBY"
      /\ l \in Lobbies
  BY DEF LobbyLeaveError, InPlaceError
<1>2. u \in Users /\ user[u] \in User
  BY <1>1, GetUserFacts DEF RoomInv
<1>3. /\ user' = [user EXCEPT ![u] = OutOfLobby(u)]
      /\ lobbyUsers' = RemoveMember(l, u)
      /\ lobbySlots' = RemoveFromSlots(l, u)
      /\ UNCHANGED <<userSessionDic, room, connectedUser>>
  BY DEF LobbyLeave
<1> HIDE DEF u
<1>4. OutOfLobby(u).state = "LOGIN"
  BY <1>2, OutOfLobbyFacts
<1>5. /\ user'[u] = OutOfLobby(u)
      /\ \A v \in Users : v # u => user'[v] = user[v]
  BY <1>2, <1>3 DEF RoomInv, UserManagerInv, UserManagerTypeOK
<1> QED
  BY <1>1, <1>2, <1>3, <1>4, <1>5 DEF u

LEMMA RoomEnterEffect ==
  ASSUME RoomInv, NEW s \in Sessions, NEW create \in BOOLEAN, NEW r \in Int,
         RoomEnter(s, create, r), RoomEnterError(s, create, r) = "NONE"
  PROVE  \E rIn \in Rooms, users \in Seq(Users), rm \in RoomRecord :
           LET u == GetUser(s)
               l == user[u].lobby
           IN  /\ u \in Users /\ l \in Lobbies
               /\ user[u].state = "LOBBY" /\ user'[u].state = "ROOM"
               /\ user'[u].lobby = l /\ user'[u].room = rIn
               /\ user'[u].session = user[u].session
               /\ \A v \in Users : v # u => user'[v] = user[v]
               /\ users = room[l][rIn].users
               /\ Len(users) # MaxRoomUserCount
               /\ rm.users = Append(users, u)
               /\ rm.game = room[l][rIn].game
               /\ room' = [room EXCEPT ![l][rIn] = rm]
               /\ UNCHANGED <<userSessionDic, lobbyUsers, lobbySlots,
                              connectedUser>>
<1> DEFINE u   == GetUser(s)
           l   == user[u].lobby
           rIn == RoomToEnter(l, create, r)
           rm  == RoomToEnterRecord(l, create, r)
<1>1. /\ GetUserError(s) = "NONE" /\ user[u].state = "LOBBY"
      /\ l \in Lobbies
  BY DEF RoomEnterError, InPlaceError
<1>2. u \in Users /\ user[u] \in User
  BY <1>1, GetUserFacts DEF RoomInv
<1>3. rIn # NoRoom /\ EnterRoomError(rm) = "NONE"
  BY DEF RoomEnterError
<1>4. /\ user' = [user EXCEPT ![u] = InRoom(u, l, rIn)]
      /\ room' = [room EXCEPT ![l][rIn] = EnterRoom(rm, u)]
      /\ UNCHANGED <<userSessionDic, lobbyUsers, lobbySlots, connectedUser>>
  BY DEF RoomEnter, Answer
<1>5. rIn \in Rooms
  <2>1. CASE create
    <3>1. UnusedRooms(l) # {} /\ UnusedRooms(l) \subseteq Rooms
      BY <1>3, <2>1 DEF RoomToEnter, CreateRoom, UnusedRooms
    <3>2. rIn = First(UnusedRooms(l)) /\ UnusedRooms(l) \subseteq Nat
      BY <2>1, <3>1 DEF RoomToEnter, CreateRoom, Rooms
    <3> QED
      BY <3>1, <3>2, FirstFacts
  <2>2. CASE ~create
    BY <1>3, <2>2 DEF RoomToEnter, GetRoom
  <2> QED
    BY <2>1, <2>2
<1>6. room[l][rIn] \in RoomRecord
  BY <1>1, <1>5 DEF RoomInv, StateTypes
<1>7. rm = room[l][rIn] \/ rm = CreatedRoom(room[l][rIn])
  BY DEF RoomToEnterRecord
<1> HIDE DEF u, l, rIn, rm
<1>8. /\ rm \in RoomRecord /\ rm.users = room[l][rIn].users
      /\ rm.game = room[l][rIn].game
      /\ rm.users \in Seq(Users) /\ Len(rm.users) # MaxRoomUserCount
  <2>1. /\ rm \in RoomRecord /\ rm.users = room[l][rIn].users
        /\ rm.game = room[l][rIn].game
    <3>1. CASE rm = room[l][rIn]
      BY <1>6, <3>1
    <3>2. CASE rm = CreatedRoom(room[l][rIn])
      BY <1>6, <3>2 DEF CreatedRoom, RoomRecord
    <3> QED
      BY <1>7, <3>1, <3>2
  <2>2. rm.users \in Seq(Users)
    BY <2>1 DEF RoomRecord
  <2>3. Len(rm.users) # MaxRoomUserCount
    BY <1>3 DEF EnterRoomError
  <2> QED
    BY <2>1, <2>2, <2>3
<1>9. /\ EnterRoom(rm, u) \in RoomRecord
      /\ EnterRoom(rm, u).users = Append(rm.users, u)
      /\ EnterRoom(rm, u).game = rm.game
  BY <1>2, <1>8 DEF EnterRoom, RoomRecord
<1>10. /\ InRoom(u, l, rIn).state = "ROOM" /\ InRoom(u, l, rIn).lobby = l
       /\ InRoom(u, l, rIn).room = rIn
       /\ InRoom(u, l, rIn).session = user[u].session
  BY <1>2 DEF InRoom, User
<1>11. /\ user'[u] = InRoom(u, l, rIn)
       /\ \A v \in Users : v # u => user'[v] = user[v]
  BY <1>2, <1>4 DEF RoomInv, UserManagerInv, UserManagerTypeOK
<1>12. l = user[GetUser(s)].lobby
  BY DEF l, u
<1> QED
  <2> USE <1>5, <1>8, <1>9
  <2> WITNESS rIn \in Rooms
  <2> WITNESS rm.users \in Seq(Users)
  <2> WITNESS EnterRoom(rm, u) \in RoomRecord
  <2> QED
    BY <1>1, <1>2, <1>4, <1>10, <1>11, <1>12 DEF u

LEMMA RoomLeaveEffect ==
  ASSUME RoomInv, NEW s \in Sessions, RoomLeave(s), RoomLeaveError(s) = "NONE"
  PROVE  LET u == GetUser(s)
             l == user[u].lobby
             r == user[u].room
         IN  /\ u \in Users /\ l \in Lobbies /\ r \in Rooms
             /\ user[u].state = "ROOM" /\ user'[u].state = "LOBBY"
             /\ user'[u].lobby = l /\ user'[u].session = user[u].session
             /\ \A v \in Users : v # u => user'[v] = user[v]
             /\ room' = [room EXCEPT ![l][r] = LeaveRoom(room[l][r], u)]
             /\ UNCHANGED <<userSessionDic, lobbyUsers, lobbySlots,
                            connectedUser>>
<1> DEFINE u == GetUser(s)
           l == user[u].lobby
           r == user[u].room
<1>1. /\ GetUserError(s) = "NONE" /\ user[u].state = "ROOM"
      /\ l \in Lobbies /\ r \in Rooms
  BY DEF RoomLeaveError, InRoomError, InPlaceError
<1>2. u \in Users /\ user[u] \in User
  BY <1>1, GetUserFacts DEF RoomInv
<1>3. /\ user' = [user EXCEPT ![u] = InLobby(u, l)]
      /\ room' = [room EXCEPT ![l][r] = LeaveRoom(room[l][r], u)]
      /\ UNCHANGED <<userSessionDic, lobbyUsers, lobbySlots, connectedUser>>
  BY DEF RoomLeave, Answer, RoomOf
<1> HIDE DEF u
<1>4. /\ InLobby(u, l).state = "LOBBY" /\ InLobby(u, l).lobby = l
      /\ InLobby(u, l).session = user[u].session
  BY <1>2 DEF InLobby, User
<1>5. user'[u] = InLobby(u, l) /\ \A v \in Users : v # u => user'[v] = user[v]
  BY <1>2, <1>3 DEF RoomInv, UserManagerInv, UserManagerTypeOK
<1> QED
  BY <1>1, <1>2, <1>3, <1>4, <1>5 DEF u

\* Nobody leaves a room so that it has more members.
LEMMA LeaveRoomShrinks ==
  ASSUME NEW rm \in RoomRecord, NoRepeat(rm.users), NEW u \in Users
  PROVE  /\ Len(LeaveRoom(rm, u).users) \in Nat
         /\ Len(LeaveRoom(rm, u).users) <= Len(rm.users)
<1>1. rm.users \in Seq(Users) /\ Len(rm.users) \in Nat
  BY DEF RoomRecord
<1>2. CASE LeaveRoomError(rm, u) # "NONE"
  BY <1>1, <1>2 DEF LeaveRoom
<1>3. CASE LeaveRoomError(rm, u) = "NONE"
  <2>1. u \in Range(rm.users)
    BY <1>3 DEF LeaveRoomError
  <2>2. CASE Len(rm.users) = 1
    BY <1>3, <2>2 DEF LeaveRoom, ClearedRoom
  <2>3. CASE Len(rm.users) # 1
    <3>1. /\ Len(Erase(rm.users, u)) = Len(rm.users) - 1
          /\ Len(Erase(rm.users, u)) \in Nat
      BY <1>1, <2>1, EraseFacts
    <3>2. LeaveRoom(rm, u).users = Erase(rm.users, u)
      BY <1>3, <2>3 DEF LeaveRoom, Without
    <3> QED
      BY <1>1, <3>1, <3>2
  <2> QED
    BY <2>2, <2>3
<1> QED
  BY <1>2, <1>3

\* So no room gets past its capacity when one of its members leaves.
LEMMA QuitCapacity ==
  ASSUME RoomInv, RoomCapacity,
         NEW u \in Users, NEW l \in Lobbies, NEW r \in Rooms,
         room' = [room EXCEPT ![l][r] = LeaveRoom(room[l][r], u)]
  PROVE  RoomCapacity'
<1> DEFINE rm == room[l][r]
<1>1. /\ rm \in RoomRecord /\ NoRepeat(rm.users)
      /\ room \in [Lobbies -> [Rooms -> RoomRecord]]
  BY DEF RoomInv, StateTypes, RoomMembership
<1>2. /\ room'[l][r] = LeaveRoom(rm, u)
      /\ \A l2 \in Lobbies, r2 \in Rooms :
             <<l2, r2>> # <<l, r>> => room'[l2][r2] = room[l2][r2]
  BY <1>1
<1>3. Len(LeaveRoom(rm, u).users) <= MaxRoomUserCount
  <2>1. /\ Len(LeaveRoom(rm, u).users) \in Nat
        /\ Len(LeaveRoom(rm, u).users) <= Len(rm.users)
    BY <1>1, LeaveRoomShrinks
  <2>2. Len(rm.users) <= MaxRoomUserCount
    BY DEF RoomCapacity
  <2>3. Len(rm.users) \in Nat /\ MaxRoomUserCount \in Nat
    BY <1>1, RoomAssumption DEF RoomRecord
  <2> HIDE DEF rm
  <2> QED
    BY <2>1, <2>2, <2>3
<1> HIDE DEF rm
<1> QED
  BY <1>2, <1>3 DEF RoomCapacity

-----------------------------------------------------------------------------
\* The handlers that answer and do nothing else, and those that refuse.
LEMMA NothingMoves ==
  ASSUME LobbyInv, UNCHANGED serverVars
  PROVE  MemberInv'
<1>1. UNCHANGED <<user, userSessionDic, lobbyUsers, lobbySlots, room,
                  connectedUser>>
  BY DEF serverVars
<1>2. PlaceInv'
  BY <1>1, StayInLobby DEF LobbyInv, MemberInv
<1> QED
  BY <1>1, <1>2 DEF LobbyInv, MemberInv, MembersBound, MarksMatch,
                    RoomCapacity, Lodges

LEMMA ConnectMembers ==
  ASSUME LobbyInv, NEW s \in Sessions, ConnectSession(s)
  PROVE  MemberInv'
<1>1. /\ UNCHANGED <<user, userSessionDic, lobbyUsers, lobbySlots, room>>
      /\ connectedUser' = [connectedUser EXCEPT ![s].connected = TRUE]
  BY DEF ConnectSession, userManagerVars, lobbyVars
<1>2. PlaceInv'
  BY <1>1, StayInLobby DEF LobbyInv, MemberInv
<1>3. MarksMatch'
  <2> DEFINE c == connectedUser[s]
             d == [c EXCEPT !.connected = TRUE]
  <2>1. c \in ConnectedUser /\ connectedUser \in [Sessions -> ConnectedUser]
    BY DEF LobbyInv, RoomInv, StateTypes
  <2>2. d.login = c.login
    <3> HIDE DEF c
    <3> QED
      BY <2>1, Zenon DEF ConnectedUser
  <2>3. connectedUser' = [connectedUser EXCEPT ![s] = d]
    BY <1>1
  <2> HIDE DEF d
  <2>4. connectedUser'[s] = d
        /\ \A t \in Sessions : t # s => connectedUser'[t] = connectedUser[t]
    BY <2>1, <2>3
  <2> QED
    BY <1>1, <2>2, <2>4, Zenon DEF LobbyInv, MemberInv, MarksMatch
<1> QED
  BY <1>1, <1>2, <1>3
  DEF LobbyInv, MemberInv, MembersBound, RoomCapacity, Lodges

\* A login makes an entry in the session map and sets the mark.
LEMMA LoginMembers ==
  ASSUME LobbyInv, NEW s \in Sessions, NEW id \in Ids, NEW key \in Addresses,
         Login(s, id, key)
  PROVE  MemberInv'
<1>1. CASE AddUserError(key) # "NONE"
  BY <1>1, NothingMoves DEF Login, Answer
<1>2. CASE AddUserError(key) = "NONE"
  <2>1. PICK u \in Users :
            /\ user[u].state = "NONE" /\ user'[u].state = "LOGIN"
            /\ \A v \in Users : v # u => user'[v] = user[v]
            /\ userSessionDic' = InsertSession(s, u)
            /\ connectedUser' = [connectedUser EXCEPT ![s].login = TRUE]
            /\ UNCHANGED <<lobbyUsers, lobbySlots, room>>
    BY <1>2, LoginEffect DEF LobbyInv
  <2>2. PlaceInv'
    <3>1. ~Lodges(u) /\ ~Lodges(u)'
      BY <2>1 DEF Lodges
    <3> QED
      BY <2>1, <3>1, StayInLobby DEF LobbyInv, MemberInv
  <2>3. /\ userSessionDic'[s] # NoUser
        /\ \A t \in Sessions : \/ userSessionDic'[t] = userSessionDic[t]
                               \/ t = s /\ userSessionDic[t] = NoUser
    <3>1. userSessionDic \in [Sessions -> Users \cup {NoUser}]
      BY DEF LobbyInv, RoomInv, UserManagerInv, UserManagerTypeOK
    <3>2. u # NoUser
      BY DEF Users, NoUser
    <3> QED
      BY <2>1, <3>1, <3>2 DEF InsertSession
  <2>4. MembersBound'
    <3> SUFFICES ASSUME NEW v \in Users, Lodges(v)'
                 PROVE  /\ user'[v].session \in Sessions
                        /\ userSessionDic'[user'[v].session] = v
      BY DEF MembersBound
    <3>1. v # u /\ user'[v] = user[v] /\ Lodges(v)
      BY <2>1 DEF Lodges
    <3>2. user[v].session \in Sessions /\ userSessionDic[user[v].session] = v
      BY <3>1 DEF LobbyInv, MemberInv, MembersBound
    <3>3. v # NoUser
      BY DEF Users, NoUser
    <3> QED
      BY <2>3, <3>1, <3>2, <3>3
  <2>5. MarksMatch'
    <3> DEFINE c == connectedUser[s]
               d == [c EXCEPT !.login = TRUE]
    <3>1. c \in ConnectedUser /\ connectedUser \in [Sessions -> ConnectedUser]
      BY DEF LobbyInv, RoomInv, StateTypes
    <3>2. d.login
      <4> HIDE DEF c
      <4> QED
        BY <3>1, Zenon DEF ConnectedUser
    <3>3. connectedUser' = [connectedUser EXCEPT ![s] = d]
      BY <2>1
    <3> HIDE DEF c, d
    <3>5. connectedUser'[s] = d
          /\ \A t \in Sessions : t # s => connectedUser'[t] = connectedUser[t]
      BY <3>1, <3>3
    <3> QED
      BY <2>3, <3>2, <3>5, Zenon DEF LobbyInv, MemberInv, MarksMatch
  <2>6. RoomCapacity'
    BY <2>1 DEF LobbyInv, MemberInv, RoomCapacity
  <2> QED
    BY <2>2, <2>4, <2>5, <2>6 DEF MemberInv
<1> QED
  BY <1>1, <1>2

\* A disconnect: the stored lobby index is that of the user's lobby if it is in
\* one, so that the user goes from everywhere it is.
LEMMA CloseMembers ==
  ASSUME LobbyInv, NEW s \in Sessions, CloseSession(s)
  PROVE  MemberInv'
<1> DEFINE u == GetUser(s)
<1>1. /\ connectedUser' = [connectedUser EXCEPT ![s] = NotConnected]
      /\ userSessionDic' = [userSessionDic EXCEPT ![s] = NoUser]
      /\ u = NoUser => UNCHANGED <<user, lobbyUsers, lobbySlots, room>>
      /\ u # NoUser =>
             /\ u \in Users
             /\ user'[u].state = "NONE"
             /\ \A v \in Users : v # u => user'[v] = user[v]
             /\ IF user[u].lobby \in Lobbies
                THEN CloseInLobby(u, user[u].lobby)
                ELSE UNCHANGED <<lobbyUsers, lobbySlots, room>>
  BY CloseEffect DEF LobbyInv
<1>2. u = userSessionDic[s]
  BY GetUserFacts DEF LobbyInv, RoomInv
<1>3. /\ userSessionDic \in [Sessions -> Users \cup {NoUser}]
      /\ connectedUser \in [Sessions -> ConnectedUser]
  BY DEF LobbyInv, RoomInv, UserManagerInv, UserManagerTypeOK, StateTypes
<1> HIDE DEF u
<1>4. PlaceInv'
  <2>1. CASE u = NoUser
    BY <1>1, <2>1, StayInLobby DEF LobbyInv, MemberInv
  <2>2. CASE u # NoUser /\ user[u].lobby \notin Lobbies
    <3>1. user[u].state \notin {"LOBBY", "ROOM"}
      BY <1>1, <2>2 DEF Lodges, LobbyInv, MemberInv, PlaceInv, Lodged
    <3>2. \A v \in Users : user'[v] = user[v] \/ (~Lodges(v) /\ ~Lodges(v)')
      BY <1>1, <2>2, <3>1 DEF Lodges
    <3>3. UNCHANGED <<lobbyUsers, lobbySlots>>
      BY <1>1, <2>2
    <3> QED
      BY <3>2, <3>3, StayInLobby DEF LobbyInv, MemberInv
  <2>3. CASE u # NoUser /\ user[u].lobby \in Lobbies
    <3> DEFINE l == user[u].lobby
    <3>1. lobbyUsers' = RemoveMember(l, u) /\ lobbySlots' = RemoveFromSlots(l, u)
      BY <1>1, <2>3 DEF CloseInLobby
    <3>2. user'[u].state \notin {"LOBBY", "ROOM"}
      BY <1>1, <2>3
    <3> QED
      BY <1>1, <2>3, <3>1, <3>2, QuitLobby DEF LobbyInv, MemberInv
  <2> QED
    BY <2>1, <2>2, <2>3
<1>5. MembersBound'
  <2> SUFFICES ASSUME NEW v \in Users, Lodges(v)'
               PROVE  /\ user'[v].session \in Sessions
                      /\ userSessionDic'[user'[v].session] = v
    BY DEF MembersBound
  <2>1. v # u /\ user'[v] = user[v]
    <3>1. v # NoUser
      BY DEF Users, NoUser
    <3> QED
      BY <1>1, <3>1 DEF Lodges
  <2>2. user[v].session \in Sessions /\ userSessionDic[user[v].session] = v
    BY <2>1 DEF LobbyInv, MemberInv, MembersBound, Lodges
  <2> QED
    BY <1>1, <1>2, <1>3, <2>1, <2>2
<1>6. MarksMatch'
  <2>1. /\ ~connectedUser'[s].login /\ userSessionDic'[s] = NoUser
        /\ \A t \in Sessions : t # s =>
               /\ connectedUser'[t] = connectedUser[t]
               /\ userSessionDic'[t] = userSessionDic[t]
    BY <1>1, <1>3 DEF NotConnected
  <2> QED
    BY <2>1, Zenon DEF LobbyInv, MemberInv, MarksMatch
<1>7. RoomCapacity'
  <2>1. room' = room \/ /\ u \in Users
                        /\ \E l \in Lobbies, r \in Rooms :
                               room' = [room EXCEPT ![l][r] =
                                            LeaveRoom(room[l][r], u)]
    <3>1. CASE u = NoUser \/ user[u].lobby \notin Lobbies
      BY <1>1, <3>1
    <3>2. CASE u # NoUser /\ user[u].lobby \in Lobbies
      <4> DEFINE l == user[u].lobby
                 r == GetRoom(user[u].room)
      <4>1. CloseInLobby(u, l)
        BY <1>1, <3>2
      <4>2. CASE r = NoRoom
        BY <4>1, <4>2 DEF CloseInLobby
      <4>3. CASE r # NoRoom
        <5>1. r \in Rooms
          BY <4>3 DEF GetRoom
        <5>2. room' = [room EXCEPT ![l][r] = LeaveRoom(room[l][r], u)]
          BY <4>1, <4>3 DEF CloseInLobby
        <5> HIDE DEF r
        <5> QED
          BY <1>1, <3>2, <5>1, <5>2
      <4> QED
        BY <4>2, <4>3
    <3> QED
      BY <3>1, <3>2
  <2>2. CASE room' = room
    BY <2>2 DEF LobbyInv, MemberInv, RoomCapacity
  <2>3. CASE room' # room
    <3>1. PICK l \in Lobbies, r \in Rooms :
              room' = [room EXCEPT ![l][r] = LeaveRoom(room[l][r], u)]
      BY <2>1, <2>3
    <3>2. u \in Users
      BY <2>1, <2>3
    <3> QED
      BY <3>1, <3>2, QuitCapacity DEF LobbyInv, MemberInv
  <2> QED
    BY <2>2, <2>3
<1> QED
  BY <1>4, <1>5, <1>6, <1>7 DEF MemberInv

\* The user behind a request is the one its session's entry leads to.
LEMMA LobbyEnterMembers ==
  ASSUME LobbyInv, NEW s \in Sessions, NEW l \in Int, LobbyEnter(s, l)
  PROVE  MemberInv'
<1>1. CASE LobbyEnterError(s, l) # "NONE"
  BY <1>1, NothingMoves DEF LobbyEnter, Answer
<1>2. CASE LobbyEnterError(s, l) = "NONE"
  <2> DEFINE u == GetUser(s)
  <2>1. /\ u \in Users /\ u = userSessionDic[s]
        /\ l \in Lobbies /\ EnterLobbyError(l, u) = "NONE"
        /\ user[u].state = "LOGIN" /\ user'[u].state = "LOBBY"
        /\ user'[u].lobby = l /\ user'[u].session = s
        /\ \A v \in Users : v # u => user'[v] = user[v]
        /\ lobbyUsers' = [lobbyUsers EXCEPT ![l] = @ \cup {u}]
        /\ lobbySlots' = [lobbySlots EXCEPT ![l][First(EmptySlots(l))] = u]
        /\ UNCHANGED <<userSessionDic, room, connectedUser>>
    BY <1>2, LobbyEnterEffect DEF LobbyInv
  <2> HIDE DEF u
  <2>2. PlaceInv'
    <3>1. ~Lodges(u)
      BY <2>1 DEF Lodges
    <3> QED
      BY <2>1, <3>1, JoinLobby DEF LobbyInv, MemberInv
  <2>3. MembersBound'
    <3> SUFFICES ASSUME NEW v \in Users, Lodges(v)'
                 PROVE  /\ user'[v].session \in Sessions
                        /\ userSessionDic'[user'[v].session] = v
      BY DEF MembersBound
    <3>1. CASE v = u
      BY <2>1, <3>1
    <3>2. CASE v # u
      BY <2>1, <3>2 DEF LobbyInv, MemberInv, MembersBound, Lodges
    <3> QED
      BY <3>1, <3>2
  <2> QED
    BY <2>1, <2>2, <2>3
    DEF LobbyInv, MemberInv, MarksMatch, RoomCapacity
<1> QED
  BY <1>1, <1>2

\* LeaveUser always finds the user that it is called for in the map.
LEMMA AlwaysMember ==
  ASSUME LobbyInv, NEW s \in Sessions
  PROVE  LobbyLeaveError(s) # NotMember
<1> DEFINE u == GetUser(s)
           err == InPlaceError(s, "LOBBY", "LOBBY_LEAVE_INVALID_DOServerHost",
                               "LOBBY_LEAVE_INVALID_LOBBY_INDEX")
<1>1. CASE err # "NONE"
  BY <1>1 DEF LobbyLeaveError, InPlaceError, GetUserError, NotMember
<1>2. CASE err = "NONE"
  <2>1. /\ GetUserError(s) = "NONE" /\ user[u].state = "LOBBY"
        /\ user[u].lobby \in Lobbies
    BY <1>2 DEF InPlaceError
  <2>2. u \in Users
    BY <2>1, GetUserFacts DEF LobbyInv, RoomInv
  <2>3. u \in lobbyUsers[user[u].lobby]
    BY <2>1, <2>2 DEF LobbyInv, MemberInv, PlaceInv, LobbyMembership
  <2> QED
    BY <1>2, <2>3 DEF LobbyLeaveError, LeaveLobbyError, NotMember
<1> QED
  BY <1>1, <1>2

LEMMA LobbyLeaveMembers ==
  ASSUME LobbyInv, NEW s \in Sessions, LobbyLeave(s)
  PROVE  MemberInv'
<1>1. CASE LobbyLeaveError(s) # "NONE"
  <2>1. UNCHANGED serverVars
    BY <1>1, AlwaysMember DEF LobbyLeave, serverVars
  <2> QED
    BY <2>1, NothingMoves
<1>2. CASE LobbyLeaveError(s) = "NONE"
  <2> DEFINE u == GetUser(s)
             l == user[u].lobby
  <2>1. /\ u \in Users /\ l \in Lobbies /\ l = user[u].lobby
        /\ user'[u].state = "LOGIN"
        /\ \A v \in Users : v # u => user'[v] = user[v]
        /\ lobbyUsers' = RemoveMember(l, u)
        /\ lobbySlots' = RemoveFromSlots(l, u)
        /\ UNCHANGED <<userSessionDic, room, connectedUser>>
    BY <1>2, LobbyLeaveEffect DEF LobbyInv
  <2> HIDE DEF u, l
  <2>2. PlaceInv'
    <3>1. user'[u].state \notin {"LOBBY", "ROOM"}
      BY <2>1
    <3> QED
      BY <2>1, <3>1, QuitLobby DEF LobbyInv, MemberInv
  <2>3. MembersBound'
    <3> SUFFICES ASSUME NEW v \in Users, Lodges(v)'
                 PROVE  /\ user'[v].session \in Sessions
                        /\ userSessionDic'[user'[v].session] = v
      BY DEF MembersBound
    <3>1. v # u
      BY <2>1 DEF Lodges
    <3> QED
      BY <2>1, <3>1 DEF LobbyInv, MemberInv, MembersBound, Lodges
  <2> QED
    BY <2>1, <2>2, <2>3
    DEF LobbyInv, MemberInv, MarksMatch, RoomCapacity
<1> QED
  BY <1>1, <1>2

\* In and out of a room, a user stays the member of its lobby.
LEMMA StayMember ==
  ASSUME LobbyInv, NEW u \in Users, Lodges(u),
         user'[u].state \in {"LOBBY", "ROOM"},
         user'[u].lobby = user[u].lobby, user'[u].session = user[u].session,
         user'[u].state = "ROOM" => user'[u].room \in Rooms,
         \A v \in Users : v # u => user'[v] = user[v],
         UNCHANGED <<userSessionDic, lobbyUsers, lobbySlots, connectedUser>>
  PROVE  PlaceInv' /\ MembersBound' /\ MarksMatch'
<1>1. Lodges(u)'
  BY DEF Lodges
<1>2. PlaceInv'
  BY <1>1, StayInLobby DEF LobbyInv, MemberInv
<1>3. MembersBound'
  <2> SUFFICES ASSUME NEW v \in Users, Lodges(v)'
               PROVE  /\ user'[v].session \in Sessions
                      /\ userSessionDic'[user'[v].session] = v
    BY DEF MembersBound
  <2>1. Lodges(v) /\ user'[v].session = user[v].session
    BY DEF Lodges
  <2> QED
    BY <2>1 DEF LobbyInv, MemberInv, MembersBound
<1>4. MarksMatch'
  BY DEF LobbyInv, MemberInv, MarksMatch
<1> QED
  BY <1>2, <1>3, <1>4

LEMMA RoomEnterMembers ==
  ASSUME LobbyInv, NEW s \in Sessions, NEW create \in BOOLEAN, NEW r \in Int,
         RoomEnter(s, create, r)
  PROVE  MemberInv'
<1>1. CASE RoomEnterError(s, create, r) # "NONE"
  BY <1>1, NothingMoves DEF RoomEnter, Answer
<1>2. CASE RoomEnterError(s, create, r) = "NONE"
  <2> DEFINE u == GetUser(s)
             l == user[u].lobby
  <2>1. PICK rIn \in Rooms, users \in Seq(Users), rm \in RoomRecord :
           /\ u \in Users /\ l \in Lobbies
           /\ user[u].state = "LOBBY" /\ user'[u].state = "ROOM"
           /\ user'[u].lobby = l /\ user'[u].room = rIn
           /\ user'[u].session = user[u].session
           /\ \A v \in Users : v # u => user'[v] = user[v]
           /\ users = room[l][rIn].users
           /\ Len(users) # MaxRoomUserCount
           /\ rm.users = Append(users, u)
           /\ room' = [room EXCEPT ![l][rIn] = rm]
           /\ UNCHANGED <<userSessionDic, lobbyUsers, lobbySlots,
                          connectedUser>>
    BY <1>2, RoomEnterEffect DEF LobbyInv
  <2>2. l = user[u].lobby
    OBVIOUS
  <2> HIDE DEF u, l
  <2>3. Lodges(u)
    BY <2>1 DEF Lodges
  <2>4. PlaceInv' /\ MembersBound' /\ MarksMatch'
    BY <2>1, <2>2, <2>3, StayMember
  <2>5. RoomCapacity'
    <3>1. Len(users) <= MaxRoomUserCount
      BY <2>1 DEF LobbyInv, MemberInv, RoomCapacity
    <3>2. Len(rm.users) = Len(users) + 1 /\ Len(users) \in Nat
      BY <2>1
    <3>3. Len(rm.users) <= MaxRoomUserCount
      BY <2>1, <3>1, <3>2, RoomAssumption
    <3>4. room \in [Lobbies -> [Rooms -> RoomRecord]]
      BY DEF LobbyInv, RoomInv, StateTypes
    <3>5. /\ room'[l][rIn] = rm
          /\ \A l2 \in Lobbies, r2 \in Rooms :
                 <<l2, r2>> # <<l, rIn>> => room'[l2][r2] = room[l2][r2]
      BY <2>1, <3>4
    <3> QED
      BY <3>3, <3>5 DEF LobbyInv, MemberInv, RoomCapacity
  <2> QED
    BY <2>4, <2>5 DEF MemberInv
<1> QED
  BY <1>1, <1>2

LEMMA RoomLeaveMembers ==
  ASSUME LobbyInv, NEW s \in Sessions, RoomLeave(s)
  PROVE  MemberInv'
<1>1. CASE RoomLeaveError(s) # "NONE"
  BY <1>1, NothingMoves DEF RoomLeave, Answer
<1>2. CASE RoomLeaveError(s) = "NONE"
  <2> DEFINE u == GetUser(s)
             l == user[u].lobby
             r == user[u].room
  <2>1. /\ u \in Users /\ l \in Lobbies /\ r \in Rooms /\ l = user[u].lobby
        /\ user[u].state = "ROOM" /\ user'[u].state = "LOBBY"
        /\ user'[u].lobby = l /\ user'[u].session = user[u].session
        /\ \A v \in Users : v # u => user'[v] = user[v]
        /\ room' = [room EXCEPT ![l][r] = LeaveRoom(room[l][r], u)]
        /\ UNCHANGED <<userSessionDic, lobbyUsers, lobbySlots, connectedUser>>
    BY <1>2, RoomLeaveEffect DEF LobbyInv
  <2> HIDE DEF u, l, r
  <2>2. Lodges(u)
    BY <2>1 DEF Lodges
  <2>3. PlaceInv' /\ MembersBound' /\ MarksMatch'
    BY <2>1, <2>2, StayMember
  <2>4. RoomCapacity'
    BY <2>1, QuitCapacity DEF LobbyInv, MemberInv
  <2> QED
    BY <2>3, <2>4 DEF MemberInv
<1> QED
  BY <1>1, <1>2

LEMMA GameStartMembers ==
  ASSUME LobbyInv, NEW s \in Sessions, RoomMasterGameStart(s)
  PROVE  MemberInv'
<1>1. CASE MasterGameStartError(s) # "NONE"
  BY <1>1, NothingMoves DEF RoomMasterGameStart, Answer
<1>2. CASE MasterGameStartError(s) = "NONE"
  <2> DEFINE l == user[GetUser(s)].lobby
             r == user[GetUser(s)].room
  <2>1. l \in Lobbies /\ r \in Rooms
    BY <1>2
    DEF MasterGameStartError, GameStartError, InRoomError, InPlaceError
  <2>2. /\ room' = [room EXCEPT ![l][r] = Started(@)]
        /\ UNCHANGED <<user, userSessionDic, lobbyUsers, lobbySlots,
                       connectedUser>>
    BY <1>2 DEF RoomMasterGameStart, Answer, userManagerVars
  <2> HIDE DEF l, r
  <2>3. room \in [Lobbies -> [Rooms -> RoomRecord]]
    BY DEF LobbyInv, RoomInv, StateTypes
  <2>4. \A l2 \in Lobbies, r2 \in Rooms :
            room'[l2][r2].users = room[l2][r2].users
    BY <2>1, <2>2, <2>3 DEF Started
  <2>5. RoomCapacity'
    BY <2>4 DEF LobbyInv, MemberInv, RoomCapacity
  <2>6. PlaceInv'
    BY <2>2, StayInLobby DEF LobbyInv, MemberInv
  <2> QED
    BY <2>2, <2>5, <2>6
    DEF LobbyInv, MemberInv, MembersBound, MarksMatch, Lodges
<1> QED
  BY <1>1, <1>2

-----------------------------------------------------------------------------
\* A step of the server is one of these handlers' or changes nothing that the
\* server keeps.
Effective(s) ==
    \/ ConnectSession(s)
    \/ CloseSession(s)
    \/ \E id \in Ids, key \in Addresses : Login(s, id, key)
    \/ \E l \in Int : LobbyEnter(s, l)
    \/ LobbyLeave(s)
    \/ \E create \in BOOLEAN, r \in Int : RoomEnter(s, create, r)
    \/ RoomLeave(s)
    \/ RoomMasterGameStart(s)

LEMMA EffectiveSteps ==
  ASSUME [Next]_vars
  PROVE  UNCHANGED serverVars \/ \E s \in Sessions : Effective(s)
<1>1. CASE UNCHANGED vars
  BY <1>1 DEF vars, serverVars
<1>2. CASE Next
  <2>1. PICK s \in Sessions :
            ConnectSession(s) \/ CloseSession(s) \/ ClientPacket(s)
    BY <1>2 DEF Next
  <2>2. CASE ConnectSession(s) \/ CloseSession(s)
    BY <2>2 DEF Effective
  <2>3. CASE ClientPacket(s)
    <3> USE LobbyAssumption
    <3>1. /\ \A o \in Offsets : <<s, o>> \in Addresses
          /\ \A n \in 0 .. MaxRoomCountByLobby : n \in Int
          /\ \A n \in 0 .. MaxLobbyCount : n \in Int
      BY DEF Addresses
    <3>2. CASE \/ DevEcho(s) \/ LobbyList(s) \/ LobbyChat(s)
               \/ \E o \in Offsets : LobbyWisper(s, <<s, o>>)
               \/ \E start \in 0 .. MaxRoomCountByLobby :
                      LobbyRoomList(s, start)
               \/ \E start \in 0 .. MaxLobbyUserCount : LobbyUserList(s, start)
               \/ RoomChat(s) \/ RoomGameStart(s)
      BY <3>2 DEF DevEcho, LobbyList, LobbyChat, LobbyWisper, LobbyRoomList,
                  LobbyUserList, SendList, RoomChat, RoomGameStart, Answer
    <3>3. ASSUME NEW id \in Ids, NEW o \in Offsets, Login(s, id, <<s, o>>)
          PROVE  Effective(s)
      BY <3>1, <3>3, Zenon DEF Effective
    <3>4. ASSUME NEW l \in 0 .. MaxLobbyCount, LobbyEnter(s, l)
          PROVE  Effective(s)
      BY <3>1, <3>4 DEF Effective
    <3>5. ASSUME NEW r \in 0 .. MaxRoomCountByLobby, NEW create \in BOOLEAN,
                 RoomEnter(s, create, r)
          PROVE  Effective(s)
      BY <3>1, <3>5 DEF Effective
    <3>6. CASE LobbyLeave(s) \/ RoomLeave(s) \/ RoomMasterGameStart(s)
      BY <3>6 DEF Effective
    <3> QED
      BY <2>3, <3>2, <3>3, <3>4, <3>5, <3>6 DEF ClientPacket
  <2> QED
    BY <2>1, <2>2, <2>3
<1> QED
  BY <1>1, <1>2

LEMMA LobbyInvInit == Init => LobbyInv
<1> SUFFICES ASSUME Init PROVE LobbyInv
  OBVIOUS
<1> USE RoomAssumption, LobbyAssumption
<1>1. /\ \A u \in Users : user[u].state = "NONE"
      /\ \A l \in Lobbies : lobbyUsers[l] = {}
      /\ \A l \in Lobbies : lobbySlots[l] = [i \in Slots |-> NoUser]
      /\ \A l \in Lobbies, r \in Rooms : room[l][r].users = <<>>
      /\ \A s \in Sessions : userSessionDic[s] = NoUser
      /\ \A s \in Sessions : ~connectedUser[s].login
  BY DEF Init, UserManagerInit, LobbyInit, NewUser, NewRoom, NotConnected
<1>2. PlaceInv
  <2>1. lobbyUsers \in [Lobbies -> SUBSET Users] /\ SlotsTyped
    BY DEF Init, LobbyInit, SlotsTyped
  <2>2. Lodged /\ LobbyMembership
    BY <1>1 DEF Lodged, LobbyMembership, Lodges
  <2>3. SlotsHold /\ SlotsOnce
    <3>1. \A u \in Users : u # NoUser
      BY DEF Users, NoUser
    <3>2. \A l \in Lobbies : \A i \in Slots : lobbySlots[l][i] = NoUser
      BY <1>1
    <3> QED
      BY <1>1, <3>1, <3>2 DEF SlotsHold, SlotsOnce
  <2>4. LobbyCapacity
    <3>1. \A l \in Lobbies : Cardinality(lobbyUsers[l]) = 0
      BY <1>1, FS_EmptySet
    <3>2. 0 <= MaxLobbyUserCount
      OBVIOUS
    <3> QED
      BY <3>1, <3>2 DEF LobbyCapacity
  <2> QED
    BY <2>1, <2>2, <2>3, <2>4 DEF PlaceInv
<1>3. MembersBound /\ MarksMatch /\ RoomCapacity
  BY <1>1 DEF MembersBound, MarksMatch, RoomCapacity, Lodges
<1> QED
  BY <1>2, <1>3, RoomInvInit DEF LobbyInv, MemberInv

LEMMA LobbyInvNext == LobbyInv /\ [Next]_vars => LobbyInv'
<1> SUFFICES ASSUME LobbyInv, [Next]_vars PROVE LobbyInv'
  OBVIOUS
<1>1. RoomInv'
  BY RoomInvNext DEF LobbyInv
<1>2. CASE UNCHANGED serverVars
  BY <1>1, <1>2, NothingMoves DEF LobbyInv
<1>3. CASE \E s \in Sessions : Effective(s)
  <2>1. PICK s \in Sessions : Effective(s)
    BY <1>3
  <2>2. MemberInv'
    BY <2>1, ConnectMembers, CloseMembers, LoginMembers, LobbyEnterMembers,
       LobbyLeaveMembers, RoomEnterMembers, RoomLeaveMembers, GameStartMembers
    DEF Effective
  <2> QED
    BY <1>1, <2>2 DEF LobbyInv
<1> QED
  BY <1>2, <1>3, EffectiveSteps

-----------------------------------------------------------------------------
\* A member of a lobby is in one slot, and nobody else is in any.
LEMMA SlotsCount ==
  ASSUME SlotsHold, SlotsOnce
  PROVE  OneSlotEach
<1> SUFFICES ASSUME NEW l \in Lobbies, NEW u \in Users
             PROVE  Cardinality({i \in Slots : lobbySlots[l][i] = u})
                        = (IF u \in lobbyUsers[l] THEN 1 ELSE 0)
  BY DEF OneSlotEach
<1> DEFINE S == {i \in Slots : lobbySlots[l][i] = u}
<1>1. CASE u \in lobbyUsers[l]
  <2>1. PICK k \in Slots : lobbySlots[l][k] = u
    BY <1>1 DEF SlotsHold
  <2>2. u # NoUser
    BY DEF Users, NoUser
  <2>3. S = {k}
    BY <2>1, <2>2 DEF SlotsOnce
  <2> QED
    BY <1>1, <2>3, FS_Singleton
<1>2. CASE u \notin lobbyUsers[l]
  <2>1. S = {}
    BY <1>2 DEF SlotsHold
  <2> QED
    BY <1>2, <2>1, FS_EmptySet
<1> QED
  BY <1>1, <1>2

(* Whatever the clients do, a lobby's map, its slots and the states of its *)
(* members agree: a lobby with space in its map has an empty slot.         *)
THEOREM LobbiesCorrect == Spec => []LobbyIndexesAgree
<1>1. LobbyInv => LobbyIndexesAgree
  BY SlotsCount DEF LobbyInv, MemberInv, PlaceInv, LobbyIndexesAgree
<1> QED
  BY <1>1, LobbyInvInit, LobbyInvNext, PTL DEF Spec

\* What `early' says of the connect marks, in whatever order packets come.
EarlyInv == connectedUser \in [Sessions -> ConnectedUser] /\ LoginConnected

LEMMA EarlyNext ==
  ASSUME EarlyInv, [Next]_vars
  PROVE  EarlyInv'
<1> USE DEF ConnectedUser
<1>1. CASE UNCHANGED vars
  BY <1>1 DEF vars, EarlyInv, LoginConnected
<1>2. ASSUME NEW s \in Sessions, ConnectSession(s)
      PROVE  EarlyInv'
  <2>1. /\ connectedUser' = [connectedUser EXCEPT ![s].connected = TRUE]
        /\ early' = early \ {s}
    BY <1>2 DEF ConnectSession
  <2>2. connectedUser' \in [Sessions -> ConnectedUser]
    BY <2>1 DEF EarlyInv
  <2>3. connectedUser'[s].connected
    BY <2>1 DEF EarlyInv
  <2>4. \A t \in Sessions : t # s => /\ connectedUser'[t] = connectedUser[t]
                                    /\ (t \in early => t \in early')
    BY <2>1 DEF EarlyInv
  <2>5. LoginConnected'
    BY <2>3, <2>4 DEF EarlyInv, LoginConnected
  <2> QED
    BY <2>2, <2>5 DEF EarlyInv
<1>3. ASSUME NEW s \in Sessions, CloseSession(s)
      PROVE  EarlyInv'
  <2>1. /\ connectedUser' = [connectedUser EXCEPT ![s] = NotConnected]
        /\ early' = early \ {s}
    BY <1>3 DEF CloseSession, SetDisconnected
  <2>2. connectedUser' \in [Sessions -> ConnectedUser]
    BY <2>1 DEF EarlyInv, NotConnected
  <2>3. ~connectedUser'[s].login
    BY <2>1 DEF EarlyInv, NotConnected
  <2>4. \A t \in Sessions : t # s => /\ connectedUser'[t] = connectedUser[t]
                                    /\ (t \in early => t \in early')
    BY <2>1 DEF EarlyInv
  <2>5. LoginConnected'
    BY <2>3, <2>4 DEF EarlyInv, LoginConnected
  <2> QED
    BY <2>2, <2>5 DEF EarlyInv
<1>4. ASSUME NEW s \in Sessions, ClientPacket(s)
      PROVE  EarlyInv'
  <2>1. /\ \A t \in Sessions : t \in early => t \in early'
        /\ ~connectedUser[s].connected => s \in early'
    BY <1>4 DEF ClientPacket
  <2>2. \/ UNCHANGED connectedUser
        \/ connectedUser' = [connectedUser EXCEPT ![s].login = TRUE]
    BY <1>4
    DEF ClientPacket, DevEcho, Login, LobbyList, LobbyEnter, LobbyLeave,
        LobbyRoomList, LobbyUserList, SendList, LobbyChat, LobbyWisper,
        RoomEnter, RoomLeave, RoomChat, RoomMasterGameStart, RoomGameStart,
        Answer, serverVars
  <2>3. CASE UNCHANGED connectedUser
    BY <2>1, <2>3 DEF EarlyInv, LoginConnected
  <2>4. CASE connectedUser' = [connectedUser EXCEPT ![s].login = TRUE]
    <3>1. connectedUser' \in [Sessions -> ConnectedUser]
      BY <2>4 DEF EarlyInv
    <3>2. connectedUser[s].connected => connectedUser'[s].connected
      BY <2>4 DEF EarlyInv
    <3>3. \A t \in Sessions : t # s => connectedUser'[t] = connectedUser[t]
      BY <2>4 DEF EarlyInv
    <3> QED
      BY <2>1, <3>1, <3>2, <3>3, Zenon DEF EarlyInv, LoginConnected
  <2> QED
    BY <2>2, <2>3, <2>4
<1> QED
  BY <1>1, <1>2, <1>3, <1>4 DEF Next

LEMMA EarlyInit == Init => EarlyInv
BY DEF Init, EarlyInv, LoginConnected, ConnectedUser, NotConnected

(* Packets may come in any order, CONNECTs and CLOSEs of a client's own    *)
(* among them: the login mark always says what the session map says, and   *)
(* only a login that came without a connect mark is marked without one.    *)
THEOREM MarksCorrect == Spec => []LoginMarkAgrees
<1>1. LobbyInv /\ EarlyInv => LoginMarkAgrees
  BY DEF LobbyInv, MemberInv, EarlyInv, LoginMarkAgrees
<1>2. EarlyInv /\ [Next]_vars => EarlyInv'
  BY EarlyNext
<1> QED
  BY <1>1, <1>2, EarlyInit, LobbyInvInit, LobbyInvNext, PTL DEF Spec

(* A CLOSE leaves nobody behind in a lobby, also when a session has logged *)
(* in twice: every member is the user its session's entry leads to. That   *)
(* session is connected, unless its requests came while it was not.        *)
THEOREM NobodyLeftBehind == Spec => []MembersOnline
<1>1. LobbyInv /\ EarlyInv => MembersOnline
  <2> SUFFICES ASSUME LobbyInv, EarlyInv, NEW l \in Lobbies,
                      NEW u \in lobbyUsers[l], NEW s, s = user[u].session
               PROVE  /\ userSessionDic[s] = u
                      /\ connectedUser[s].connected \/ s \in early
    BY DEF MembersOnline
  <2>1. u \in Users
    BY DEF LobbyInv, MemberInv, PlaceInv
  <2>2. Lodges(u)
    BY <2>1 DEF LobbyInv, MemberInv, PlaceInv, LobbyMembership, Lodges
  <2>3. s \in Sessions /\ userSessionDic[s] = u
    BY <2>1, <2>2 DEF LobbyInv, MemberInv, MembersBound
  <2>4. u # NoUser
    BY <2>1 DEF Users, NoUser
  <2>5. connectedUser[s].login
    BY <2>3, <2>4, Zenon DEF LobbyInv, MemberInv, MarksMatch
  <2> QED
    BY <2>3, <2>5, Zenon DEF EarlyInv, LoginConnected
<1>2. EarlyInv /\ [Next]_vars => EarlyInv'
  BY EarlyNext
<1> QED
  BY <1>1, <1>2, EarlyInit, LobbyInvInit, LobbyInvNext, PTL DEF Spec

\* Only sessions send packets.
LEMMA EarlySessions == Spec => [](early \subseteq Sessions)
<1>1. Init => early \subseteq Sessions
  BY DEF Init
<1>2. early \subseteq Sessions /\ [Next]_vars => (early \subseteq Sessions)'
  BY DEF Next, vars, ConnectSession, CloseSession, ClientPacket
<1> QED
  BY <1>1, <1>2, PTL DEF Spec

(* No handler lets a lobby or a room past its capacity.                    *)
THEOREM TypesAndCapacities == Spec => []ServerTypeOK
<1>1. LobbyInv /\ early \subseteq Sessions => ServerTypeOK
  BY DEF LobbyInv, RoomInv, MemberInv, PlaceInv, UserManagerInv, StateTypes,
         SlotsTyped, LobbyCapacity, RoomCapacity, ServerTypeOK
<1> QED
  BY <1>1, EarlySessions, LobbyInvInit, LobbyInvNext, PTL DEF Spec
=============================================================================
