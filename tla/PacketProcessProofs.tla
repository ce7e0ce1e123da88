------------------------ MODULE PacketProcessProofs ------------------------
(***************************************************************************)
(* Proofs about PacketProcess, for every number of users, sessions,        *)
(* lobbies and rooms and every capacity.                                   *)
(***************************************************************************)
EXTENDS PacketProcess, UserManagerProofs, WellFoundedInduction

\* The members of a lobby's map and slots are not constrained here: where a
\* user is, for the rooms, is only a matter of its own state.
StateTypes ==
    /\ lobbyUsers \in [Lobbies -> SUBSET Users]
    /\ room \in [Lobbies -> [Rooms -> RoomRecord]]
    /\ connectedUser \in [Sessions -> ConnectedUser]

UnconfirmedIdle == \A u \in Users : ~user[u].confirm => user[u].state = "NONE"

RoomInv ==
    UserManagerInv /\ StateTypes /\ UnconfirmedIdle /\ RoomMembership

USE DEF Lobbies, Rooms, NoRoom
-----------------------------------------------------------------------------
\* vector::erase keeps the order and takes out one member.
LEMMA EraseFacts ==
  ASSUME NEW users \in Seq(Users), NoRepeat(users), NEW u \in Range(users)
  PROVE  /\ Erase(users, u) \in Seq(Users)
         /\ Len(Erase(users, u)) = Len(users) - 1
         /\ Range(Erase(users, u)) = Range(users) \ {u}
         /\ NoRepeat(Erase(users, u))
<1> DEFINE k == CHOOSE i \in DOMAIN users :
                    /\ users[i] = u
                    /\ \A j \in DOMAIN users : users[j] = u => i <= j
           rest == [i \in 1 .. Len(users) - 1 |->
                        IF i < k THEN users[i] ELSE users[i + 1]]
<1>1. Len(users) \in Nat /\ DOMAIN users = 1 .. Len(users)
  OBVIOUS
<1>2. k \in 1 .. Len(users) /\ users[k] = u
  <2>1. PICK n \in DOMAIN users : users[n] = u
    BY DEF Range
  <2>2. \A j \in DOMAIN users : users[j] = u => n <= j
    BY <1>1, <2>1 DEF NoRepeat
  <2> QED
    BY <1>1, <2>1, <2>2
<1>3. Erase(users, u) = rest
  BY DEF Erase
<1> HIDE DEF k
<1>4. rest \in Seq(Users) /\ Len(rest) = Len(users) - 1
      /\ DOMAIN rest = 1 .. Len(users) - 1
  <2>1. \A i \in 1 .. Len(users) - 1 : rest[i] \in Users
    BY <1>1
  <2>2. Len(users) - 1 \in Nat
    BY <1>1, <1>2
  <2> HIDE DEF rest
  <2>3. rest = [i \in 1 .. Len(users) - 1 |-> rest[i]]
    BY DEF rest
  <2> QED
    BY <2>1, <2>2, <2>3
<1>5. Range(rest) = Range(users) \ {u}
  <2>1. ASSUME NEW i \in 1 .. Len(users) - 1
        PROVE  rest[i] \in Range(users) \ {u}
    <3>1. CASE i < k
      <4>1. rest[i] = users[i] /\ i \in DOMAIN users /\ i # k
        BY <1>1, <1>2, <3>1
      <4>2. users[i] # u
        BY <1>1, <1>2, <4>1 DEF NoRepeat
      <4> HIDE DEF rest
      <4> QED
        BY <4>1, <4>2 DEF Range
    <3>2. CASE ~(i < k)
      <4>1. rest[i] = users[i + 1] /\ i + 1 \in DOMAIN users /\ i + 1 # k
        BY <1>1, <1>2, <3>2
      <4>2. users[i + 1] # u
        BY <1>1, <1>2, <4>1 DEF NoRepeat
      <4> HIDE DEF rest
      <4> QED
        BY <4>1, <4>2 DEF Range
    <3> QED
      BY <3>1, <3>2
  <2>2. ASSUME NEW v \in Range(users), v # u
        PROVE  \E i \in 1 .. Len(users) - 1 : rest[i] = v
    <3>1. PICK n \in 1 .. Len(users) : users[n] = v
      BY <1>1 DEF Range
    <3>2. n # k
      BY <1>2, <2>2, <3>1
    <3>3. CASE n < k
      <4>1. n \in 1 .. Len(users) - 1 /\ rest[n] = v
        BY <1>1, <1>2, <3>1, <3>3
      <4> QED
        BY <4>1
    <3>4. CASE n > k
      <4>1. n - 1 \in 1 .. Len(users) - 1 /\ rest[n - 1] = users[n - 1 + 1]
        BY <1>1, <1>2, <3>1, <3>4
      <4>2. rest[n - 1] = v
        BY <3>1, <4>1
      <4> QED
        BY <4>1, <4>2
    <3> QED
      BY <1>1, <1>2, <3>1, <3>2, <3>3, <3>4
  <2> HIDE DEF rest
  <2> QED
    BY <1>4, <2>1, <2>2 DEF Range
<1>6. NoRepeat(rest)
  <2> SUFFICES ASSUME NEW i \in 1 .. Len(users) - 1,
                      NEW j \in 1 .. Len(users) - 1, rest[i] = rest[j]
               PROVE  i = j
    BY <1>4 DEF NoRepeat
  <2> DEFINE at(n) == IF n < k THEN n ELSE n + 1
  <2>1. /\ rest[i] = users[at(i)] /\ at(i) \in DOMAIN users
        /\ rest[j] = users[at(j)] /\ at(j) \in DOMAIN users
    BY <1>1, <1>2
  <2>2. at(i) = at(j)
    BY <2>1 DEF NoRepeat
  <2> QED
    BY <1>1, <1>2, <2>2
<1> QED
  BY <1>3, <1>4, <1>5, <1>6

-----------------------------------------------------------------------------
\* < is well-founded on the natural numbers, so a search through a vector
\* finds the least index there is.
LEMMA LessThanWellFounded ==
  IsWellFoundedOn({ss \in Nat \X Nat : ss[1] < ss[2]}, Nat)
BY NatLessThanWellFounded, Zenon DEF OpToRel

LEMMA FirstFacts ==
  ASSUME NEW S, S \subseteq Nat, S # {}
  PROVE  First(S) \in S /\ \A j \in S : First(S) <= j
<1> DEFINE R == {ss \in Nat \X Nat : ss[1] < ss[2]}
<1>1. IsWellFoundedOn(R, Nat)
  BY LessThanWellFounded, Zenon
<1> HIDE DEF R
<1>2. PICK i \in S : \A j \in S : ~(<<j, i>> \in R)
  BY <1>1, WFMin, Zenon
<1>3. \A j, k \in Nat : j < k => <<j, k>> \in R
  BY SMT DEF R
<1>4. \A j \in S : i <= j
  <2>1. \A j \in S : ~(j < i)
    BY <1>2, <1>3
  <2> QED
    BY <2>1
<1> QED
  BY <1>4, Zenon DEF First

-----------------------------------------------------------------------------
\* GetUser gives a confirmed user that names the session, or no user.
LEMMA GetUserFacts ==
  ASSUME UserManagerInv, NEW s \in Sessions
  PROVE  /\ GetUser(s) = userSessionDic[s]
         /\ GetUserError(s) = "NONE" <=> GetUser(s) # NoUser
         /\ GetUser(s) # NoUser => /\ GetUser(s) \in Users
                                  /\ user[GetUser(s)].confirm
                                  /\ user[GetUser(s)].session = s
                                  /\ user[GetUser(s)] \in User
<1>1. userSessionDic[s] \in Users \cup {NoUser}
  BY DEF UserManagerInv, UserManagerTypeOK
<1>2. CASE userSessionDic[s] = NoUser
  BY <1>2 DEF GetUser, GetUserError
<1>3. CASE userSessionDic[s] # NoUser
  <2>1. /\ userSessionDic[s] \in Users
        /\ user[userSessionDic[s]].confirm
        /\ user[userSessionDic[s]].session = s
    BY <1>1, <1>3 DEF UserManagerInv, SessionBinding
  <2>2. user[userSessionDic[s]] \in User
    BY <2>1 DEF UserManagerInv, UserManagerTypeOK
  <2> QED
    BY <1>3, <2>1, <2>2 DEF GetUser, GetUserError
<1> QED
  BY <1>2, <1>3

\* What EnterLobby and LeaveLobby of User change.
LEMMA InLobbyFacts ==
  ASSUME NEW u \in Users, user[u] \in User, NEW l \in Int
  PROVE  /\ InLobby(u, l) \in User
         /\ InLobby(u, l).state = "LOBBY"
         /\ InLobby(u, l).confirm = user[u].confirm
         /\ InLobby(u, l).session = user[u].session
BY DEF InLobby, User, States

LEMMA OutOfLobbyFacts ==
  ASSUME NEW u \in Users, user[u] \in User
  PROVE  /\ OutOfLobby(u) \in User
         /\ OutOfLobby(u).state = "LOGIN"
         /\ OutOfLobby(u).confirm = user[u].confirm
         /\ OutOfLobby(u).session = user[u].session
BY DEF OutOfLobby, User, States

\* The lobby's handlers move a user and leave the user manager's own
\* bookkeeping as it is.
LEMMA MoveUser ==
  ASSUME UserManagerInv, UnconfirmedIdle,
         NEW u \in Users, user[u].confirm,
         NEW moved \in User,
         moved.confirm = user[u].confirm, moved.session = user[u].session,
         user' = [user EXCEPT ![u] = moved],
         UNCHANGED <<freeUsers, userSessionDic, userIDDic>>
  PROVE  /\ UserManagerInv' /\ UnconfirmedIdle'
         /\ user'[u] = moved
         /\ \A v \in Users : v # u => user'[v] = user[v]
<1> USE DEF UserManagerInv, UserManagerTypeOK
<1>1. /\ user'[u] = moved
      /\ \A v \in Users : v # u => user'[v] = user[v]
  OBVIOUS
<1>2. \A v \in Users : /\ user'[v].confirm = user[v].confirm
                       /\ user'[v].session = user[v].session
  BY <1>1
<1>3. UserManagerTypeOK'
  OBVIOUS
<1>4. FreeListExact'
  <2>1. NoDuplicateIndex'
    BY DEF FreeListExact, NoDuplicateIndex
  <2>2. FreeIndicesUnused'
    <3> SUFFICES ASSUME NEW i \in 1 .. Len(freeUsers)
                 PROVE  ~user'[freeUsers[i]].confirm
      BY DEF FreeIndicesUnused
    <3>1. freeUsers[i] \in Users /\ ~user[freeUsers[i]].confirm
      BY DEF FreeListExact, FreeIndicesUnused
    <3> QED
      BY <1>2, <3>1
  <2>3. UnusedIndicesFree'
    BY <1>2 DEF FreeListExact, UnusedIndicesFree
  <2> QED
    BY <2>1, <2>2, <2>3 DEF FreeListExact
<1>5. SessionBinding'
  <2> SUFFICES ASSUME NEW t \in Sessions, userSessionDic[t] # NoUser
               PROVE  /\ user'[userSessionDic[t]].confirm
                      /\ user'[userSessionDic[t]].session = t
    BY DEF SessionBinding
  <2>1. userSessionDic[t] \in Users
    OBVIOUS
  <2> QED
    BY <1>2, <2>1 DEF SessionBinding
<1>6. UnconfirmedIdle'
  BY <1>1 DEF UnconfirmedIdle
<1> QED
  BY <1>1, <1>3, <1>4, <1>5, <1>6

-----------------------------------------------------------------------------
\* The user's own state puts it in a room of the server.
Housed(v) == /\ user[v].state = "ROOM"
             /\ user[v].lobby \in Lobbies
             /\ user[v].room \in Rooms

\* The rooms stay right when users move who are in no room before or after.
LEMMA OutsideRooms ==
  ASSUME RoomMembership, room' = room,
         \A v \in Users : user'[v] = user[v] \/ /\ ~Housed(v)
                                                /\ user'[v].state # "ROOM"
  PROVE  RoomMembership'
<1> SUFFICES ASSUME NEW l \in Lobbies, NEW r \in Rooms
             PROVE  RoomHolds(l, r)'
  BY DEF RoomMembership
<1>1. RoomHolds(l, r)
  BY DEF RoomMembership
<1> QED
  BY <1>1 DEF RoomHolds, Housed

\* One user enters one room, at the end of its members.
LEMMA JoinRoom ==
  ASSUME StateTypes, RoomMembership,
         NEW u \in Users, NEW l \in Lobbies, NEW r \in Rooms,
         user[u].state # "ROOM",
         user'[u].state = "ROOM", user'[u].lobby = l, user'[u].room = r,
         \A v \in Users : v # u => user'[v] = user[v],
         NEW rm \in RoomRecord,
         rm.used, rm.users = room[l][r].users,
         room' = [room EXCEPT ![l][r] = EnterRoom(rm, u)]
  PROVE  RoomMembership' /\ room' \in [Lobbies -> [Rooms -> RoomRecord]]
<1> DEFINE old == room[l][r].users
<1>1. /\ old \in Seq(Users) /\ Len(old) \in Nat
      /\ DOMAIN old = 1 .. Len(old)
      /\ u \notin Range(old) /\ NoRepeat(old)
      /\ \A v \in Users : v \in Range(old) <=> /\ user[v].state = "ROOM"
                                               /\ user[v].lobby = l
                                               /\ user[v].room = r
  BY DEF StateTypes, RoomRecord, RoomMembership, RoomHolds
<1>2. /\ EnterRoom(rm, u).used
      /\ EnterRoom(rm, u).users = Append(old, u)
      /\ EnterRoom(rm, u) \in RoomRecord
  BY <1>1 DEF EnterRoom, RoomRecord
<1>3. /\ room'[l][r] = EnterRoom(rm, u)
      /\ \A l2 \in Lobbies, r2 \in Rooms :
             <<l2, r2>> # <<l, r>> => room'[l2][r2] = room[l2][r2]
      /\ room' \in [Lobbies -> [Rooms -> RoomRecord]]
  BY <1>2 DEF StateTypes
<1>4. /\ Range(Append(old, u)) = Range(old) \cup {u}
      /\ NoRepeat(Append(old, u))
      /\ Append(old, u) # <<>>
  <2> DEFINE new == Append(old, u)
  <2>1. /\ DOMAIN new = 1 .. Len(old) + 1
        /\ new[Len(old) + 1] = u
        /\ \A i \in 1 .. Len(old) : new[i] = old[i]
    BY <1>1
  <2>2. \A i \in 1 .. Len(old) : old[i] # u
    BY <1>1 DEF Range
  <2> HIDE DEF new
  <2>3. Range(new) = Range(old) \cup {u}
    <3>1. ASSUME NEW v \in Range(new) PROVE v \in Range(old) \cup {u}
      BY <1>1, <2>1 DEF Range
    <3>2. ASSUME NEW v \in Range(old) PROVE v \in Range(new)
      BY <1>1, <2>1 DEF Range
    <3>3. u \in Range(new)
      BY <1>1, <2>1 DEF Range
    <3> QED
      BY <3>1, <3>2, <3>3
  <2>4. NoRepeat(new)
    <3> SUFFICES ASSUME NEW i \in 1 .. Len(old) + 1,
                        NEW j \in 1 .. Len(old) + 1, new[i] = new[j]
                 PROVE  i = j
      BY <2>1 DEF NoRepeat
    <3> DEFINE n == Len(old)
    <3>1. \A k \in 1 .. n + 1 : k = n + 1 \/ k \in 1 .. n
      <4>1. n \in Nat
        BY <1>1
      <4> HIDE DEF n
      <4> QED
        BY <4>1
    <3>2. CASE i \in 1 .. Len(old) /\ j \in 1 .. Len(old)
      <4>1. old[i] = old[j] /\ i \in DOMAIN old /\ j \in DOMAIN old
        BY <1>1, <2>1, <3>2
      <4>2. \A a, b \in DOMAIN old : old[a] = old[b] => a = b
        BY <1>1 DEF NoRepeat
      <4> QED
        BY <4>1, <4>2
    <3> QED
      BY <2>1, <2>2, <3>1, <3>2
  <2>5. new # <<>>
    BY <1>1, <2>1
  <2> QED
    BY <2>3, <2>4, <2>5 DEF new
<1> SUFFICES ASSUME NEW l2 \in Lobbies, NEW r2 \in Rooms
             PROVE  /\ RoomHolds(l2, r2)'
                    /\ NoRepeat(room'[l2][r2].users)
                    /\ room'[l2][r2].used <=> room'[l2][r2].users # <<>>
  BY <1>3 DEF RoomMembership
<1>5. CASE l2 = l /\ r2 = r
  <2>1. ASSUME NEW v \in Users
        PROVE  v \in Range(Append(old, u)) <=> /\ user'[v].state = "ROOM"
                                               /\ user'[v].lobby = l
                                               /\ user'[v].room = r
    <3>1. CASE v = u
      BY <1>4, <3>1
    <3>2. CASE v # u
      BY <1>1, <1>4, <3>2
    <3> QED
      BY <3>1, <3>2
  <2>2. room'[l][r].users = Append(old, u) /\ room'[l][r].used
    BY <1>2, <1>3
  <2>3. RoomHolds(l, r)'
    BY <2>1, <2>2 DEF RoomHolds
  <2> QED
    BY <1>4, <1>5, <2>2, <2>3
<1>6. CASE ~(l2 = l /\ r2 = r)
  <2>1. room'[l2][r2] = room[l2][r2]
    BY <1>3, <1>6
  <2>2. RoomHolds(l2, r2)
    BY DEF RoomMembership
  <2>3. ASSUME NEW v \in Users
        PROVE  v \in Range(room[l2][r2].users) <=> /\ user'[v].state = "ROOM"
                                                   /\ user'[v].lobby = l2
                                                   /\ user'[v].room = r2
    <3>1. CASE v = u
      BY <1>6, <2>2, <3>1 DEF RoomHolds
    <3>2. CASE v # u
      BY <2>2, <3>2 DEF RoomHolds
    <3> QED
      BY <3>1, <3>2
  <2>4. RoomHolds(l2, r2)'
    BY <2>1, <2>3 DEF RoomHolds
  <2> QED
    BY <2>1, <2>4 DEF RoomMembership
<1> QED
  BY <1>5, <1>6

\* One user leaves the room it is in, if it is in one: LeaveRoom does nothing
\* for a user that is not a member, and the last member frees the room.
LEMMA QuitRoom ==
  ASSUME StateTypes, RoomMembership,
         NEW u \in Users, NEW l \in Lobbies, NEW r \in Rooms,
         Housed(u) => user[u].lobby = l /\ user[u].room = r,
         user'[u].state # "ROOM",
         \A v \in Users : v # u => user'[v] = user[v],
         room' = [room EXCEPT ![l][r] = LeaveRoom(room[l][r], u)]
  PROVE  RoomMembership' /\ room' \in [Lobbies -> [Rooms -> RoomRecord]]
<1> DEFINE rm  == room[l][r]
           new == LeaveRoom(rm, u)
<1>1. /\ rm \in RoomRecord
      /\ rm.users \in Seq(Users) /\ Len(rm.users) \in Nat
      /\ NoRepeat(rm.users) /\ (rm.used <=> rm.users # <<>>)
      /\ \A v \in Users : v \in Range(rm.users) <=> /\ user[v].state = "ROOM"
                                                    /\ user[v].lobby = l
                                                    /\ user[v].room = r
  <2>1. rm \in RoomRecord
    BY DEF StateTypes
  <2>2. rm.users \in Seq(Users) /\ Len(rm.users) \in Nat
    BY <2>1 DEF RoomRecord
  <2>3. RoomHolds(l, r) /\ NoRepeat(rm.users) /\ (rm.used <=> rm.users # <<>>)
    BY DEF RoomMembership
  <2> QED
    BY <2>1, <2>2, <2>3 DEF RoomHolds
<1>2. /\ new \in RoomRecord
      /\ Range(new.users) = Range(rm.users) \ {u}
      /\ NoRepeat(new.users)
      /\ new.used <=> new.users # <<>>
  <2>1. CASE LeaveRoomError(rm, u) # "NONE"
    <3>1. new = rm
      BY <2>1 DEF LeaveRoom
    <3>2. u \notin Range(rm.users)
      <4>1. CASE ~rm.used
        BY <1>1, <4>1 DEF Range
      <4>2. CASE rm.used
        BY <2>1, <4>2 DEF LeaveRoomError
      <4> QED
        BY <4>1, <4>2
    <3> QED
      BY <1>1, <3>1, <3>2
  <2>2. CASE LeaveRoomError(rm, u) = "NONE"
    <3>1. u \in Range(rm.users) /\ rm.used
      BY <2>2 DEF LeaveRoomError
    <3>2. /\ Erase(rm.users, u) \in Seq(Users)
          /\ Len(Erase(rm.users, u)) = Len(rm.users) - 1
          /\ Range(Erase(rm.users, u)) = Range(rm.users) \ {u}
          /\ NoRepeat(Erase(rm.users, u))
      BY <1>1, <3>1, EraseFacts
    <3>3. CASE Len(rm.users) = 1
      <4>1. new = ClearedRoom(rm)
        BY <2>2, <3>3 DEF LeaveRoom
      <4>2. new \in RoomRecord /\ ~new.used /\ new.users = <<>>
        BY <1>1, <4>1 DEF ClearedRoom, RoomRecord
      <4>3. Range(rm.users) = {u}
        BY <1>1, <3>1, <3>3 DEF Range
      <4>4. Range(<<>>) = {} /\ NoRepeat(<<>>)
        BY DEF Range, NoRepeat
      <4> QED
        BY <4>2, <4>3, <4>4
    <3>4. CASE Len(rm.users) # 1
      <4>1. new = Without(rm, u)
        BY <2>2, <3>4 DEF LeaveRoom
      <4>2. /\ new \in RoomRecord /\ new.used
            /\ new.users = Erase(rm.users, u)
        BY <1>1, <3>1, <3>2, <4>1 DEF Without, RoomRecord
      <4>3. rm.users # <<>> /\ Len(rm.users) # 0
        BY <1>1, <3>1
      <4>4. Len(Erase(rm.users, u)) # 0
        BY <1>1, <3>2, <3>4, <4>3
      <4>5. Erase(rm.users, u) # <<>>
        BY <4>4
      <4> QED
        BY <3>2, <4>2, <4>5
    <3> QED
      BY <3>3, <3>4
  <2> QED
    BY <2>1, <2>2
<1> HIDE DEF new
<1>3. /\ room'[l][r] = new
      /\ \A l2 \in Lobbies, r2 \in Rooms :
             <<l2, r2>> # <<l, r>> => room'[l2][r2] = room[l2][r2]
      /\ room' \in [Lobbies -> [Rooms -> RoomRecord]]
  BY <1>2 DEF StateTypes, new
<1> SUFFICES ASSUME NEW l2 \in Lobbies, NEW r2 \in Rooms
             PROVE  /\ RoomHolds(l2, r2)'
                    /\ NoRepeat(room'[l2][r2].users)
                    /\ room'[l2][r2].used <=> room'[l2][r2].users # <<>>
  BY <1>3 DEF RoomMembership
<1>4. CASE l2 = l /\ r2 = r
  <2>1. ASSUME NEW v \in Users
        PROVE  v \in Range(new.users) <=> /\ user'[v].state = "ROOM"
                                          /\ user'[v].lobby = l
                                          /\ user'[v].room = r
    <3>1. CASE v = u
      BY <1>2, <3>1
    <3>2. CASE v # u
      BY <1>1, <1>2, <3>2
    <3> QED
      BY <3>1, <3>2
  <2>2. RoomHolds(l, r)'
    BY <1>3, <2>1 DEF RoomHolds
  <2> QED
    BY <1>2, <1>3, <1>4, <2>2
<1>5. CASE ~(l2 = l /\ r2 = r)
  <2>1. room'[l2][r2] = room[l2][r2]
    BY <1>3, <1>5
  <2>2. RoomHolds(l2, r2)
    BY DEF RoomMembership
  <2>3. ASSUME NEW v \in Users
        PROVE  v \in Range(room[l2][r2].users) <=> /\ user'[v].state = "ROOM"
                                                   /\ user'[v].lobby = l2
                                                   /\ user'[v].room = r2
    <3>1. CASE v = u
      BY <1>5, <2>2, <3>1 DEF RoomHolds, Housed
    <3>2. CASE v # u
      BY <2>2, <3>2 DEF RoomHolds
    <3> QED
      BY <3>1, <3>2
  <2>4. RoomHolds(l2, r2)'
    BY <2>1, <2>3 DEF RoomHolds
  <2> QED
    BY <2>1, <2>4 DEF RoomMembership
<1> QED
  BY <1>4, <1>5

\* A game that starts leaves the members of its room where they are.
LEMMA StartGame ==
  ASSUME StateTypes, RoomMembership, user' = user,
         NEW l \in Lobbies, NEW r \in Rooms,
         room' = [room EXCEPT ![l][r] = Started(@)]
  PROVE  RoomMembership' /\ room' \in [Lobbies -> [Rooms -> RoomRecord]]
<1>1. room[l][r] \in RoomRecord
  BY DEF StateTypes
<1>2. /\ Started(room[l][r]) \in RoomRecord
      /\ Started(room[l][r]).users = room[l][r].users
      /\ Started(room[l][r]).used = room[l][r].used
  BY <1>1 DEF Started, RoomRecord, GameStates
<1>3. room' \in [Lobbies -> [Rooms -> RoomRecord]]
  BY <1>2 DEF StateTypes
<1>4. ASSUME NEW l2 \in Lobbies, NEW r2 \in Rooms
      PROVE  /\ room'[l2][r2].users = room[l2][r2].users
             /\ room'[l2][r2].used = room[l2][r2].used
  BY <1>2 DEF StateTypes
<1>5. RoomMembership'
  BY <1>4 DEF RoomMembership, RoomHolds
<1> QED
  BY <1>3, <1>5

-----------------------------------------------------------------------------
LEMMA NothingChanges ==
  ASSUME RoomInv, UNCHANGED serverVars
  PROVE  RoomInv'
BY DEF RoomInv, serverVars, UserManagerInv, UserManagerTypeOK, FreeListExact,
       NoDuplicateIndex, FreeIndicesUnused, UnusedIndicesFree, SessionBinding,
       StateTypes, UnconfirmedIdle, RoomMembership, RoomHolds

\* The handlers that answer and do nothing else.
LEMMA QueriesInv ==
  ASSUME RoomInv, NEW s \in Sessions,
         \/ DevEcho(s) \/ LobbyList(s) \/ LobbyChat(s)
         \/ \E address \in Addresses : LobbyWisper(s, address)
         \/ \E start \in Int : LobbyRoomList(s, start)
         \/ \E start \in Int : LobbyUserList(s, start)
         \/ RoomChat(s) \/ RoomGameStart(s)
  PROVE  RoomInv'
<1>1. UNCHANGED serverVars
  BY DEF DevEcho, LobbyList, LobbyChat, LobbyWisper, LobbyRoomList,
         LobbyUserList, SendList, RoomChat, RoomGameStart, Answer
<1> QED
  BY <1>1, NothingChanges

LEMMA ConnectInv ==
  ASSUME RoomInv, NEW s \in Sessions, ConnectSession(s)
  PROVE  RoomInv'
<1>1. /\ UNCHANGED <<user, freeUsers, userSessionDic, userIDDic, lobbyUsers,
                     lobbySlots, room>>
      /\ connectedUser' = [connectedUser EXCEPT ![s].connected = TRUE]
  BY DEF ConnectSession, userManagerVars, lobbyVars
<1>2. StateTypes'
  BY <1>1 DEF RoomInv, StateTypes, ConnectedUser
<1> QED
  BY <1>1, <1>2
  DEF RoomInv, UserManagerInv, UserManagerTypeOK, FreeListExact,
      NoDuplicateIndex, FreeIndicesUnused, UnusedIndicesFree, SessionBinding,
      UnconfirmedIdle, RoomMembership, RoomHolds

\* A login takes a User object that is in no room: nobody had confirmed it.
LEMMA LoginInv ==
  ASSUME RoomInv, NEW s \in Sessions, NEW id \in Ids, NEW key \in Addresses,
         Login(s, id, key)
  PROVE  RoomInv'
<1>1. CASE AddUserError(key) # "NONE"
  BY <1>1, NothingChanges DEF Login, Answer
<1>2. CASE AddUserError(key) = "NONE"
  <2> DEFINE u == Head(freeUsers)
  <2>1. /\ AddUser(s, id, key)
        /\ connectedUser' = [connectedUser EXCEPT ![s].login = TRUE]
        /\ UNCHANGED <<lobbyUsers, lobbySlots, room>>
    BY <1>2 DEF Login, Answer, lobbyVars
  <2>2. UserManagerInv'
    BY <2>1, AddUserInv DEF RoomInv
  <2>3. user' = [user EXCEPT ![u] = SetUser(u, s, id)]
    BY <1>2, <2>1 DEF AddUser
  <2>4. u \in Users /\ ~user[u].confirm
    <3>1. freeUsers # <<>> /\ freeUsers \in Seq(Users)
      BY <1>2 DEF AddUserError, RoomInv, UserManagerInv, UserManagerTypeOK
    <3>2. u = freeUsers[1] /\ u \in Users /\ 1 \in 1 .. Len(freeUsers)
      BY <3>1
    <3> QED
      BY <3>2 DEF RoomInv, UserManagerInv, FreeListExact, FreeIndicesUnused
  <2>5. user[u].state = "NONE" /\ user[u] \in User /\ user \in [Users -> User]
    BY <2>4 DEF RoomInv, UnconfirmedIdle, UserManagerInv, UserManagerTypeOK
  <2>6. SetUser(u, s, id).confirm /\ SetUser(u, s, id).state = "LOGIN"
    BY <2>5 DEF SetUser, User
  <2>7. /\ user'[u].confirm /\ user'[u].state = "LOGIN"
        /\ \A v \in Users : v # u => user'[v] = user[v]
    BY <2>3, <2>4, <2>5, <2>6
  <2>8. StateTypes'
    BY <2>1 DEF RoomInv, StateTypes, ConnectedUser
  <2>9. UnconfirmedIdle'
    BY <2>7 DEF RoomInv, UnconfirmedIdle
  <2>10. RoomMembership'
    <3>1. ~Housed(u) /\ user'[u].state # "ROOM"
      BY <2>5, <2>7 DEF Housed
    <3>2. \A v \in Users : user'[v] = user[v] \/ /\ ~Housed(v)
                                                 /\ user'[v].state # "ROOM"
      BY <2>7, <3>1
    <3> QED
      BY <2>1, <3>2, OutsideRooms DEF RoomInv
  <2> QED
    BY <2>2, <2>8, <2>9, <2>10 DEF RoomInv
<1> QED
  BY <1>1, <1>2

\* A disconnect takes the user out of the room of its stored indices, which is
\* the room it is in if it is in one, and clears the user.
LEMMA CloseInv ==
  ASSUME RoomInv, NEW s \in Sessions, CloseSession(s)
  PROVE  RoomInv'
<1> DEFINE u == GetUser(s)
<1>1. connectedUser' = [connectedUser EXCEPT ![s] = NotConnected]
  BY DEF CloseSession, SetDisconnected
<1>2. connectedUser' \in [Sessions -> ConnectedUser]
  BY <1>1 DEF RoomInv, StateTypes, ConnectedUser, NotConnected
<1>3. CASE u = NoUser
  <2>1. UNCHANGED <<user, freeUsers, userSessionDic, userIDDic, lobbyUsers,
                    lobbySlots, room>>
    BY <1>3 DEF CloseSession, userManagerVars, lobbyVars
  <2>2. StateTypes'
    BY <1>2, <2>1 DEF RoomInv, StateTypes
  <2> QED
    BY <2>1, <2>2
    DEF RoomInv, UserManagerInv, UserManagerTypeOK, FreeListExact,
        NoDuplicateIndex, FreeIndicesUnused, UnusedIndicesFree,
        SessionBinding, UnconfirmedIdle, RoomMembership, RoomHolds
<1>4. CASE u # NoUser
  <2>1. u \in Users /\ user[u].confirm /\ u = userSessionDic[s]
    BY <1>4, GetUserFacts DEF RoomInv
  <2>2. RemoveUser(s)
    BY <1>4 DEF CloseSession
  <2>3. UserManagerInv'
    BY <2>2, RemoveUserInv DEF RoomInv
  <2>4. /\ user'[u] = ClearedUser
        /\ \A v \in Users : v # u => user'[v] = user[v]
    BY <1>4, <2>1, <2>2
    DEF RemoveUser, RoomInv, UserManagerInv, UserManagerTypeOK
  <2>5. user'[u].state = "NONE"
    BY <2>4 DEF ClearedUser
  <2>6. UnconfirmedIdle'
    BY <2>4, <2>5 DEF RoomInv, UnconfirmedIdle
  <2> HIDE DEF u
  <2>7. CASE user[u].lobby \notin Lobbies
    <3>1. UNCHANGED <<lobbyUsers, lobbySlots, room>>
      BY <1>4, <2>7 DEF CloseSession, lobbyVars, u
    <3>2. \A v \in Users : user'[v] = user[v] \/ /\ ~Housed(v)
                                                 /\ user'[v].state # "ROOM"
      BY <2>4, <2>5, <2>7 DEF Housed
    <3>3. RoomMembership'
      BY <3>1, <3>2, OutsideRooms DEF RoomInv
    <3> QED
      BY <1>2, <2>3, <2>6, <3>1, <3>3 DEF RoomInv, StateTypes
  <2>8. CASE user[u].lobby \in Lobbies
    <3> DEFINE l == user[u].lobby
               r == GetRoom(user[u].room)
    <3>1. CloseInLobby(u, l)
      BY <1>4, <2>8 DEF CloseSession, u
    <3>2. lobbyUsers' \in [Lobbies -> SUBSET Users]
      <4>1. lobbyUsers' = [lobbyUsers EXCEPT ![l] = @ \ {u}]
        BY <3>1 DEF CloseInLobby, RemoveMember
      <4> QED
        BY <2>8, <4>1 DEF RoomInv, StateTypes
    <3>3. CASE r = NoRoom
      <4>1. room' = room
        BY <3>1, <3>3 DEF CloseInLobby
      <4>2. ~Housed(u)
        BY <3>3 DEF Housed, GetRoom
      <4>3. \A v \in Users : user'[v] = user[v] \/ /\ ~Housed(v)
                                                   /\ user'[v].state # "ROOM"
        BY <2>4, <2>5, <4>2
      <4>4. RoomMembership'
        BY <4>1, <4>3, OutsideRooms DEF RoomInv
      <4> QED
        BY <1>2, <2>3, <2>6, <3>2, <4>1, <4>4 DEF RoomInv, StateTypes
    <3>4. CASE r # NoRoom
      <4>1. r \in Rooms /\ r = user[u].room
        BY <3>4 DEF GetRoom
      <4>2. room' = [room EXCEPT ![l][r] = LeaveRoom(room[l][r], u)]
        BY <3>1, <3>4 DEF CloseInLobby
      <4>3. user'[u].state # "ROOM"
        BY <2>5
      <4> HIDE DEF l, r
      <4>4. l \in Lobbies /\ l = user[u].lobby
        BY <2>8 DEF l
      <4>5. RoomMembership' /\ room' \in [Lobbies -> [Rooms -> RoomRecord]]
        BY <2>1, <2>4, <4>1, <4>2, <4>3, <4>4, QuitRoom DEF RoomInv
      <4> QED
        BY <1>2, <2>3, <2>6, <3>2, <4>5 DEF RoomInv, StateTypes
    <3> QED
      BY <3>3, <3>4
  <2> QED
    BY <2>7, <2>8
<1> QED
  BY <1>3, <1>4

LEMMA LobbyEnterInv ==
  ASSUME RoomInv, NEW s \in Sessions, NEW l \in Int, LobbyEnter(s, l)
  PROVE  RoomInv'
<1>1. CASE LobbyEnterError(s, l) # "NONE"
  BY <1>1, NothingChanges DEF LobbyEnter, Answer
<1>2. CASE LobbyEnterError(s, l) = "NONE"
  <2> DEFINE u == GetUser(s)
  <2>1. /\ GetUserError(s) = "NONE" /\ user[u].state = "LOGIN"
        /\ l \in Lobbies
    BY <1>2 DEF LobbyEnterError
  <2>2. u \in Users /\ user[u].confirm /\ user[u] \in User
    BY <2>1, GetUserFacts DEF RoomInv
  <2>3. /\ user' = [user EXCEPT ![u] = InLobby(u, l)]
        /\ lobbyUsers' = [lobbyUsers EXCEPT ![l] = @ \cup {u}]
        /\ UNCHANGED <<freeUsers, userSessionDic, userIDDic, room,
                       connectedUser>>
    BY <1>2 DEF LobbyEnter, Answer, EnterLobby
  <2> HIDE DEF u
  <2>4. StateTypes'
    BY <2>2, <2>3 DEF RoomInv, StateTypes
  <2>5. /\ InLobby(u, l) \in User /\ InLobby(u, l).state = "LOBBY"
        /\ InLobby(u, l).confirm = user[u].confirm
        /\ InLobby(u, l).session = user[u].session
    BY <2>2, InLobbyFacts
  <2>6. /\ UserManagerInv' /\ UnconfirmedIdle'
        /\ user'[u] = InLobby(u, l)
        /\ \A v \in Users : v # u => user'[v] = user[v]
    BY <2>2, <2>3, <2>5, MoveUser DEF RoomInv
  <2>7. \A v \in Users : user'[v] = user[v] \/ /\ ~Housed(v)
                                               /\ user'[v].state # "ROOM"
    BY <2>1, <2>5, <2>6 DEF Housed, u
  <2>8. RoomMembership'
    BY <2>3, <2>7, OutsideRooms DEF RoomInv
  <2> QED
    BY <2>4, <2>6, <2>8 DEF RoomInv
<1> QED
  BY <1>1, <1>2

LEMMA LobbyLeaveInv ==
  ASSUME RoomInv, NEW s \in Sessions, LobbyLeave(s)
  PROVE  RoomInv'
<1>1. CASE LobbyLeaveError(s) # "NONE"
  <2>1. UNCHANGED <<user, freeUsers, userSessionDic, userIDDic, lobbyUsers,
                    room, connectedUser>>
    BY <1>1 DEF LobbyLeave
  <2> QED
    BY <2>1
    DEF RoomInv, UserManagerInv, UserManagerTypeOK, FreeListExact,
        NoDuplicateIndex, FreeIndicesUnused, UnusedIndicesFree, SessionBinding,
        StateTypes, UnconfirmedIdle, RoomMembership, RoomHolds
<1>2. CASE LobbyLeaveError(s) = "NONE"
  <2> DEFINE u == GetUser(s)
             l == user[u].lobby
  <2>1. /\ GetUserError(s) = "NONE" /\ user[u].state = "LOBBY"
        /\ l \in Lobbies
    BY <1>2 DEF LobbyLeaveError, InPlaceError
  <2>2. u \in Users /\ user[u].confirm /\ user[u] \in User
    BY <2>1, GetUserFacts DEF RoomInv
  <2>3. /\ user' = [user EXCEPT ![u] = OutOfLobby(u)]
        /\ lobbyUsers' = [lobbyUsers EXCEPT ![l] = @ \ {u}]
        /\ UNCHANGED <<freeUsers, userSessionDic, userIDDic, room,
                       connectedUser>>
    BY <1>2 DEF LobbyLeave, RemoveMember
  <2> HIDE DEF u
  <2>4. StateTypes'
    <3>1. lobbyUsers \in [Lobbies -> SUBSET Users]
      BY DEF RoomInv, StateTypes
    <3> HIDE DEF l
    <3>2. lobbyUsers' \in [Lobbies -> SUBSET Users]
      BY <2>1, <2>3, <3>1
    <3> QED
      BY <2>3, <3>2 DEF RoomInv, StateTypes
  <2>5. /\ OutOfLobby(u) \in User /\ OutOfLobby(u).state = "LOGIN"
        /\ OutOfLobby(u).confirm = user[u].confirm
        /\ OutOfLobby(u).session = user[u].session
    BY <2>2, OutOfLobbyFacts
  <2>6. /\ UserManagerInv' /\ UnconfirmedIdle'
        /\ user'[u] = OutOfLobby(u)
        /\ \A v \in Users : v # u => user'[v] = user[v]
    BY <2>2, <2>3, <2>5, MoveUser DEF RoomInv
  <2>7. \A v \in Users : user'[v] = user[v] \/ /\ ~Housed(v)
                                               /\ user'[v].state # "ROOM"
    BY <2>1, <2>5, <2>6 DEF Housed, u
  <2>8. RoomMembership'
    BY <2>3, <2>7, OutsideRooms DEF RoomInv
  <2> QED
    BY <2>4, <2>6, <2>8 DEF RoomInv
<1> QED
  BY <1>1, <1>2

\* Only a room that is in use, or that CreateRoom has just taken, is entered.
LEMMA RoomEnterInv ==
  ASSUME RoomInv, NEW s \in Sessions, NEW create \in BOOLEAN, NEW r \in Int,
         RoomEnter(s, create, r)
  PROVE  RoomInv'
<1>1. CASE RoomEnterError(s, create, r) # "NONE"
  BY <1>1, NothingChanges DEF RoomEnter, Answer
<1>2. CASE RoomEnterError(s, create, r) = "NONE"
  <2> DEFINE u   == GetUser(s)
             l   == user[u].lobby
             rIn == RoomToEnter(l, create, r)
             rm  == RoomToEnterRecord(l, create, r)
  <2>1. /\ GetUserError(s) = "NONE" /\ user[u].state = "LOBBY"
        /\ l \in Lobbies
    BY <1>2 DEF RoomEnterError, InPlaceError
  <2>2. u \in Users /\ user[u].confirm /\ user[u] \in User
    BY <2>1, GetUserFacts DEF RoomInv
  <2>3. rIn # NoRoom /\ EnterRoomError(rm) = "NONE"
    BY <1>2 DEF RoomEnterError
  <2>4. /\ user' = [user EXCEPT ![u] = InRoom(u, l, rIn)]
        /\ room' = [room EXCEPT ![l][rIn] = EnterRoom(rm, u)]
        /\ UNCHANGED <<freeUsers, userSessionDic, userIDDic, lobbyUsers,
                       connectedUser>>
    BY <1>2 DEF RoomEnter, Answer
  <2>5. rIn \in Rooms
    <3>1. CASE create
      <4>1. UnusedRooms(l) # {} /\ UnusedRooms(l) \subseteq Rooms
        BY <2>3, <3>1 DEF RoomToEnter, CreateRoom, UnusedRooms
      <4>2. rIn = First(UnusedRooms(l)) /\ UnusedRooms(l) \subseteq Nat
        BY <3>1, <4>1 DEF RoomToEnter, CreateRoom
      <4> QED
        BY <4>1, <4>2, FirstFacts
    <3>2. CASE ~create
      BY <2>3, <3>2 DEF RoomToEnter, GetRoom
    <3> QED
      BY <3>1, <3>2
  <2>6. rm \in RoomRecord /\ rm.used /\ rm.users = room[l][rIn].users
    <3>1. room[l][rIn] \in RoomRecord
      BY <2>1, <2>5 DEF RoomInv, StateTypes
    <3>2. rm.used
      BY <2>3 DEF EnterRoomError
    <3>3. rm = room[l][rIn] \/ rm = CreatedRoom(room[l][rIn])
      BY DEF RoomToEnterRecord
    <3> HIDE DEF u, l, rIn, rm
    <3>4. CASE rm = room[l][rIn]
      BY <3>1, <3>2, <3>4
    <3>5. CASE rm = CreatedRoom(room[l][rIn])
      BY <3>1, <3>2, <3>5 DEF CreatedRoom, RoomRecord
    <3> QED
      BY <3>3, <3>4, <3>5
  <2> HIDE DEF u, l, rIn, rm
  <2>7. /\ InRoom(u, l, rIn) \in User
        /\ InRoom(u, l, rIn).state = "ROOM"
        /\ InRoom(u, l, rIn).lobby = l /\ InRoom(u, l, rIn).room = rIn
        /\ InRoom(u, l, rIn).confirm = user[u].confirm
        /\ InRoom(u, l, rIn).session = user[u].session
    <3>1. l \in Int /\ rIn \in Int
      BY <2>1, <2>5
    <3> QED
      BY <2>2, <3>1 DEF InRoom, User, States
  <2>8. /\ UserManagerInv' /\ UnconfirmedIdle'
        /\ user'[u] = InRoom(u, l, rIn)
        /\ \A v \in Users : v # u => user'[v] = user[v]
    BY <2>2, <2>4, <2>7, MoveUser DEF RoomInv
  <2>9. RoomMembership' /\ room' \in [Lobbies -> [Rooms -> RoomRecord]]
    <3>1. user[u].state # "ROOM"
      BY <2>1
    <3> QED
      BY <2>1, <2>2, <2>4, <2>5, <2>6, <2>7, <2>8, <3>1, JoinRoom DEF RoomInv
  <2>10. StateTypes'
    BY <2>4, <2>9 DEF RoomInv, StateTypes
  <2> QED
    BY <2>8, <2>9, <2>10 DEF RoomInv
<1> QED
  BY <1>1, <1>2

LEMMA RoomLeaveInv ==
  ASSUME RoomInv, NEW s \in Sessions, RoomLeave(s)
  PROVE  RoomInv'
<1>1. CASE RoomLeaveError(s) # "NONE"
  BY <1>1, NothingChanges DEF RoomLeave, Answer
<1>2. CASE RoomLeaveError(s) = "NONE"
  <2> DEFINE u == GetUser(s)
             l == user[u].lobby
             r == user[u].room
  <2>1. /\ GetUserError(s) = "NONE" /\ user[u].state = "ROOM"
        /\ l \in Lobbies /\ r \in Rooms
    BY <1>2 DEF RoomLeaveError, InRoomError, InPlaceError
  <2>2. u \in Users /\ user[u].confirm /\ user[u] \in User
    BY <2>1, GetUserFacts DEF RoomInv
  <2>3. /\ user' = [user EXCEPT ![u] = InLobby(u, l)]
        /\ room' = [room EXCEPT ![l][r] = LeaveRoom(room[l][r], u)]
        /\ UNCHANGED <<freeUsers, userSessionDic, userIDDic, lobbyUsers,
                       connectedUser>>
    BY <1>2 DEF RoomLeave, Answer, RoomOf
  <2>4. l = user[u].lobby /\ r = user[u].room
    OBVIOUS
  <2> HIDE DEF u, l, r
  <2>5. /\ InLobby(u, l) \in User /\ InLobby(u, l).state = "LOBBY"
        /\ InLobby(u, l).confirm = user[u].confirm
        /\ InLobby(u, l).session = user[u].session
    <3>1. l \in Int
      BY <2>1
    <3> QED
      BY <2>2, <3>1, InLobbyFacts
  <2>6. /\ UserManagerInv' /\ UnconfirmedIdle'
        /\ user'[u] = InLobby(u, l)
        /\ \A v \in Users : v # u => user'[v] = user[v]
    BY <2>2, <2>3, <2>5, MoveUser DEF RoomInv
  <2>7. RoomMembership' /\ room' \in [Lobbies -> [Rooms -> RoomRecord]]
    <3>1. user'[u].state # "ROOM"
      BY <2>5, <2>6
    <3> QED
      BY <2>1, <2>2, <2>3, <2>4, <2>6, <3>1, QuitRoom DEF RoomInv
  <2>8. StateTypes'
    BY <2>3, <2>7 DEF RoomInv, StateTypes
  <2> QED
    BY <2>6, <2>7, <2>8 DEF RoomInv
<1> QED
  BY <1>1, <1>2

LEMMA RoomMasterGameStartInv ==
  ASSUME RoomInv, NEW s \in Sessions, RoomMasterGameStart(s)
  PROVE  RoomInv'
<1>1. CASE MasterGameStartError(s) # "NONE"
  BY <1>1, NothingChanges DEF RoomMasterGameStart, Answer
<1>2. CASE MasterGameStartError(s) = "NONE"
  <2> DEFINE l == user[GetUser(s)].lobby
             r == user[GetUser(s)].room
  <2>1. l \in Lobbies /\ r \in Rooms
    BY <1>2
    DEF MasterGameStartError, GameStartError, InRoomError, InPlaceError
  <2>2. /\ room' = [room EXCEPT ![l][r] = Started(@)]
        /\ UNCHANGED <<user, freeUsers, userSessionDic, userIDDic,
                       lobbyUsers, connectedUser>>
    BY <1>2 DEF RoomMasterGameStart, Answer, userManagerVars
  <2> HIDE DEF l, r
  <2>3. RoomMembership' /\ room' \in [Lobbies -> [Rooms -> RoomRecord]]
    BY <2>1, <2>2, StartGame DEF RoomInv
  <2> QED
    BY <2>2, <2>3
    DEF RoomInv, UserManagerInv, UserManagerTypeOK, FreeListExact,
        NoDuplicateIndex, FreeIndicesUnused, UnusedIndicesFree,
        SessionBinding, StateTypes, UnconfirmedIdle
<1> QED
  BY <1>1, <1>2

-----------------------------------------------------------------------------
LEMMA RoomInvInit == Init => RoomInv
<1> SUFFICES ASSUME Init PROVE RoomInv
  OBVIOUS
<1> USE RoomAssumption, LobbyAssumption
<1>1. UserManagerInv
  BY InitInv DEF Init
<1>2. NewRoom \in RoomRecord /\ ~NewRoom.used /\ NewRoom.users = <<>>
  BY DEF NewRoom, RoomRecord, GameStates
<1>3. StateTypes
  BY <1>2 DEF Init, LobbyInit, StateTypes, ConnectedUser, NotConnected
<1>4. \A v \in Users : user[v].state = "NONE"
  BY DEF Init, UserManagerInit, NewUser
<1>5. UnconfirmedIdle
  BY <1>4 DEF UnconfirmedIdle
<1>6. RoomMembership
  <2> SUFFICES ASSUME NEW l \in Lobbies, NEW r \in Rooms
               PROVE  /\ RoomHolds(l, r)
                      /\ NoRepeat(room[l][r].users)
                      /\ room[l][r].used <=> room[l][r].users # <<>>
    BY DEF RoomMembership
  <2>1. room[l][r] = NewRoom
    BY DEF Init, LobbyInit
  <2>2. Range(<<>>) = {} /\ NoRepeat(<<>>)
    BY DEF Range, NoRepeat
  <2> QED
    BY <1>2, <1>4, <2>1, <2>2 DEF RoomHolds
<1> QED
  BY <1>1, <1>3, <1>5, <1>6 DEF RoomInv

LEMMA RoomInvNext == RoomInv /\ [Next]_vars => RoomInv'
<1> SUFFICES ASSUME RoomInv, [Next]_vars PROVE RoomInv'
  OBVIOUS
<1> USE LobbyAssumption
<1>1. CASE UNCHANGED vars
  BY <1>1, NothingChanges DEF vars, serverVars
<1>2. CASE Next
  <2>1. PICK s \in Sessions :
            ConnectSession(s) \/ CloseSession(s) \/ ClientPacket(s)
    BY <1>2 DEF Next
  <2>2. CASE ConnectSession(s)
    BY <2>2, ConnectInv
  <2>3. CASE CloseSession(s)
    BY <2>3, CloseInv
  <2>4. CASE ClientPacket(s)
    <3>1. \A o \in Offsets : <<s, o>> \in Addresses
      BY DEF Addresses
    <3>2. CASE \/ DevEcho(s) \/ LobbyList(s) \/ LobbyChat(s)
               \/ \E o \in Offsets : LobbyWisper(s, <<s, o>>)
               \/ \E start \in 0 .. MaxRoomCountByLobby :
                      LobbyRoomList(s, start)
               \/ \E start \in 0 .. MaxLobbyUserCount : LobbyUserList(s, start)
               \/ RoomChat(s) \/ RoomGameStart(s)
      <4>1. \/ DevEcho(s) \/ LobbyList(s) \/ LobbyChat(s)
            \/ \E address \in Addresses : LobbyWisper(s, address)
            \/ \E start \in Int : LobbyRoomList(s, start)
            \/ \E start \in Int : LobbyUserList(s, start)
            \/ RoomChat(s) \/ RoomGameStart(s)
        <5>1. /\ \A n \in 0 .. MaxRoomCountByLobby : n \in Int
              /\ \A n \in 0 .. MaxLobbyUserCount : n \in Int
          OBVIOUS
        <5> QED
          BY <3>1, <3>2, <5>1, Zenon
      <4> QED
        BY <4>1, QueriesInv
    <3>3. ASSUME NEW id \in Ids, NEW o \in Offsets, Login(s, id, <<s, o>>)
          PROVE  RoomInv'
      BY <3>1, <3>3, LoginInv
    <3>4. ASSUME NEW l \in 0 .. MaxLobbyCount, LobbyEnter(s, l)
          PROVE  RoomInv'
      BY <3>4, LobbyEnterInv
    <3>5. CASE LobbyLeave(s)
      BY <3>5, LobbyLeaveInv
    <3>6. ASSUME NEW r \in 0 .. MaxRoomCountByLobby, NEW create \in BOOLEAN,
                 RoomEnter(s, create, r)
          PROVE  RoomInv'
      BY <3>6, RoomEnterInv
    <3>7. CASE RoomLeave(s)
      BY <3>7, RoomLeaveInv
    <3>8. CASE RoomMasterGameStart(s)
      BY <3>8, RoomMasterGameStartInv
    <3> QED
      BY <2>4, <3>2, <3>3, <3>4, <3>5, <3>6, <3>7, <3>8 DEF ClientPacket
  <2> QED
    BY <2>1, <2>2, <2>3, <2>4
<1> QED
  BY <1>1, <1>2

(* Under every order of connects, disconnects and requests, each room's    *)
(* vector holds exactly the users whose state puts them there, once, and   *)
(* the room is in use just while it has a member: IsMaster, which runs for *)
(* a user in the room, always finds a front.                               *)
THEOREM RoomsCorrect == Spec => []RoomMembership
<1>1. RoomInv => RoomMembership
  BY DEF RoomInv
<1> QED
  BY <1>1, RoomInvInit, RoomInvNext, PTL DEF Spec

(* The user manager's guarantees hold inside the whole server: its pool    *)
(* is exact and no two sessions share a user.                              *)
THEOREM UsersCorrect ==
    Spec => [](UserManagerTypeOK /\ FreeListExact /\ SessionBinding)
<1>1. RoomInv => UserManagerTypeOK /\ FreeListExact /\ SessionBinding
  BY DEF RoomInv, UserManagerInv
<1> QED
  BY <1>1, RoomInvInit, RoomInvNext, PTL DEF Spec
=============================================================================
