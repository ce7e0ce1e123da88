---------------------------- MODULE UserManager ----------------------------
(***************************************************************************)
(* LogicLib::UserManager and the part of LogicLib::User it drives: a fixed *)
(* pool of User objects, the deque of free pool indices, and the two hash  *)
(* maps that find a logged-in user by session and by ID.                   *)
(*                                                                         *)
(* The ID map is an unordered_map<const char*, User*>: std::hash and == on *)
(* const char* compare ADDRESSES, so its keys are modelled as addresses:   *)
(* the key of a login is the position of szID in the receive buffer of the *)
(* session, <<session, offset>>; the key RemoveUser erases is the address  *)
(* of a local copy of the ID, which is no receive buffer position.         *)
(***************************************************************************)
EXTENDS Integers, Sequences, FiniteSets

CONSTANTS
    MaxUserCount,      \* ServerConfig.MaxClientCount: size of _userObjPool
    MaxSessionCount,   \* MaxClientCount + ExtraClientCount: network sessions
    Ids,               \* the user IDs clients log in with
    NoId,              \* the empty _id of a User that is not logged in
    Offsets,           \* positions in a receive buffer where szID may lie
    LocalCopy          \* address of the std::string copy RemoveUser makes

Users     == 0 .. MaxUserCount - 1
Sessions  == 0 .. MaxSessionCount - 1
Addresses == Sessions \X Offsets
NoUser    == -1        \* nullptr of a User*
NoIndex   == -1        \* initial _sessionIndex, _lobbyIndex, _roomIndex

ASSUME UserManagerAssumption ==
    /\ MaxUserCount \in Nat \ {0}
    /\ MaxSessionCount \in Nat \ {0}
    /\ NoId \notin Ids
    /\ LocalCopy \notin Addresses

VARIABLES
    user,             \* _userObjPool: the User objects by pool index
    freeUsers,        \* _userObjPoolIndex: deque of free pool indices
    userSessionDic,   \* _userSessionDic: session index -> User*
    userIDDic         \* the keys of _userIDDic (its values are never read)

userManagerVars == <<user, freeUsers, userSessionDic, userIDDic>>
-----------------------------------------------------------------------------
States == {"NONE", "LOGIN", "LOBBY", "ROOM"}     \* User::DOServerHost_STATE

User == [session : Sessions \cup {NoIndex},
         id      : Ids \cup {NoId},
         confirm : BOOLEAN,
         state   : States,
         lobby   : Int,
         room    : Int]

\* A User as its constructor leaves it, and as Clear does.
NewUser == [session |-> NoIndex, id |-> NoId, confirm |-> FALSE,
            state |-> "NONE", lobby |-> NoIndex, room |-> NoIndex]

ClearedUser == [session |-> 0, id |-> NoId, confirm |-> FALSE,
                state |-> "NONE", lobby |-> NoIndex, room |-> NoIndex]

\* User::Set keeps _lobbyIndex and _roomIndex.
SetUser(u, s, id) ==
    [user[u] EXCEPT !.confirm = TRUE, !.state = "LOGIN",
                    !.session = s,    !.id = id]
-----------------------------------------------------------------------------
\* GetUser: nullptr for an unknown session, and for a user not confirmed.
GetUserError(s) ==
    IF userSessionDic[s] = NoUser
    THEN "USER_MGR_INVALID_SESSION_INDEX"
    ELSE IF ~user[userSessionDic[s]].confirm
         THEN "USER_MGR_NOT_CONFIRM_USER"
         ELSE "NONE"

GetUser(s) == IF GetUserError(s) = "NONE" THEN userSessionDic[s] ELSE NoUser

AddUserError(key) ==
    IF key \in userIDDic THEN "USER_MGR_ID_DUPLICATION"
    ELSE IF freeUsers = <<>> THEN "USER_MGR_MAX_USER_COUNT"
    ELSE "NONE"

\* unordered_map::insert keeps the entry a session already has.
OverwriteSession(s, u) == [userSessionDic EXCEPT ![s] = u]
InsertSession(s, u) ==
    IF userSessionDic[s] = NoUser
    THEN [userSessionDic EXCEPT ![s] = u]
    ELSE userSessionDic

\* A login's key is the address of szID; ids are never compared by content.
InsertKey(key) == userIDDic \cup {key}

AddUser(s, id, key) ==
    IF AddUserError(key) = "NONE"
    THEN LET u == Head(freeUsers)
         IN  /\ user' = [user EXCEPT ![u] = SetUser(u, s, id)]
             /\ freeUsers' = Tail(freeUsers)
             /\ userSessionDic' = InsertSession(s, u)
             /\ userIDDic' = InsertKey(key)
    ELSE UNCHANGED userManagerVars

\* releaseUserObjPoolIndex: the index goes back to the end of the deque.
ReleaseSession(u) == Append(freeUsers, user[u].session)
ReleaseTwice(u) == Append(Append(freeUsers, u), u)
ReleaseIndex(u) == Append(freeUsers, u)

EraseNothing(s) == userSessionDic
EraseSession(s) == [userSessionDic EXCEPT ![s] = NoUser]

\* A position through which a session has logged in stays a key for ever.
EraseKey(s) == userIDDic \ {LocalCopy}

RemoveUser(s) ==
    IF userSessionDic[s] # NoUser
    THEN LET u == userSessionDic[s]
         IN  /\ user' = [user EXCEPT ![u] = ClearedUser]
             /\ freeUsers' = ReleaseIndex(u)
             /\ userSessionDic' = EraseSession(s)
             /\ userIDDic' = EraseKey(s)
    ELSE UNCHANGED userManagerVars
-----------------------------------------------------------------------------
UserManagerInit ==
    /\ user = [u \in Users |-> NewUser]
    /\ freeUsers = [i \in 1 .. MaxUserCount |-> i - 1]
    /\ userSessionDic = [s \in Sessions |-> NoUser]
    /\ userIDDic = {}

\* PacketProcess may hand over a login of any session at any time, and the
\* close of any session.
UserManagerNext ==
    \E s \in Sessions :
        \/ \E id \in Ids, o \in Offsets : AddUser(s, id, <<s, o>>)
        \/ RemoveUser(s)

UserManagerSpec == UserManagerInit /\ [][UserManagerNext]_userManagerVars
-----------------------------------------------------------------------------
(* Type invariant of the user manager's state.                             *)
UserManagerTypeOK ==
    /\ user \in [Users -> User]
    /\ freeUsers \in Seq(Users)
    /\ userSessionDic \in [Sessions -> Users \cup {NoUser}]
    /\ userIDDic \in SUBSET Addresses

(* The deque of free indices holds exactly the User objects that are not   *)
(* in use, each once: allocUserObjPoolIndex never hands out an object that *)
(* a session still uses, and releaseUserObjPoolIndex never loses one.      *)
NoDuplicateIndex ==
    \A i, j \in 1 .. Len(freeUsers) : freeUsers[i] = freeUsers[j] => i = j

FreeIndicesUnused ==
    \A i \in 1 .. Len(freeUsers) : ~user[freeUsers[i]].confirm

UnusedIndicesFree ==
    \A u \in Users :
        ~user[u].confirm => \E i \in 1 .. Len(freeUsers) : freeUsers[i] = u

FreeListExact == NoDuplicateIndex /\ FreeIndicesUnused /\ UnusedIndicesFree

(* A session's entry leads to a confirmed user that names this session, so *)
(* no two sessions share a User object and GetUser's NOT_CONFIRM_USER      *)
(* branch is dead.                                                         *)
SessionBinding ==
    \A s \in Sessions :
        userSessionDic[s] # NoUser =>
            /\ user[userSessionDic[s]].confirm
            /\ user[userSessionDic[s]].session = s

(* A repeated login never moves a session to another User object: the      *)
(* entry only appears and, when the session closes, disappears.            *)
SessionKeepsUser ==
    [][\A s \in Sessions :
         userSessionDic[s] # NoUser =>
             userSessionDic'[s] \in {userSessionDic[s], NoUser}]_userManagerVars

(* PacketProcessLogin.cpp:19: a login with an ID in use is refused, so two *)
(* logged-in sessions never carry the same ID.                             *)
NoDuplicateIds ==
    \A s, t \in Sessions :
        /\ userSessionDic[s] # NoUser
        /\ userSessionDic[t] # NoUser
        /\ user[userSessionDic[s]].id = user[userSessionDic[t]].id
        => s = t
=============================================================================
