------------------------- MODULE UserManagerProofs -------------------------
(***************************************************************************)
(* Proofs about UserManager, for every pool size, session count and ID set.*)
(***************************************************************************)
EXTENDS UserManager, TLAPS

\* FreeListExact and SessionBinding are not inductive apart: that RemoveUser
\* frees an index which was not free needs SessionBinding.
UserManagerInv == UserManagerTypeOK /\ FreeListExact /\ SessionBinding

USE UserManagerAssumption DEF Users, Sessions, Addresses, NoUser, NoIndex

LEMMA InitInv == UserManagerInit => UserManagerInv
<1> SUFFICES ASSUME UserManagerInit PROVE UserManagerInv
  OBVIOUS
<1>1. UserManagerTypeOK
  BY DEF UserManagerInit, UserManagerTypeOK, NewUser, User, States
<1>2. FreeListExact
  BY DEF UserManagerInit, FreeListExact, NoDuplicateIndex, FreeIndicesUnused,
         UnusedIndicesFree, NewUser
<1>3. SessionBinding
  BY DEF UserManagerInit, SessionBinding
<1> QED
  BY <1>1, <1>2, <1>3 DEF UserManagerInv

-----------------------------------------------------------------------------
\* AddUser takes the front of the deque: the rest keeps its order, and no
\* other index is touched.
LEMMA AddUserInv ==
  ASSUME UserManagerInv,
         NEW s \in Sessions, NEW id \in Ids, NEW key \in Addresses,
         AddUser(s, id, key)
  PROVE  UserManagerInv'
<1>1. CASE AddUserError(key) # "NONE"
  BY <1>1 DEF AddUser, userManagerVars, UserManagerInv, UserManagerTypeOK,
              FreeListExact, NoDuplicateIndex, FreeIndicesUnused,
              UnusedIndicesFree, SessionBinding
<1>2. CASE AddUserError(key) = "NONE"
  <2> DEFINE u == Head(freeUsers)
  <2> USE DEF UserManagerInv, UserManagerTypeOK
  <2>1. freeUsers # <<>>
    BY <1>2 DEF AddUserError
  <2>2. /\ user' = [user EXCEPT ![u] = SetUser(u, s, id)]
        /\ freeUsers' = Tail(freeUsers)
        /\ userSessionDic' = InsertSession(s, u)
        /\ userIDDic' = InsertKey(key)
    BY <1>2 DEF AddUser
  <2>3. /\ u \in Users
        /\ u = freeUsers[1]
        /\ freeUsers' \in Seq(Users)
        /\ Len(freeUsers) \in Nat /\ Len(freeUsers') = Len(freeUsers) - 1
        /\ \A i \in 1 .. Len(freeUsers') : freeUsers'[i] = freeUsers[i + 1]
    BY <2>1, <2>2
  <2>4. ~user[u].confirm
    BY <2>1, <2>3 DEF FreeListExact, FreeIndicesUnused
  <2>5. /\ user' \in [Users -> User]
        /\ user'[u].confirm /\ user'[u].session = s
        /\ \A v \in Users : v # u => user'[v] = user[v]
    <3>1. user[u] \in User
      BY <2>3
    <3>2. /\ SetUser(u, s, id) \in User
          /\ SetUser(u, s, id).confirm
          /\ SetUser(u, s, id).session = s
      BY <3>1 DEF SetUser, User, States
    <3> QED
      BY <2>2, <2>3, <3>2
  <2>6. UserManagerTypeOK'
    BY <2>2, <2>3, <2>5 DEF InsertSession, InsertKey
  <2>7. NoDuplicateIndex'
    <3> SUFFICES ASSUME NEW i \in 1 .. Len(freeUsers'),
                        NEW j \in 1 .. Len(freeUsers'),
                        freeUsers'[i] = freeUsers'[j]
                 PROVE  i = j
      BY DEF NoDuplicateIndex
    <3>1. freeUsers[i + 1] = freeUsers[j + 1]
      BY <2>3
    <3>2. i + 1 \in 1 .. Len(freeUsers) /\ j + 1 \in 1 .. Len(freeUsers)
      BY <2>3
    <3>3. i + 1 = j + 1
      BY <3>1, <3>2 DEF FreeListExact, NoDuplicateIndex
    <3> QED
      BY <3>3, <2>3
  <2>8. FreeIndicesUnused'
    <3> SUFFICES ASSUME NEW i \in 1 .. Len(freeUsers')
                 PROVE  ~user'[freeUsers'[i]].confirm
      BY DEF FreeIndicesUnused
    <3> DEFINE j == i + 1
    <3>1. j \in 1 .. Len(freeUsers) /\ j # 1 /\ 1 \in 1 .. Len(freeUsers)
      BY <2>3
    <3>2. freeUsers'[i] = freeUsers[j]
      BY <2>3
    <3>3. freeUsers[j] # u
      BY <2>3, <3>1 DEF FreeListExact, NoDuplicateIndex
    <3>4. freeUsers[j] \in Users /\ ~user[freeUsers[j]].confirm
      BY <3>1 DEF FreeListExact, FreeIndicesUnused
    <3> QED
      BY <2>5, <3>2, <3>3, <3>4
  <2>9. UnusedIndicesFree'
    <3> SUFFICES ASSUME NEW v \in Users, ~user'[v].confirm
                 PROVE  \E i \in 1 .. Len(freeUsers') : freeUsers'[i] = v
      BY DEF UnusedIndicesFree
    <3>1. v # u /\ ~user[v].confirm
      BY <2>5
    <3>2. PICK i \in 1 .. Len(freeUsers) : freeUsers[i] = v
      BY <3>1 DEF FreeListExact, UnusedIndicesFree
    <3>3. i # 1
      BY <2>3, <3>1, <3>2
    <3>4. i - 1 \in 1 .. Len(freeUsers') /\ (i - 1) + 1 = i
      BY <2>3, <3>3
    <3>5. freeUsers'[i - 1] = v
      BY <2>3, <3>2, <3>4
    <3> QED
      BY <3>4, <3>5
  <2>10. SessionBinding'
    <3> SUFFICES ASSUME NEW t \in Sessions, userSessionDic'[t] # NoUser
                 PROVE  /\ user'[userSessionDic'[t]].confirm
                        /\ user'[userSessionDic'[t]].session = t
      BY DEF SessionBinding
    <3>1. CASE userSessionDic[t] # NoUser
      <4>1. userSessionDic'[t] = userSessionDic[t]
        BY <2>2, <3>1 DEF InsertSession
      <4>2. userSessionDic[t] \in Users /\ userSessionDic[t] # u
        BY <2>4, <3>1 DEF SessionBinding
      <4> QED
        BY <2>5, <3>1, <4>1, <4>2 DEF SessionBinding
    <3>2. CASE userSessionDic[t] = NoUser
      <4>1. t = s /\ userSessionDic'[t] = u
        BY <2>2, <3>2 DEF InsertSession
      <4> QED
        BY <2>5, <4>1
    <3> QED
      BY <3>1, <3>2
  <2> QED
    BY <2>6, <2>7, <2>8, <2>9, <2>10 DEF FreeListExact
<1> QED
  BY <1>1, <1>2

\* RemoveUser gives back an index that was in use, hence in no place of the
\* deque.
LEMMA RemoveUserInv ==
  ASSUME UserManagerInv, NEW s \in Sessions, RemoveUser(s)
  PROVE  UserManagerInv'
<1>1. CASE userSessionDic[s] = NoUser
  BY <1>1 DEF RemoveUser, userManagerVars, UserManagerInv, UserManagerTypeOK,
              FreeListExact, NoDuplicateIndex, FreeIndicesUnused,
              UnusedIndicesFree, SessionBinding
<1>2. CASE userSessionDic[s] # NoUser
  <2> DEFINE u == userSessionDic[s]
             n == Len(freeUsers) + 1
  <2> USE DEF UserManagerInv, UserManagerTypeOK
  <2>1. /\ user' = [user EXCEPT ![u] = ClearedUser]
        /\ freeUsers' = Append(freeUsers, u)
        /\ userSessionDic' = [userSessionDic EXCEPT ![s] = NoUser]
        /\ userIDDic' = userIDDic \ {LocalCopy}
    BY <1>2 DEF RemoveUser, ReleaseIndex, EraseSession, EraseKey
  <2>2. u \in Users /\ user[u].confirm /\ user[u].session = s
    BY <1>2 DEF SessionBinding
  <2>3. /\ freeUsers' \in Seq(Users)
        /\ Len(freeUsers) \in Nat /\ Len(freeUsers') = n
        /\ freeUsers'[n] = u
        /\ \A i \in 1 .. Len(freeUsers) : freeUsers'[i] = freeUsers[i]
    BY <2>1, <2>2
  <2>4. ASSUME NEW i \in 1 .. Len(freeUsers)
        PROVE  freeUsers[i] \in Users /\ freeUsers[i] # u
    <3>1. freeUsers[i] \in Users /\ ~user[freeUsers[i]].confirm
      BY DEF FreeListExact, FreeIndicesUnused
    <3> QED
      BY <2>2, <3>1
  <2>5. ClearedUser \in User /\ ~ClearedUser.confirm
    BY DEF ClearedUser, User, States
  <2>6. /\ user' \in [Users -> User]
        /\ ~user'[u].confirm
        /\ \A v \in Users : v # u => user'[v] = user[v]
    BY <2>1, <2>2, <2>5
  <2>7. UserManagerTypeOK'
    BY <2>1, <2>3, <2>6
  <2>8. NoDuplicateIndex'
    <3> SUFFICES ASSUME NEW i \in 1 .. n, NEW j \in 1 .. n,
                        freeUsers'[i] = freeUsers'[j]
                 PROVE  i = j
      BY <2>3 DEF NoDuplicateIndex
    <3>1. \A k \in 1 .. n : k = n \/ k \in 1 .. Len(freeUsers)
      BY <2>3
    <3>2. CASE i \in 1 .. Len(freeUsers) /\ j \in 1 .. Len(freeUsers)
      BY <2>3, <3>2 DEF FreeListExact, NoDuplicateIndex
    <3> QED
      BY <2>3, <2>4, <3>1, <3>2
  <2>9. FreeIndicesUnused'
    <3> SUFFICES ASSUME NEW i \in 1 .. n
                 PROVE  ~user'[freeUsers'[i]].confirm
      BY <2>3 DEF FreeIndicesUnused
    <3>1. CASE i = n
      BY <2>3, <2>6, <3>1
    <3>2. CASE i \in 1 .. Len(freeUsers)
      BY <2>3, <2>4, <2>6, <3>2 DEF FreeListExact, FreeIndicesUnused
    <3> QED
      BY <2>3, <3>1, <3>2
  <2>10. UnusedIndicesFree'
    <3> SUFFICES ASSUME NEW v \in Users, ~user'[v].confirm
                 PROVE  \E i \in 1 .. Len(freeUsers') : freeUsers'[i] = v
      BY DEF UnusedIndicesFree
    <3>1. CASE v = u
      <4>1. n \in 1 .. Len(freeUsers')
        BY <2>3
      <4> QED
        BY <2>3, <3>1, <4>1
    <3>2. CASE v # u
      <4>1. PICK i \in 1 .. Len(freeUsers) : freeUsers[i] = v
        BY <2>6, <3>2 DEF FreeListExact, UnusedIndicesFree
      <4> QED
        BY <2>3, <4>1
    <3> QED
      BY <3>1, <3>2
  <2>11. SessionBinding'
    <3> SUFFICES ASSUME NEW t \in Sessions, userSessionDic'[t] # NoUser
                 PROVE  /\ user'[userSessionDic'[t]].confirm
                        /\ user'[userSessionDic'[t]].session = t
      BY DEF SessionBinding
    <3>1. t # s /\ userSessionDic'[t] = userSessionDic[t]
      BY <2>1
    <3>2. userSessionDic[t] \in Users /\ userSessionDic[t] # u
      BY <2>2, <3>1 DEF SessionBinding
    <3> QED
      BY <2>6, <3>1, <3>2 DEF SessionBinding
  <2> QED
    BY <2>7, <2>8, <2>9, <2>10, <2>11 DEF FreeListExact
<1> QED
  BY <1>1, <1>2

-----------------------------------------------------------------------------
LEMMA NextInv == UserManagerInv /\ [UserManagerNext]_userManagerVars
                 => UserManagerInv'
<1> SUFFICES ASSUME UserManagerInv, [UserManagerNext]_userManagerVars
             PROVE  UserManagerInv'
  OBVIOUS
<1>1. CASE UserManagerNext
  <2>1. PICK s \in Sessions :
            \/ \E id \in Ids, o \in Offsets : AddUser(s, id, <<s, o>>)
            \/ RemoveUser(s)
    BY <1>1 DEF UserManagerNext
  <2>2. CASE RemoveUser(s)
    BY <2>2, RemoveUserInv
  <2>3. ASSUME NEW id \in Ids, NEW o \in Offsets, AddUser(s, id, <<s, o>>)
        PROVE  UserManagerInv'
    <3>1. <<s, o>> \in Addresses
      OBVIOUS
    <3> QED
      BY <2>3, <3>1, AddUserInv
  <2> QED
    BY <2>1, <2>2, <2>3
<1>2. CASE UNCHANGED userManagerVars
  BY <1>2 DEF userManagerVars, UserManagerInv, UserManagerTypeOK,
              FreeListExact, NoDuplicateIndex, FreeIndicesUnused,
              UnusedIndicesFree, SessionBinding
<1> QED
  BY <1>1, <1>2

(* The user manager's state keeps its type.                                *)
THEOREM TypeCorrect == UserManagerSpec => []UserManagerTypeOK
<1>1. UserManagerInv => UserManagerTypeOK
  BY DEF UserManagerInv
<1> QED
  BY <1>1, InitInv, NextInv, PTL DEF UserManagerSpec

(* allocUserObjPoolIndex never hands out a User object in use, and no      *)
(* object is lost, whatever the order of logins and closes.                *)
THEOREM PoolCorrect == UserManagerSpec => []FreeListExact
<1>1. UserManagerInv => FreeListExact
  BY DEF UserManagerInv
<1> QED
  BY <1>1, InitInv, NextInv, PTL DEF UserManagerSpec

(* GetUser of a session with an entry returns a confirmed user that names  *)
(* this session: no User object serves two sessions.                       *)
THEOREM SessionsBound == UserManagerSpec => []SessionBinding
<1>1. UserManagerInv => SessionBinding
  BY DEF UserManagerInv
<1> QED
  BY <1>1, InitInv, NextInv, PTL DEF UserManagerSpec

(* A session's entry leads to the same User object until the session       *)
(* closes, however often it logs in: SessionKeepsUser.                     *)
THEOREM UsersStay == UserManagerSpec => SessionKeepsUser
<1>1. UserManagerInv /\ [UserManagerNext]_userManagerVars =>
          \A s \in Sessions :
              userSessionDic[s] # NoUser =>
                  userSessionDic'[s] \in {userSessionDic[s], NoUser}
  <2> SUFFICES ASSUME UserManagerInv, [UserManagerNext]_userManagerVars,
                      NEW t \in Sessions, userSessionDic[t] # NoUser
               PROVE  userSessionDic'[t] \in {userSessionDic[t], NoUser}
    OBVIOUS
  <2>1. userSessionDic \in [Sessions -> Users \cup {NoUser}]
    BY DEF UserManagerInv, UserManagerTypeOK
  <2>2. CASE UNCHANGED userManagerVars
    BY <2>2 DEF userManagerVars
  <2>3. CASE UserManagerNext
    <3>1. PICK s \in Sessions :
              \/ \E id \in Ids, o \in Offsets : AddUser(s, id, <<s, o>>)
              \/ RemoveUser(s)
      BY <2>3 DEF UserManagerNext
    <3>2. CASE RemoveUser(s)
      BY <2>1, <3>2 DEF RemoveUser, EraseSession, userManagerVars
    <3>3. ASSUME NEW id \in Ids, NEW o \in Offsets, AddUser(s, id, <<s, o>>)
          PROVE  userSessionDic'[t] = userSessionDic[t]
      BY <2>1, <3>3 DEF AddUser, InsertSession, userManagerVars
    <3> QED
      BY <3>1, <3>2, <3>3
  <2> QED
    BY <2>2, <2>3
<1> QED
  BY <1>1, InitInv, NextInv, PTL DEF UserManagerSpec, SessionKeepsUser
=============================================================================
