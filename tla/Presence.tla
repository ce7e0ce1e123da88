------------------------------ MODULE Presence ------------------------------
(***************************************************************************)
(* What the clients of a chat server take for granted about who is where:  *)
(* a user is nowhere, in one lobby, or in one lobby and one of its rooms;  *)
(* moves from one of these to the next, one user at a time; and no lobby   *)
(* and no room ever holds more than it has places for.                     *)
(***************************************************************************)
EXTENDS Integers, FiniteSets

CONSTANTS
    People, Halls, Chambers,       \* users, lobbies, rooms of each lobby
    HallPlaces, ChamberPlaces      \* how many a lobby and a room hold

VARIABLE at      \* of each user, the lobby <<l>> and the room <<l, r>> it is in

Init == at = [u \in People |-> {}]

Full(place, places) == Cardinality({u \in People : place \in at[u]}) >= places

Enter(u, l) ==
    /\ at[u] = {} /\ ~Full(<<l>>, HallPlaces)
    /\ at' = [at EXCEPT ![u] = {<<l>>}]

EnterRoom(u, l, r) ==
    /\ at[u] = {<<l>>} /\ ~Full(<<l, r>>, ChamberPlaces)
    /\ at' = [at EXCEPT ![u] = {<<l>>, <<l, r>>}]

LeaveRoom(u, l, r) ==
    /\ at[u] = {<<l>>, <<l, r>>}
    /\ at' = [at EXCEPT ![u] = {<<l>>}]

\* From the lobby, and from a room if the connection is lost there.
Leave(u) ==
    /\ at[u] # {}
    /\ at' = [at EXCEPT ![u] = {}]

Next ==
    \E u \in People :
        \/ Leave(u)
        \/ \E l \in Halls :
            \/ Enter(u, l)
            \/ \E r \in Chambers : EnterRoom(u, l, r) \/ LeaveRoom(u, l, r)

Spec == Init /\ [][Next]_at
=============================================================================
