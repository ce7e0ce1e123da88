---------------------------- MODULE RoomListing ----------------------------
(***************************************************************************)
(* A client that lists the rooms of its lobby as Packet.h:72 tells it to:  *)
(* it asks for entry 0, then for the entry after the last one it received, *)
(* until a response says IsEnd. Between two of its requests other users    *)
(* make rooms appear and disappear. The user list works the same way.      *)
(***************************************************************************)
EXTENDS ListPaging

CONSTANTS
    Size,     \* _roomList.size()
    MaxPage   \* MAX_NTF_LOBBY_ROOM_LIST_COUNT

ASSUME RoomListingAssumption == Size \in Nat /\ MaxPage \in Nat \ {0}

Indices == 0 .. Size - 1

VARIABLES
    used,      \* the rooms in use
    start,     \* the StartRoomIndex of the client's next request
    received,  \* the rooms the client was told of
    status,    \* "ask", "end" after IsEnd, "unanswered" after a refusal
    kept       \* the rooms in use ever since the listing began

vars == <<used, start, received, status, kept>>

Init ==
    /\ used \in SUBSET Indices
    /\ kept = used
    /\ start = 0
    /\ received = {}
    /\ status = "ask"

\* Users of the lobby create a room, or leave one empty.
RoomChanges(r) ==
    /\ used' = IF r \in used THEN used \ {r} ELSE used \cup {r}
    /\ kept' = kept \ {r}
    /\ UNCHANGED <<start, received, status>>

\* lobbyRoomList drops SendRoomList's error: a refused request gets no
\* response, and the client waits for ever.
Refuse ==
    /\ status = "ask"
    /\ StartRefused(start, Size)
    /\ status' = "unanswered"
    /\ UNCHANGED <<used, start, received, kept>>

SameStart(page) == LastOf(page)
NextStart(page) == LastOf(page) + 1

SendRoomList ==
    LET page == PageFrom(used, start, MaxPage)
    IN  /\ status = "ask"
        /\ ~StartRefused(start, Size)
        /\ received' = received \cup page
        /\ status' = IF IsEnd(page, Size, MaxPage) THEN "end" ELSE "ask"
        /\ start' = IF page = {} THEN start ELSE NextStart(page)
        /\ UNCHANGED <<used, kept>>

Next == (\E r \in Indices : RoomChanges(r)) \/ Refuse \/ SendRoomList

\* The server takes every packet from its queue sooner or later.
Spec == Init /\ [][Next]_vars /\ WF_vars(Refuse \/ SendRoomList)
-----------------------------------------------------------------------------
(* A listing that ended has told the client of every room that was in use  *)
(* all the time, whatever happened to the others.                          *)
KeptRoomsListed == status = "end" => kept \subseteq received

(* No room is sent twice: what a page adds is new to the client.           *)
NoRoomTwice ==
    [][status' # "unanswered" /\ status = "ask" /\ start' # start
         => PageFrom(used, start, MaxPage) \cap received = {}]_vars

(* The only continuation that is ever refused is the one for the last room.*)
OnlyLastRefused == status = "unanswered" => start = Size - 1

(* A listing cannot go on for ever, even while rooms come and go.          *)
ListingStops == <>(status # "ask")

(* Packet.h:72: a client may continue from the last number it received + 1.*)
ContinuationAnswered == status # "unanswered"
=============================================================================
