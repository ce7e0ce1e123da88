----------------------------- MODULE ListPaging -----------------------------
(***************************************************************************)
(* The pages in which Lobby::SendRoomList and Lobby::SendUserList send a   *)
(* list: the entries 0 .. size - 1, of which only some are shown (the rooms*)
(* in use; the slots whose user is in the lobby and in no room).           *)
(***************************************************************************)
EXTENDS Integers, FiniteSets

\* startIndex >= size - 1 in unsigned arithmetic, where 0 - 1 is the largest
\* number: no start is refused for an empty list.
StartRefused(start, size) == start < 0 \/ (size > 0 /\ start >= size - 1)

\* The entries of the page: the first max that are shown, from start on.
PageFrom(shown, start, max) ==
    {i \in shown : /\ i >= start
                   /\ Cardinality({j \in shown : start <= j /\ j < i}) < max}

LastOf(page) == CHOOSE i \in page : \A j \in page : j <= i

\* IsEnd: nothing was found, or the loop reached the last entry; a full page
\* stops it at its own last entry.
EndAfterFullPage(page, size, max) == Cardinality(page) <= max
EndIfNotFull(page, size, max) == page = {} \/ Cardinality(page) < max
NeverEnd(page, size, max) == FALSE
IsEnd(page, size, max) ==
    \/ page = {}
    \/ Cardinality(page) < max
    \/ LastOf(page) + 1 = size
=============================================================================
