------------------------- MODULE RoomListingProofs -------------------------
(***************************************************************************)
(* What a client learns from a listing, for lists of every length and pages *)
(* of every size: Spec => []KeptRoomsListed, Spec => []OnlyLastRefused and  *)
(* the action property NoRoomTwice.                                         *)
(***************************************************************************)
EXTENDS RoomListing, FiniteSetTheorems, WellFoundedInduction, TLAPS

USE RoomListingAssumption DEF RoomListingAssumption
-----------------------------------------------------------------------------
\* Every nonempty set of natural numbers has a least element.
LEMMA LeastExists ==
  ASSUME NEW S, S \subseteq Nat, S # {}
  PROVE  \E i \in S : \A j \in S : i <= j
<1> DEFINE R == {ss \in Nat \X Nat : ss[1] < ss[2]}
<1>1. IsWellFoundedOn(R, Nat)
  BY NatLessThanWellFounded, Zenon DEF OpToRel
<1> HIDE DEF R
<1>2. PICK i \in S : \A j \in S : ~(<<j, i>> \in R)
  BY <1>1, WFMin, Zenon
<1>3. \A j, k \in Nat : j < k => <<j, k>> \in R
  BY SMT DEF R
<1>4. \A j \in S : ~(j < i)
  BY <1>2, <1>3
<1> QED
  BY <1>4

\* A page that is not empty has a last entry: the one nearest to the end of
\* the list.
LEMMA LastOfFacts ==
  ASSUME NEW page \in SUBSET Indices, page # {}
  PROVE  LastOf(page) \in page /\ \A j \in page : j <= LastOf(page)
<1> DEFINE FromEnd == {Size - i : i \in page}
<1>1. FromEnd \subseteq Nat /\ FromEnd # {}
  <2>1. Size \in Nat
    BY DEF RoomListingAssumption
  <2>2. \A i \in page : Size - i \in Nat
    BY <2>1 DEF Indices
  <2> QED
    BY <2>2
<1> HIDE DEF FromEnd
<1>2. PICK k \in FromEnd : \A j \in FromEnd : k <= j
  BY <1>1, LeastExists
<1>3. PICK i \in page : k = Size - i
  BY <1>2 DEF FromEnd
<1>4. \A j \in page : Size - j \in FromEnd
  BY DEF FromEnd
<1>5. \A j \in page : j <= i
  BY <1>2, <1>3, <1>4 DEF Indices
<1> QED
  BY <1>5, Zenon DEF LastOf

\* The entries a page counts before it takes one.
Before(shown, from, i) == {j \in shown : from <= j /\ j < i}

LEMMA BeforeFinite ==
  ASSUME NEW shown \in SUBSET Indices, NEW T \in SUBSET shown
  PROVE  IsFiniteSet(T) /\ Cardinality(T) \in Nat
<1>1. IsFiniteSet(Indices)
  BY FS_Interval DEF Indices
<1>2. IsFiniteSet(T)
  BY <1>1, FS_Subset
<1> QED
  BY <1>2, FS_CardinalityType

\* What a page consists of: shown entries from the start on, without a gap
\* below its last one, and all of them unless the page is full.
LEMMA PageFacts ==
  ASSUME NEW shown \in SUBSET Indices, NEW from \in Nat
  PROVE  LET page == PageFrom(shown, from, MaxPage)
         IN  /\ page \subseteq shown
             /\ \A i \in page : i >= from
             /\ \A i \in page : \A j \in shown : from <= j /\ j <= i => j \in page
             /\ page = {} \/ Cardinality(page) < MaxPage =>
                    \A j \in shown : from <= j => j \in page
<1> DEFINE page == PageFrom(shown, from, MaxPage)
<1>1. \A i \in shown :
          i \in page <=> i >= from /\ Cardinality(Before(shown, from, i)) < MaxPage
  BY DEF PageFrom, Before
<1>2. page \subseteq shown
  BY DEF PageFrom
<1>3. \A i \in page : i >= from
  BY <1>1, <1>2
<1> HIDE DEF page
<1>4. ASSUME NEW i \in page, NEW j \in shown, from <= j, j <= i
      PROVE  j \in page
  <2>1. Before(shown, from, j) \subseteq Before(shown, from, i)
    <3>1. i \in Int /\ j \in Int /\ \A k \in shown : k \in Int
      BY <1>2 DEF Indices
    <3>2. ASSUME NEW k \in shown, from <= k, k < j
          PROVE  k < i
      BY <1>4, <3>1, <3>2
    <3> QED
      BY <3>2 DEF Before
  <2>2. IsFiniteSet(Before(shown, from, i))
    BY BeforeFinite DEF Before
  <2>3. Cardinality(Before(shown, from, j)) <= Cardinality(Before(shown, from, i))
    BY <2>1, <2>2, FS_Subset
  <2>4. /\ Cardinality(Before(shown, from, j)) \in Nat
        /\ Cardinality(Before(shown, from, i)) \in Nat
    BY BeforeFinite DEF Before
  <2>5. Cardinality(Before(shown, from, i)) < MaxPage
    BY <1>1, <1>2, <1>4
  <2> QED
    BY <1>1, <1>4, <2>3, <2>4, <2>5 DEF Indices
<1>5. ASSUME page = {} \/ Cardinality(page) < MaxPage,
             NEW j \in shown, from <= j, j \notin page
      PROVE  FALSE
  <2> DEFINE Left == {k \in shown : from <= k /\ k \notin page}
  <2>1. Left \subseteq Nat /\ j \in Left
    <3>1. \A k \in shown : k \in Nat
      BY DEF Indices
    <3>2. j \in Left
      BY <1>5
    <3> QED
      BY <3>1, <3>2
  <2>2. PICK k \in Left : \A x \in Left : k <= x
    BY <2>1, LeastExists
  <2>3. Before(shown, from, k) \subseteq page
    <3>1. k \in Int /\ \A x \in shown : x \in Int
      BY <2>1, <2>2 DEF Indices
    <3>2. \A x \in shown : from <= x /\ x \notin page => ~(x < k)
      BY <2>2, <3>1
    <3> QED
      BY <3>2 DEF Before
  <2>4. IsFiniteSet(page) /\ Cardinality(page) \in Nat
    BY <1>2, BeforeFinite
  <2>5. /\ Cardinality(Before(shown, from, k)) <= Cardinality(page)
        /\ Cardinality(Before(shown, from, k)) \in Nat
    BY <2>3, <2>4, FS_Subset, BeforeFinite DEF Before
  <2>6. Cardinality(page) < MaxPage
    BY <1>5, FS_EmptySet
  <2>7. Cardinality(Before(shown, from, k)) < MaxPage
    BY <2>4, <2>5, <2>6
  <2>8. k \in page
    BY <1>1, <2>1, <2>2, <2>7 DEF Indices
  <2> QED
    BY <2>8
<1> QED
  BY <1>2, <1>3, <1>4, <1>5 DEF page
-----------------------------------------------------------------------------
\* Why the listing is right: what is still to be asked for lies from start
\* on. Everything the client was told of is below start, so is every room it
\* may rely on once the others are left out; and since the last entry of the
\* list ends a listing, a further request is for an entry of the list.
Told == received \subseteq 0 .. start - 1

NothingMissed ==
  /\ status \in {"ask", "unanswered"} =>
         \A r \in kept : r < start => r \in received
  /\ status = "end" => kept \subseteq received

WithinList ==
  /\ status = "ask" => start = 0 \/ start <= Size - 1
  /\ status = "unanswered" => start = Size - 1

ListingInv ==
  /\ used \in SUBSET Indices
  /\ kept \subseteq used
  /\ start \in Nat
  /\ status \in {"ask", "end", "unanswered"}
  /\ Told
  /\ NothingMissed
  /\ WithinList

LEMMA ListingInvInit == Init => ListingInv
BY DEF Init, ListingInv, Told, NothingMissed, WithinList, Indices

\* A room that comes or goes is no longer one that was there all the time.
LEMMA RoomChangesKeep ==
  ASSUME ListingInv, NEW r \in Indices, RoomChanges(r)
  PROVE  ListingInv'
<1>1. used' \in SUBSET Indices /\ kept' \subseteq used'
  BY DEF ListingInv, RoomChanges
<1> QED
  BY <1>1 DEF ListingInv, RoomChanges, Told, NothingMissed, WithinList

\* A request that is refused asked for the last entry.
LEMMA RefuseKeeps ==
  ASSUME ListingInv, Refuse
  PROVE  ListingInv'
<1>1. start = Size - 1
  BY DEF ListingInv, Refuse, StartRefused, WithinList
<1> QED
  BY <1>1 DEF ListingInv, Refuse, Told, NothingMissed, WithinList

\* A page leaves nothing out, below its last entry if the listing goes on and
\* at all if it ends.
LEMMA PageKeeps ==
  ASSUME ListingInv, SendRoomList
  PROVE  ListingInv' /\ PageFrom(used, start, MaxPage) \cap received = {}
<1> DEFINE page == PageFrom(used, start, MaxPage)
<1>1. /\ status = "ask"
      /\ received' = received \cup page
      /\ status' = IF IsEnd(page, Size, MaxPage) THEN "end" ELSE "ask"
      /\ start' = IF page = {} THEN start ELSE NextStart(page)
      /\ used' = used /\ kept' = kept
  BY DEF SendRoomList
<1>2. /\ page \subseteq used
      /\ \A i \in page : i >= start
      /\ \A i \in page : \A j \in used : start <= j /\ j <= i => j \in page
      /\ page = {} \/ Cardinality(page) < MaxPage =>
             \A j \in used : start <= j => j \in page
  BY PageFacts DEF ListingInv
<1> HIDE DEF page
<1>3. /\ used \in SUBSET Indices /\ kept \subseteq used /\ start \in Nat
      /\ received \subseteq 0 .. start - 1
      /\ \A r \in kept : r < start => r \in received
  BY <1>1 DEF ListingInv, Told, NothingMissed
<1>4. page \cap received = {}
  BY <1>2, <1>3 DEF Indices
<1>5. CASE page = {}
  <2>1. kept \subseteq received
    BY <1>2, <1>3, <1>5 DEF Indices
  <2>2. status' = "end" /\ start' = start /\ received' = received
    BY <1>1, <1>5 DEF IsEnd
  <2>3. ListingInv'
    BY <1>1, <1>3, <2>1, <2>2 DEF ListingInv, Told, NothingMissed, WithinList
  <2> QED
    BY <1>4, <2>3 DEF page
<1>6. CASE page # {}
  <2> DEFINE last == LastOf(page)
  <2>1. last \in page /\ \A j \in page : j <= last
    BY <1>2, <1>3, <1>6, LastOfFacts
  <2>2. start' = last + 1
    BY <1>1, <1>6 DEF NextStart
  <2> HIDE DEF last
  <2>3. last \in Indices /\ last >= start
    BY <1>2, <1>3, <2>1
  <2>4. Told' /\ start' \in Nat
    BY <1>1, <1>2, <1>3, <2>1, <2>2, <2>3 DEF Told, Indices
  <2>5. \A r \in kept : r < start' => r \in received'
    BY <1>1, <1>2, <1>3, <2>1, <2>2, <2>3 DEF Indices
  <2>6. CASE IsEnd(page, Size, MaxPage)
    <3>1. kept \subseteq received'
      <4>1. CASE Cardinality(page) < MaxPage
        BY <1>1, <1>2, <1>3, <4>1 DEF Indices
      <4>2. CASE last + 1 = Size
        BY <1>3, <2>2, <2>5, <4>2 DEF Indices
      <4> QED
        BY <1>6, <2>6, <4>1, <4>2 DEF IsEnd, last
    <3>2. status' = "end"
      BY <1>1, <2>6
    <3> QED
      BY <1>1, <1>3, <1>4, <2>4, <3>1, <3>2
      DEF ListingInv, NothingMissed, WithinList, page
  <2>7. CASE ~IsEnd(page, Size, MaxPage)
    <3>1. last + 1 # Size
      BY <2>7 DEF IsEnd, last
    <3>2. start' <= Size - 1
      BY <2>2, <2>3, <3>1 DEF Indices
    <3>3. status' = "ask"
      BY <1>1, <2>7
    <3> QED
      BY <1>1, <1>3, <1>4, <2>4, <2>5, <3>2, <3>3
      DEF ListingInv, NothingMissed, WithinList, page
  <2> QED
    BY <2>6, <2>7
<1> QED
  BY <1>5, <1>6

LEMMA ListingInvNext ==
  ASSUME ListingInv, [Next]_vars
  PROVE  ListingInv'
<1>1. ASSUME NEW r \in Indices, RoomChanges(r)
      PROVE  ListingInv'
  BY <1>1, RoomChangesKeep
<1>2. CASE Refuse
  BY <1>2, RefuseKeeps
<1>3. CASE SendRoomList
  BY <1>3, PageKeeps
<1>4. CASE UNCHANGED vars
  BY <1>4 DEF vars, ListingInv, Told, NothingMissed, WithinList
<1> QED
  BY <1>1, <1>2, <1>3, <1>4 DEF Next

LEMMA ListingInvHolds == Spec => []ListingInv
<1>1. Init => ListingInv
  BY ListingInvInit
<1>2. ListingInv /\ [Next]_vars => ListingInv'
  BY ListingInvNext
<1> QED
  BY <1>1, <1>2, PTL DEF Spec
-----------------------------------------------------------------------------
(* For every length of the list and every page size: a listing that ended   *)
(* has told the client of every room that was in use all the time.          *)
THEOREM ListingComplete == Spec => []KeptRoomsListed
<1>1. ListingInv => KeptRoomsListed
  BY DEF ListingInv, NothingMissed, KeptRoomsListed
<1> QED
  BY <1>1, ListingInvHolds, PTL

(* The only request that a client following Packet.h:72 is refused is the   *)
(* one for the last room.                                                   *)
THEOREM RefusedAtLastOnly == Spec => []OnlyLastRefused
<1>1. ListingInv => OnlyLastRefused
  BY DEF ListingInv, WithinList, OnlyLastRefused
<1> QED
  BY <1>1, ListingInvHolds, PTL

(* No page repeats a room of an earlier one.                                *)
THEOREM EachRoomOnce == Spec => NoRoomTwice
<1>1. ListingInv /\ [Next]_vars =>
          [status' # "unanswered" /\ status = "ask" /\ start' # start
             => PageFrom(used, start, MaxPage) \cap received = {}]_vars
  <2> SUFFICES ASSUME ListingInv, Next,
                      status' # "unanswered", status = "ask", start' # start
               PROVE  PageFrom(used, start, MaxPage) \cap received = {}
    OBVIOUS
  <2>1. SendRoomList
    BY DEF Next, RoomChanges, Refuse
  <2> QED
    BY <2>1, PageKeeps
<1> QED
  BY <1>1, ListingInvHolds, PTL DEF Spec, NoRoomTwice
=============================================================================
