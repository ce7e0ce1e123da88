\* Seven rooms in pages of two: several pages, full and partial, and a full
\* page that ends just before the last room.
SPECIFICATION Spec
CONSTANTS
    Size = 7
    MaxPage = 2
INVARIANTS
    KeptRoomsListed
    OnlyLastRefused
PROPERTIES
    NoRoomTwice
    ListingStops
