\* A full page that ends just before the last room.
SPECIFICATION Spec
CONSTANTS
    Size = 4
    MaxPage = 3
INVARIANT ContinuationAnswered
