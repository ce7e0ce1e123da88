\* Three user objects, four sessions, two IDs, and a login packet whose ID
\* may lie at either of two positions of the receive buffer.
SPECIFICATION UserManagerSpec
CONSTANTS
    MaxUserCount = 3
    MaxSessionCount = 4
    Ids = {i1, i2}
    NoId = NoId
    Offsets = {1, 2}
    LocalCopy <- MCLocalCopy
SYMMETRY IdSymmetry
INVARIANTS
    UserManagerTypeOK
    FreeListExact
    SessionBinding
PROPERTIES
    SessionKeepsUser
