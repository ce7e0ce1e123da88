\* Two sessions that log in with one ID.
SPECIFICATION UserManagerSpec
CONSTANTS
    MaxUserCount = 2
    MaxSessionCount = 2
    Ids = {i1}
    NoId = NoId
    Offsets = {1}
    LocalCopy <- MCLocalCopy
INVARIANT NoDuplicateIds
