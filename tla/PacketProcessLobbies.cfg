\* Two users that move between two lobbies of two rooms for one each, so that their
\* lobby and room indices go stale, and that may log in again, on the same
\* connection or on the next one.
SPECIFICATION Spec
CONSTANTS
    MaxUserCount = 2
    MaxSessionCount = 2
    Ids = {i1}
    NoId = NoId
    Offsets = {1, 2}
    LocalCopy <- MCLocalCopy
    MaxRoomUserCount = 1
    MaxLobbyCount = 2
    MaxLobbyUserCount = 2
    MaxRoomCountByLobby = 2
VIEW ServerView
INVARIANTS
    ServerTypeOK
    LobbyIndexesAgree
    MembersOnline
    LoginMarkAgrees
PROPERTIES
    NoDefensiveError
    ImplementsPresence
