\* Two users in a lobby, one of whom was in a room before.
SPECIFICATION Spec
CONSTANTS
    MaxUserCount = 2
    MaxSessionCount = 2
    Ids = {i1}
    NoId = NoId
    Offsets = {1}
    LocalCopy <- MCLocalCopy
    MaxRoomUserCount = 2
    MaxLobbyCount = 1
    MaxLobbyUserCount = 2
    MaxRoomCountByLobby = 1
VIEW ServerView
PROPERTY LobbyLeaveAnnounced
