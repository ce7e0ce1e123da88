\* Three users in one lobby and one room that holds all three, so that the
\* order of the room's members matters.
SPECIFICATION Spec
CONSTANTS
    MaxUserCount = 3
    MaxSessionCount = 3
    Ids = {i1}
    NoId = NoId
    Offsets = {1}
    LocalCopy <- MCLocalCopy
    MaxRoomUserCount = 3
    MaxLobbyCount = 1
    MaxLobbyUserCount = 3
    MaxRoomCountByLobby = 1
VIEW ServerView
INVARIANTS
    RoomMembership
PROPERTIES
    RoomChangesAnnounced
    PresenceAnnounced
    MasterSuccession
    GameNeverEnds
    ChatStaysInPlace
