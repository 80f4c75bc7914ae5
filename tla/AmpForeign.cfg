SPECIFICATION CurrentSpec
CONSTANTS
    u1 = u1
    k1 = k1
    k2 = k2
    k3 = k3
    k4 = k4
    Users <- MCUsers
    Tracks <- MCTracks
    Spotify <- MCSpotify
    Unplayable = {}
    Broken = {}
    Queue = 1
    Lists <- MCLists
    InitialVotes = 1
    MaxRowId = 3
    MaxRowVotes = 1
    NoSrc = NoSrc
    Spot = Spot
    Saved <- MCNone
PROPERTY
    EndKeepsPlaylists
