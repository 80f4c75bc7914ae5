SPECIFICATION ListeningSpec
CONSTANTS
    u1 = u1
    k1 = k1
    k2 = k2
    k3 = k3
    k4 = k4
    Users <- MCUsers
    Tracks <- MCTracks4
    Spotify <- MCSpotify4
    Unplayable <- MCUnplayable
    Broken <- MCBroken
    Queue = 1
    Lists <- MCLists
    InitialVotes = 1
    MaxRowId = 4
    MaxRowVotes = 1
    NoSrc = NoSrc
    Spot = Spot
    Saved <- MCSaved
INVARIANT
    SpotFollows
PROPERTIES
    ResumesBehind
    EndPlaysNext
    EndKeepsPlaylists
    StartsActive
