SPECIFICATION Spec
CONSTANTS
    u1 = u1
    u2 = u2
    u3 = u3
    k1 = k1
    k2 = k2
    k3 = k3
    k4 = k4
    Users <- MCUsers
    Tracks <- MCTracks
    Queue = 1
    Lists <- MCLists
    InitialVotes = 2
    MaxRowId = 3
    MaxRowVotes = 2
SYMMETRY Symmetry
INVARIANTS
    TypeOK
    VoteBudget
    VotesAreQueued
PROPERTIES
    ListsKept
    BoothSpec
