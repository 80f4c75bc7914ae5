SPECIFICATION VotingSpec
CONSTANTS
    u1 = u1
    u2 = u2
    u3 = u3
    k1 = k1
    k2 = k2
    k3 = k3
    k4 = k4
    Users <- MCUsers3
    Tracks <- MCTracks4
    Queue = 1
    Lists <- MCLists
    InitialVotes = 3
    MaxRowId = 5
    MaxRowVotes = 3
SYMMETRY VotingSymmetry
INVARIANTS
    QueueSorted
    VotesMatchVoters
