------------------------------- MODULE VoteQueue -------------------------------
(***************************************************************************)
(* The dog's database and the API calls that change it: the queue that     *)
(* listeners vote on (Playlist.add_vote and remove_vote with User and      *)
(* Track), the calls of the amp that queue and remove tracks, and the      *)
(* calls of Dogvibes that edit the ordinary playlists.                     *)
(*                                                                         *)
(* Commands reach the dog one at a time (dog.py runs them on the thread of *)
(* its I/O loop), so a handler is one action here.  A handler that raises  *)
(* or returns before it writes anything leaves the database as it was and  *)
(* is a stuttering step.                                                   *)
(***************************************************************************)
EXTENDS PlaylistRows

CONSTANTS
    Users,          \* the listeners that vote
    Tracks,         \* the tracks of the sources
    Queue,          \* the id of the amp's playlist (tmpqueue_id)
    Lists,          \* the ids that ordinary playlists may get
    InitialVotes,   \* votes of a new user; 5 in user.py
    MaxRowId,       \* bound: the largest row id and position that a run gives out
    MaxRowVotes     \* bound: the votes that a row gets, either way

ASSUME VoteQueueAssumption ==
    /\ InitialVotes \in Nat \ {0}
    /\ MaxRowId \in Nat
    /\ MaxRowVotes \in Nat
    /\ Queue \notin Lists

VARIABLES
    rows,       \* table playlist_tracks
    votes,      \* table votes: pairs of a user and a track
    left,       \* column users.votes
    playlists   \* table playlists, without the amp's own

vars == <<rows, votes, left, playlists>>

Row == [pl : {Queue} \cup Lists, track : Tracks, pos : Nat, votes : Int]

\* Everybody who is not stored yet is stored with InitialVotes by the first call.
Init ==
    /\ rows = [i \in {} |-> 0]
    /\ votes = {}
    /\ left = [u \in Users |-> InitialVotes]
    /\ playlists = {}

\* The bound on the ids and positions of new rows.  While the lists are in order the
\* positions need none; behind a hole they can grow past the number of rows.
Room(n) ==
    /\ NewId(rows) + n - 1 <= MaxRowId
    /\ \A i \in DOMAIN rows : rows[i].pos + n <= MaxRowId

\* The bound on the votes of rows.  A track that is queued twice keeps the votes
\* of one row when the other is removed and its voters get theirs back, so
\* nothing in the code bounds the column.
Bounded(t) == \A i \in DOMAIN t : t[i].votes \in -MaxRowVotes .. MaxRowVotes

\* Variants of GiveBack for the checks: everybody gets a vote, and nobody does.
GiveBackToAll(K) ==
    /\ votes' = {w \in votes : w[2] \notin K}
    /\ left' = [u \in Users |-> left[u] + Cardinality(K)]

GiveBackToNobody(K) ==
    /\ votes' = {w \in votes : w[2] \notin K}
    /\ UNCHANGED left

\* User.remove_all_voting_users for the tracks in K: every voter gets the vote
\* back and the votes are deleted.
GiveBack(K) ==
    /\ votes' = {w \in votes : w[2] \notin K}
    /\ left' = [u \in Users |-> left[u] + Cardinality({k \in K : <<u, k>> \in votes})]

-------------------------------------------------------------------------------
(* Votes on the queue *)

\* Where add_vote puts the row it votes up: past every row with no more votes,
\* but never past the playing track.
UpPos(r) ==
    Min({rows[j].pos : j \in {j \in InList(rows, Queue) :
                                 /\ rows[j].votes <= rows[r].votes
                                 /\ rows[j].pos > 1}})

\* The rows after the move of add_vote.
MovedUp(r) ==
    IF rows[r].pos <= 2 THEN rows ELSE MoveTrack(rows, Queue, r, UpPos(r))

\* Playlist.add_vote: the track gains a vote and moves up, or joins the queue.
AddVote(u, k) ==
    /\ left[u] >= 1
    /\ <<u, k>> \notin votes
    /\ IF HasTrack(rows, Queue, k)
       THEN LET moved == MovedUp(FirstRow(rows, Queue, k))
            IN rows' = Revote(moved, RowsOf(moved, Queue, k), 1)
       ELSE /\ Room(1)
            /\ rows' = AddTrack(rows, Queue, k, 1)
    /\ Bounded(rows')
    /\ votes' = votes \cup {<<u, k>>}
    /\ left' = [left EXCEPT ![u] = @ - 1]
    /\ UNCHANGED playlists

\* Variant of DownPos for the checks: the votes before the vote is taken back count.
DownPosBefore(r) ==
    LET ahead == {j \in InList(rows, Queue) :
                     rows[j].votes > rows[r].votes /\ rows[j].pos > 1}
    IN IF ahead = {} THEN 2 ELSE Max({rows[j].pos : j \in ahead})

\* Where remove_vote puts the row it votes down: behind the last row with more
\* votes than are left.  An empty result of max(position) is NULL, which
\* compares as less than 1, so the row goes to 2.
DownPos(r) ==
    LET ahead == {j \in InList(rows, Queue) :
                     rows[j].votes > rows[r].votes - 1 /\ rows[j].pos > 1}
    IN IF ahead = {} THEN 2 ELSE Max({rows[j].pos : j \in ahead})

\* A vote can be taken back unless move_track raises: the last vote of a row
\* removes it, any other moves it.
CanTakeBack(k) ==
    LET r == FirstRow(rows, Queue, k)
    IN rows[r].votes = 1 \/ CanMove(rows, Queue, r, DownPos(r))

\* Variants of VoteDown for the checks: the user's votes on all tracks are deleted,
\* and the row keeps its votes.
VoteDownAll(u, k) ==
    LET r     == FirstRow(rows, Queue, k)
        moved == MoveTrack(rows, Queue, r, DownPos(r))
    IN /\ rows[r].votes # 1
       /\ rows' = Revote(moved, RowsOf(moved, Queue, k), -1)
       /\ Bounded(rows')
       /\ votes' = {w \in votes : w[1] # u}
       /\ left' = [left EXCEPT ![u] = @ + 1]

VoteDownOnlyMoves(u, k) ==
    LET r == FirstRow(rows, Queue, k)
    IN /\ rows[r].votes # 1
       /\ rows' = MoveTrack(rows, Queue, r, DownPos(r))
       /\ votes' = votes \ {<<u, k>>}
       /\ left' = [left EXCEPT ![u] = @ + 1]

\* Playlist.remove_vote of a row that keeps some votes.
VoteDown(u, k) ==
    LET r     == FirstRow(rows, Queue, k)
        moved == MoveTrack(rows, Queue, r, DownPos(r))
    IN /\ rows[r].votes # 1
       /\ rows' = Revote(moved, RowsOf(moved, Queue, k), -1)
       /\ Bounded(rows')
       /\ votes' = votes \ {<<u, k>>}
       /\ left' = [left EXCEPT ![u] = @ + 1]

\* Playlist.remove_vote of a row's last vote: the row goes, and with it every
\* vote for its track.
VoteOff(k) ==
    LET r == FirstRow(rows, Queue, k)
    IN /\ rows[r].votes = 1
       /\ rows' = RemoveRow(rows, Queue, r)
       /\ GiveBack({k})

RemoveVote(u, k) ==
    /\ <<u, k>> \in votes
    /\ HasTrack(rows, Queue, k)
    /\ CanTakeBack(k)
    /\ VoteDown(u, k) \/ VoteOff(k)
    /\ UNCHANGED playlists

-------------------------------------------------------------------------------
(* Queueing and removing *)

\* Variant of DropRow for the checks: the votes on the track stay.
DropRowKeepingVotes(p, i) ==
    /\ i \in DOMAIN rows
    /\ rows' = RemoveRow(rows, p, i)
    /\ UNCHANGED <<votes, left, playlists>>

\* remove_playlist_tracks_id(i) called on playlist p: the row may be one of any list.
DropRow(p, i) ==
    /\ i \in DOMAIN rows
    /\ rows' = RemoveRow(rows, p, i)
    /\ GiveBack({rows[i].track})
    /\ UNCHANGED playlists

\* Two rows of one list of ids; a second id that is not in the table ends the
\* handler with an error after the first row is gone.
DropRows(p, i, j) ==
    /\ {i, j} \subseteq DOMAIN rows
    /\ i # j
    /\ rows' = RemoveRow(RemoveRow(rows, p, i), p, j)
    /\ GiveBack({rows[i].track, rows[j].track})
    /\ UNCHANGED playlists

\* Amp.API_queue: the tracks of an uri go to the end of the queue.
QueueTracks(ks) ==
    /\ Room(Len(ks))
    /\ rows' = AddTracks(rows, Queue, ks, -1)
    /\ UNCHANGED <<votes, left, playlists>>

\* Amp.API_removeTrack, one id of Amp.API_removeTracks, and the removal of the
\* played track in Amp.change_track.
RemoveTrack(i) == DropRow(Queue, i)

\* Amp.API_removeTracks with two ids.
RemoveTracks(i, j) == DropRows(Queue, i, j)

-------------------------------------------------------------------------------
(* The ordinary playlists *)

\* Dogvibes.API_createPlaylist: the id is the next free one.
CreatePlaylist ==
    LET id == Max({Queue} \cup playlists) + 1
    IN /\ id \in Lists
       /\ playlists' = playlists \cup {id}
       /\ UNCHANGED <<rows, votes, left>>

\* Dogvibes.API_removePlaylist.
RemovePlaylist(p) ==
    /\ p \in playlists
    /\ rows' = RemoveList(rows, p)
    /\ playlists' = playlists \ {p}
    /\ UNCHANGED <<votes, left>>

\* Dogvibes.API_addTrackToPlaylist.
AddTrackToPlaylist(p, k) ==
    /\ p \in playlists
    /\ Room(1)
    /\ rows' = AddTrack(rows, p, k, 0)
    /\ UNCHANGED <<votes, left, playlists>>

\* Dogvibes.API_addTracksToPlaylist.
AddTracksToPlaylist(p, ks) ==
    /\ p \in playlists
    /\ Room(Len(ks))
    /\ rows' = AddTracks(rows, p, ks, -1)
    /\ UNCHANGED <<votes, left, playlists>>

\* Dogvibes.API_removeTrackFromPlaylist and API_removeTracksFromPlaylist.
RemoveTrackFromPlaylist(p, i) == p \in playlists /\ DropRow(p, i)

RemoveTracksFromPlaylist(p, i, j) == p \in playlists /\ DropRows(p, i, j)

\* Dogvibes.API_moveTrackInPlaylist.
MoveTrackInPlaylist(p, i, pos) ==
    /\ p \in playlists
    /\ CanMove(rows, p, i, pos)
    /\ rows' = MoveTrack(rows, p, i, pos)
    /\ UNCHANGED <<votes, left, playlists>>

\* Dogvibes.API_cleanDatabase; the amp's playlist is the one with id 1.
CleanDatabase ==
    /\ rows' = [i \in {} |-> 0]
    /\ votes' = {}
    /\ left' = [u \in Users |-> InitialVotes]
    /\ playlists' = {}

-------------------------------------------------------------------------------
\* The lists of tracks that one uri stands for: a track or an album.
Albums == {<<k>> : k \in Tracks} \cup {<<k, l>> : k, l \in Tracks}

Voting == \E u \in Users, k \in Tracks : AddVote(u, k) \/ RemoveVote(u, k)

\* What listeners do to the queue by voting, and what playing and removing does.
VotingNext ==
    \/ Voting
    \/ \E i \in DOMAIN rows : RemoveTrack(i)
    \/ \E i, j \in DOMAIN rows : RemoveTracks(i, j)

ListRemoving ==
    \E p \in playlists :
        \/ \E i \in DOMAIN rows : RemoveTrackFromPlaylist(p, i)
        \/ \E i, j \in DOMAIN rows : RemoveTracksFromPlaylist(p, i, j)

ListEditing ==
    \/ CreatePlaylist
    \/ CleanDatabase
    \/ \E ks \in Albums : QueueTracks(ks)
    \/ \E p \in playlists :
        \/ RemovePlaylist(p)
        \/ \E k \in Tracks : AddTrackToPlaylist(p, k)
        \/ \E ks \in Albums : AddTracksToPlaylist(p, ks)
        \/ \E i \in DOMAIN rows, pos \in 1 .. MaxPos(rows, p) : MoveTrackInPlaylist(p, i, pos)

Next == VotingNext \/ ListRemoving \/ ListEditing

Spec == Init /\ [][Next]_vars

\* The calls as clients make them whose lists are fresh: the rows that are removed are
\* rows of the list that they are removed through.
OwnRemoving ==
    \/ \E i \in InList(rows, Queue) : RemoveTrack(i)
    \/ \E i, j \in InList(rows, Queue) : RemoveTracks(i, j)
    \/ \E p \in playlists :
        \/ \E i \in InList(rows, p) : RemoveTrackFromPlaylist(p, i)
        \/ \E i, j \in InList(rows, p) : RemoveTracksFromPlaylist(p, i, j)

OwnNext == Voting \/ OwnRemoving \/ ListEditing

OwnSpec == Init /\ [][OwnNext]_vars

\* Only votes and removals, the interface that the voting tests exercise.
VotingSpec == Init /\ [][VotingNext]_vars

-------------------------------------------------------------------------------
\* The tables have their columns' types.
TypeOK ==
    /\ DOMAIN rows \in SUBSET (Nat \ {0})
    /\ IsFiniteSet(DOMAIN rows)
    /\ rows \in [DOMAIN rows -> Row]
    /\ votes \in SUBSET (Users \X Tracks)
    /\ left \in [Users -> 0 .. InitialVotes]
    /\ playlists \in SUBSET Lists

\* The tracks that user u has a vote on.
Ballot(u) == {k \in Tracks : <<u, k>> \in votes}

\* No vote is lost or made up: what a user has left and what a user has placed
\* add up to the votes of a new user, whichever handler takes votes away
\* (voteup, votedown, remove_all_voting_users).
VoteBudget == \A u \in Users : left[u] + Cardinality(Ballot(u)) = InitialVotes

\* A placed vote is for a track that is in the queue: otherwise remove_vote would
\* ignore it and its owner could never get it back.
VotesAreQueued == \A w \in votes : HasTrack(rows, Queue, w[2])

\* The positions of every playlist run from 1 without holes and without
\* duplicates; the amp steps through a playlist by position.
ListsContiguous == \A p \in {Queue} \cup playlists : Contiguous(rows, p)

\* Every call leaves playlists in order that were in order, unless it removes a row
\* through a list that the row is not in: then the rows that close up are not those
\* behind it (remove_playlist_tracks_id).
ListsKept == [][OwnNext /\ ListsContiguous => ListsContiguous']_vars

\* Behind the first (playing) entry, a queue that is only voted on is ordered by
\* votes (test_the_dog.py, check_list_order).
QueueSorted ==
    \A i, j \in InList(rows, Queue) :
        1 < rows[i].pos /\ rows[i].pos < rows[j].pos => rows[i].votes >= rows[j].votes

\* In a queue that is only voted on, a track has one row, and its votes are the
\* number of voters that get_all_tracks lists for it.
VotesMatchVoters ==
    \A i \in InList(rows, Queue) :
        /\ rows[i].votes = Cardinality({u \in Users : <<u, rows[i].track>> \in votes})
        /\ \A j \in InList(rows, Queue) : rows[i].track = rows[j].track => i = j

\* The abstract specification that the votes implement.
Ballots == [u \in Users |-> Ballot(u)]
QueuedTracks == [i \in InList(rows, Queue) |-> rows[i].track]
SavedTracks == [i \in DOMAIN rows \ InList(rows, Queue) |-> rows[i].track]
Booth == INSTANCE VotingBooth
            WITH ballot <- Ballots, queue <- QueuedTracks, saved <- SavedTracks
BoothSpec == Booth!Spec
===============================================================================
