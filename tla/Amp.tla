---------------------------------- MODULE Amp ----------------------------------
(***************************************************************************)
(* The amp (amp.py): which row of which playlist is active, the switch     *)
(* between the queue and an ordinary playlist, and the GStreamer pipeline  *)
(* that plays.  The database is that of VoteQueue.                         *)
(*                                                                         *)
(* A command of a client is one action: dog.py runs commands one after the *)
(* other and, after each, pushes the status when some handler has asked    *)
(* for it; building the status is part of the command because it may start *)
(* and pause a track.  The end of a stream and the loss of the play token  *)
(* arrive from other threads and are actions of their own.                 *)
(***************************************************************************)
EXTENDS VoteQueue

CONSTANTS
    Spotify,    \* tracks that the spotify source plays (uri_matches)
    Unplayable, \* tracks that no element of GStreamer takes
    Broken,     \* tracks that an element takes but cannot be paused or played with
    NoSrc,      \* src is None
    Spot,       \* src is the bin of the spotify source
    Saved       \* the tracks of the playlist that a listening session starts with

ASSUME AmpAssumption ==
    /\ Spotify \cup Unplayable \cup Broken \subseteq Tracks
    /\ (Spotify \cup Broken) \cap Unplayable = {}
    /\ Saved \in Seq(Tracks)
    /\ Lists \cup {Queue} \subseteq Nat
    /\ {NoSrc, Spot} \cap Tracks = {} /\ NoSrc # Spot
    /\ Saved # <<>> => Lists # {}

\* The -1 of the row fields and of the playlist fields of the amp.
NoRow == -1
NoList == -1

VARIABLE amp
    \* list, row       active_playlist_id, active_playlists_track_id
    \* fbList, fbRow   fallback_playlist_id, fallback_playlists_track_id
    \* src, state      the source in the pipeline and the state that the pipeline has
    \*                 reached: "ready" behind a failed start, which clients see as paused
    \* uri, up         uri of the spotify element and whether it is past READY
    \* refused         the last uri given to that element was refused
    \* ended           the stream has ended and nothing was started since
    \* push            needs_push_update, of the amp or of Dogvibes

ampVars == <<rows, votes, left, playlists, amp>>

States == {"null", "ready", "paused", "playing"}
Amps == [list : {Queue} \cup Lists, row : Nat \cup {NoRow},
         fbList : {NoList} \cup Lists, fbRow : Nat \cup {NoRow},
         src : {NoSrc, Spot} \cup Tracks, state : States,
         uri : Tracks \cup {NoSrc}, up : BOOLEAN, refused : BOOLEAN,
         ended : BOOLEAN, push : BOOLEAN]

Silent == [list |-> Queue, row |-> NoRow, fbList |-> NoList, fbRow |-> NoRow,
           src |-> NoSrc, state |-> "null", uri |-> NoSrc, up |-> FALSE,
           refused |-> FALSE, ended |-> FALSE, push |-> FALSE]

AmpInit == Init /\ amp = Silent

-------------------------------------------------------------------------------
(* The pipeline *)

\* What the source in the pipeline plays.
Loaded(a) == IF a.src = Spot THEN a.uri ELSE a.src

\* The pipeline was told to take state s, and its source could not: a pipeline that was
\* stopped stays in READY, any other where it was.
Failed(a) == [a EXCEPT !.state = IF @ = "null" THEN "ready" ELSE @]

\* Variant of SetState for the checks: a pause takes the spotify element back to READY.
SetStatePausesDown(a, s) ==
    CASE a.src = NoSrc -> a
      [] a.src # NoSrc /\ s # "null" /\ Loaded(a) \in Broken -> Failed(a)
      [] OTHER -> [a EXCEPT !.state = s,
                            !.up = IF a.src = Spot THEN s = "playing" ELSE @,
                            !.ended = @ /\ s # "null"]

\* Amp.set_state: nothing happens without a source; a change that begins well is waited
\* for, and is taken to end; nobody looks at the result.
SetState(a, s) ==
    CASE a.src = NoSrc -> a
      [] a.src # NoSrc /\ s # "null" /\ Loaded(a) \in Broken -> Failed(a)
      [] OTHER -> [a EXCEPT !.state = s,
                            !.up = IF a.src = Spot THEN s # "null" ELSE @,
                            !.ended = @ /\ s # "null"]

\* Amp.start_track.  There is one spotify element; it keeps its uri unless it is
\* stopped (gst_spot_src_set_spotifyuri), and taking it out of the pipeline does
\* not stop it.  Any other track gets a new element.
StartTrack(a, k) ==
    CASE k \in Spotify ->
             SetState([a EXCEPT !.src = Spot, !.uri = IF a.up THEN @ ELSE k,
                                !.refused = a.up, !.ended = @ /\ a.up], "playing")
      [] k \in Unplayable -> [a EXCEPT !.src = NoSrc]
      [] OTHER -> SetState([a EXCEPT !.src = k, !.refused = FALSE, !.ended = FALSE], "playing")

-------------------------------------------------------------------------------
(* The active playlist and the active track *)

\* Amp.fetch_active_playlist, with P the ordinary playlists: the queue replaces a
\* playlist that is gone.
Exists(p, P) == p \in {Queue} \cup P
FetchPlaylist(a, P) ==
    IF Exists(a.list, P) THEN a ELSE [a EXCEPT !.list = Queue, !.row = NoRow]

\* Amp.fetch_active_track: forgets a row that is gone; without a row, starts the
\* first track of the active playlist and pauses it.  The row is looked up by its
\* id alone.
FetchTrack(a, t) ==
    IF Length(t, a.list) = 0 \/ a.row \in DOMAIN t THEN a
    ELSE IF a.row # NoRow THEN [a EXCEPT !.row = NoRow]
    ELSE LET i == CHOOSE i \in TrackNbr(t, a.list, 0) : TRUE
             started == StartTrack([a EXCEPT !.row = i], t[i].track)
         IN IF t[i].track \in Unplayable THEN [started EXCEPT !.row = NoRow]
            ELSE SetState(started, "paused")

\* It returned a track.
Found(a, t) == Length(t, a.list) > 0 /\ a.row # NoRow

\* Amp.get_status, for what it does to the amp.
Status(a, t, P) == FetchTrack(FetchPlaylist(a, P), t)

\* dog.push_status, run after every command.
Pushed(a, t, P) == IF a.push THEN [Status(a, t, P) EXCEPT !.push = FALSE] ELSE a

-------------------------------------------------------------------------------
(* Changing the track.  The outcome of a call: the amp, the rows, the tracks    *)
(* whose votes are given back, and whether the call returned or raised.         *)

Done(a, t, K) == [amp |-> a, rows |-> t, gone |-> K, ok |-> TRUE]
Raised(a, t, K) == [amp |-> a, rows |-> t, gone |-> K, ok |-> FALSE]

\* Variant of PlayNbr for the checks: the track that plays is not stopped.
PlayNbrUnstopped(a, t, p, n, K) ==
    LET found == TrackNbr(t, p, IF n < 0 THEN 0 ELSE n)
    IN IF found = {}
       THEN Done([SetState(a, "null") EXCEPT !.row = NoRow], t, K)
       ELSE LET i == CHOOSE i \in found : TRUE
            IN Done(StartTrack([a EXCEPT !.row = i], t[i].track), t, K)

\* The end of change_track: play the n-th track of p, or stop when there is none.
\* A negative offset of a query means 0.
PlayNbr(a, t, p, n, K) ==
    LET found == TrackNbr(t, p, IF n < 0 THEN 0 ELSE n)
    IN IF found = {}
       THEN Done([SetState(a, "null") EXCEPT !.row = NoRow], t, K)
       ELSE LET i == CHOOSE i \in found : TRUE
            IN Done(StartTrack(SetState([a EXCEPT !.row = i], "null"), t[i].track), t, K)

\* Variants of FallBack for the checks: playback does not stop when there is no
\* playlist to go back to, and the track that was left is played again.
FallBackSilently(a, t, K) ==
    LET b == [a EXCEPT !.list = a.fbList, !.row = a.fbRow]
    IN IF a.fbList = NoList THEN Done(a, t, K)
       ELSE IF ~Exists(b.list, playlists) \/ b.row \notin DOMAIN t THEN Raised(b, t, K)
       ELSE IF t[b.row].pos >= Length(t, b.list) THEN Done(SetState(b, "null"), t, K)
       ELSE PlayNbr(b, t, b.list, t[b.row].pos, K)

FallBackToSame(a, t, K) ==
    LET b == [a EXCEPT !.list = a.fbList, !.row = a.fbRow]
    IN IF a.fbList = NoList THEN Done(SetState(a, "null"), t, K)
       ELSE IF ~Exists(b.list, playlists) \/ b.row \notin DOMAIN t THEN Raised(b, t, K)
       ELSE IF t[b.row].pos >= Length(t, b.list) THEN Done(SetState(b, "null"), t, K)
       ELSE PlayNbr(b, t, b.list, t[b.row].pos - 1, K)

\* The queue ran empty: go on behind the track of the playlist that the amp left
\* for the queue, or stop.
FallBack(a, t, K) ==
    LET b == [a EXCEPT !.list = a.fbList, !.row = a.fbRow]
    IN IF a.fbList = NoList THEN Done(SetState(a, "null"), t, K)
       ELSE IF ~Exists(b.list, playlists) \/ b.row \notin DOMAIN t THEN Raised(b, t, K)
       ELSE IF t[b.row].pos >= Length(t, b.list) THEN Done(SetState(b, "null"), t, K)
       ELSE PlayNbr(b, t, b.list, t[b.row].pos, K)

\* change_track(1, True) in the queue: the active row is removed.
NextInQueue(a, t) ==
    LET rest == RemoveRow(t, Queue, a.row)
        K == {t[a.row].track}
    IN IF Length(rest, Queue) = 0 THEN FallBack(a, rest, K)
       ELSE PlayNbr(a, rest, Queue, 0, K)

\* The queue has tracks: leave the playlist for it.
EnterQueue(a, t) ==
    PlayNbr([a EXCEPT !.list = Queue, !.fbList = a.list, !.fbRow = a.row], t, Queue, 0, {})

\* Variant of ChangeRelative for the checks: the active row is removed in an ordinary
\* playlist too.
ChangeRelativeRemoving(a0, t, n) ==
    LET a == Status(a0, t, playlists)
    IN CASE ~Found(a, t) -> Done(a, t, {})
         [] Found(a, t) /\ n = 1 -> NextInQueue(a, t)
         [] Found(a, t) /\ a.list = Queue /\ n = -1 -> Done(a, t, {})
         [] OTHER -> PlayNbr(a, t, a.list, t[a.row].pos - 1 + n, {})

\* change_track(n, True) for n = 1 and n = -1.
ChangeRelative(a0, t, n) ==
    LET a == Status(a0, t, playlists)
    IN CASE ~Found(a, t) -> Done(a, t, {})
         [] Found(a, t) /\ a.list = Queue /\ n = 1 -> NextInQueue(a, t)
         [] Found(a, t) /\ a.list = Queue /\ n = -1 -> Done(a, t, {})
         [] Found(a, t) /\ a.list # Queue /\ Length(t, Queue) > 0 -> EnterQueue(a, t)
         [] OTHER -> PlayNbr(a, t, a.list, t[a.row].pos - 1 + n, {})

\* change_track(i, False): row i goes to the top of the queue, or the playlist is
\* played at the position of row i.
ChangeAbsolute(a0, t, i) ==
    LET a == Status(a0, t, playlists)
        b == [a EXCEPT !.row = i]
    IN CASE a.list = Queue /\ ~CanMove(t, Queue, i, 1) -> Raised(b, t, {})
         [] a.list = Queue /\ CanMove(t, Queue, i, 1) ->
                PlayNbr(b, MoveTrack(t, Queue, i, 1), Queue, 0, {})
         [] a.list # Queue /\ i \in DOMAIN t -> PlayNbr(a, t, a.list, t[i].pos - 1, {})
         [] OTHER -> Done(a, t, {})

\* Variant of PlayTrack for the checks: the playlist is saved from the queue too.
PlayTrackSavingQueue(a, t, p, i) ==
    LET b == IF p = NoList THEN [a EXCEPT !.fbList = a.list, !.fbRow = a.row] ELSE a
    IN ChangeAbsolute([b EXCEPT !.list = IF p = NoList THEN Queue ELSE p], t, i)

\* Amp.play_track; NoList is the -1 that clients send for the queue.
PlayTrack(a, t, p, i) ==
    LET b == IF p = NoList /\ a.list # Queue
             THEN [a EXCEPT !.fbList = a.list, !.fbRow = a.row] ELSE a
    IN ChangeAbsolute([b EXCEPT !.list = IF p = NoList THEN Queue ELSE p], t, i)

-------------------------------------------------------------------------------
(* Commands *)

\* The outcome r of a handler, with the push that follows it.
Command(r) ==
    /\ amp' = Pushed(r.amp, r.rows, playlists)
    /\ rows' = r.rows
    /\ GiveBack(r.gone)
    /\ UNCHANGED playlists

\* nextTrack, previousTrack and playTrack answer with the active track.
Answered(r) == IF r.ok THEN [r EXCEPT !.amp = FetchTrack(@, r.rows)] ELSE r

NextTrack == Command(Answered(ChangeRelative(amp, rows, 1)))
PreviousTrack == Command(Answered(ChangeRelative(amp, rows, -1)))
PlayTrackOf(p, i) == Command(Answered(PlayTrack(amp, rows, p, i)))

Play ==
    LET a == Status(amp, rows, playlists)
    IN Command(Done(IF Found(a, rows) THEN SetState(a, "playing") ELSE a, rows, {}))

Pause == Command(Done(SetState(amp, "paused"), rows, {}))
Stop == Command(Done(SetState(amp, "null"), rows, {}))
GetStatus == Command(Done(Status(amp, rows, playlists), rows, {}))

\* API_seek: a flushing seek, then the duration of the active track.
Seek ==
    LET a == IF amp.src # NoSrc /\ amp.state # "null"
             THEN [amp EXCEPT !.ended = FALSE] ELSE amp
    IN Command(Done(IF Exists(a.list, playlists) THEN FetchTrack(a, rows) ELSE a, rows, {}))

\* API_queueAndPlay: the tracks go to the top and the first is played; the track
\* that was on top while the queue was playing is removed.
QueueAndPlay(ks) ==
    LET onTop == IF amp.list = Queue /\ amp.state = "playing"
                 THEN TrackNbr(rows, Queue, 0) ELSE {}
        r == PlayTrack(amp, AddTracks(rows, Queue, ks, 1), Queue, NewId(rows))
        asked == [r.amp EXCEPT !.push = TRUE]
    IN /\ Room(Len(ks))
       /\ IF onTop = {} THEN Command([r EXCEPT !.amp = asked])
          ELSE LET i == CHOOSE i \in onTop : TRUE
               IN Command(Done(asked, RemoveRow(r.rows, Queue, i), {rows[i].track}))

\* A handler of VoteQueue that asks for a push, and one that does not.
Asking(A) == A /\ amp' = Pushed([amp EXCEPT !.push = TRUE], rows', playlists')
NotAsking(A) == A /\ amp' = Pushed(amp, rows', playlists')

\* API_removeTracks leaves out an id that equals the id of the active playlist.
RemoveSome(i, j) ==
    CASE i = amp.list /\ j # amp.list -> RemoveTrack(j)
      [] i # amp.list /\ j = amp.list -> RemoveTrack(i)
      [] OTHER -> i # amp.list /\ RemoveTracks(i, j)

-------------------------------------------------------------------------------
(* What other threads do *)

\* Amp.pipeline_message for the end of the stream, on the thread of GLib: the
\* next track, and a push at the next command unless change_track raised.
EndOfStream ==
    LET r == ChangeRelative([amp EXCEPT !.ended = TRUE], rows, 1)
    IN /\ amp.state = "playing" /\ amp.src # NoSrc /\ ~amp.ended
       /\ amp' = [r.amp EXCEPT !.push = @ \/ r.ok]
       /\ rows' = r.rows
       /\ GiveBack(r.gone)
       /\ UNCHANGED playlists

\* SpotifySource.play_token_lost, on the thread of libspotify.
PlayTokenLost ==
    /\ amp.up
    /\ amp' = SetState(amp, "paused")
    /\ UNCHANGED <<rows, votes, left, playlists>>

-------------------------------------------------------------------------------
(* What a session is made of.  A client acts on what it has read, the rows of a *)
(* playlist; but in Outdated it acts on a row that is gone since, and in Astray *)
(* on a row that is in another list than the client says.                       *)

PlaylistPlay ==
    \/ NextTrack \/ PreviousTrack \/ Play \/ Pause \/ Stop \/ GetStatus \/ Seek
    \/ EndOfStream \/ PlayTokenLost
    \/ \E p \in playlists : \E i \in InList(rows, p) : PlayTrackOf(p, i)

QueuePlay ==
    \/ \E ks \in Albums : QueueAndPlay(ks)
    \/ \E i \in InList(rows, Queue) : PlayTrackOf(NoList, i)

Queueing ==
    \/ \E u \in Users, k \in Tracks : Asking(AddVote(u, k))
    \/ \E ks \in Albums : Asking(QueueTracks(ks))

Unqueueing ==
    \/ \E u \in Users, k \in Tracks : Asking(RemoveVote(u, k))
    \/ \E i \in InList(rows, Queue) : Asking(RemoveTrack(i))
    \/ \E i, j \in InList(rows, Queue) : Asking(RemoveSome(i, j))

Editing ==
    \/ NotAsking(CreatePlaylist)
    \/ NotAsking(CleanDatabase)
    \/ \E p \in playlists :
        \/ Asking(RemovePlaylist(p))
        \/ \E k \in Tracks : Asking(AddTrackToPlaylist(p, k))
        \/ \E ks \in Albums : Asking(AddTracksToPlaylist(p, ks))
        \/ \E i \in InList(rows, p) : Asking(RemoveTrackFromPlaylist(p, i))
        \/ \E i, j \in InList(rows, p) : Asking(RemoveTracksFromPlaylist(p, i, j))
        \/ \E i \in InList(rows, p), pos \in 1 .. MaxRowId : Asking(MoveTrackInPlaylist(p, i, pos))

Outdated ==
    \E p \in {NoList} \cup Lists, i \in (1 .. MaxRowId) \ DOMAIN rows : PlayTrackOf(p, i)

Astray ==
    \/ \E p \in {NoList} \cup Lists, i \in DOMAIN rows : PlayTrackOf(p, i)
    \/ \E i \in DOMAIN rows : Asking(RemoveTrack(i))
    \/ \E i, j \in DOMAIN rows : Asking(RemoveSome(i, j))
    \/ \E p \in playlists, i \in DOMAIN rows : Asking(RemoveTrackFromPlaylist(p, i))
    \/ \E p \in playlists, i, j \in DOMAIN rows : Asking(RemoveTracksFromPlaylist(p, i, j))

AmpNext ==
    \/ PlaylistPlay \/ QueuePlay \/ Queueing \/ Unqueueing \/ Editing
    \/ Outdated \/ Astray

AmpSpec == AmpInit /\ [][AmpNext]_ampVars

\* Every client acts on rows that exist.
CurrentSpec ==
    AmpInit /\ [][PlaylistPlay \/ QueuePlay \/ Queueing \/ Unqueueing \/ Editing]_ampVars

\* The queue is used or playlists are: nobody queues while there is a playlist, and
\* playlists are made and edited while the queue is empty.
QueueOrPlaylists ==
    \/ PlaylistPlay \/ Outdated \/ NotAsking(CleanDatabase)
    \/ playlists = {} /\ (QueuePlay \/ Queueing \/ Unqueueing)
    \/ InList(rows, Queue) = {} /\ Editing

ApartSpec == AmpInit /\ [][QueueOrPlaylists]_ampVars

\* Listeners play and queue while nobody edits, after the tracks Saved were put
\* into a playlist.
ListeningInit ==
    /\ playlists = Lists
    /\ rows = [i \in 1 .. Len(Saved) |->
                  [pl |-> CHOOSE p \in Lists : TRUE, track |-> Saved[i], pos |-> i, votes |-> 0]]
    /\ votes = {}
    /\ left = [u \in Users |-> InitialVotes]
    /\ amp = Silent

ListeningSpec ==
    ListeningInit /\ [][PlaylistPlay \/ QueuePlay \/ Queueing]_ampVars

-------------------------------------------------------------------------------
\* The amp's fields have their types.
AmpTypeOK == amp \in Amps

\* While the spotify source is in the pipeline, its element is past READY exactly when
\* the pipeline is, unless the element cannot be played with its track.
SpotFollows ==
    amp.src = Spot => (amp.up <=> amp.state \notin {"null", "ready"} /\ amp.uri \notin Broken)

\* After the queue has run empty, playback resumes directly behind the track of the
\* playlist that the amp left for the queue: a step that leaves a playlist for the queue
\* saves its active row (queueAndPlay does not), nothing else touches what is saved, and
\* the end of a stream that goes back to a playlist plays what is behind.
Leaving == amp.list # Queue /\ amp'.list = Queue
ResumesBehind ==
    [][/\ Leaving /\ ~(\E ks \in Albums : QueueAndPlay(ks)) =>
              amp'.fbList = amp.list /\ (amp.row # NoRow => amp'.fbRow = amp.row)
       /\ ~Leaving => amp'.fbList = amp.fbList /\ amp'.fbRow = amp.fbRow
       /\ EndOfStream /\ amp.list = Queue /\ amp'.list # Queue =>
              /\ amp'.list = amp.fbList
              /\ amp'.state = "playing" => rows'[amp'.row].pos = rows'[amp.fbRow].pos + 1]_ampVars

\* The rows that are next when the stream of the active row ends: the first of the queue
\* but the active row, or the row behind the active row of the playlist, for the queue
\* the one that the amp left for it.
FirstOf(S) == {j \in S : \A i \in S : rows[j].pos <= rows[i].pos}
Behind(p, i) == {j \in InList(rows, p) : rows[j].pos = rows[i].pos + 1}
Upcoming ==
    LET queued == InList(rows, Queue) \ {amp.row}
    IN CASE queued # {} -> FirstOf(queued)
         [] queued = {} /\ amp.list # Queue -> Behind(amp.list, amp.row)
         [] queued = {} /\ amp.list = Queue /\ amp.fbList # NoList -> Behind(amp.fbList, amp.fbRow)
         [] OTHER -> {}

\* The spotify element is stopped, or it is in the pipeline of an active row, where
\* change_track stops it before it is given another uri.
InHand == amp.up => amp.src = Spot /\ amp.row # NoRow

\* The end of a stream starts the track that is next, if there is one that can be played
\* (otherwise the amp neither plays nor looks further).
EndPlaysNext ==
    [][EndOfStream /\ InHand =>
          IF \E j \in Upcoming : rows[j].track \notin Unplayable \cup Broken
          THEN /\ amp'.row \in Upcoming /\ Loaded(amp') = rows[amp'.row].track
               /\ amp'.state = "playing" /\ ~amp'.ended
          ELSE amp'.state # "playing"]_ampVars

\* A step that makes another row active and plays has the source play that row's track,
\* when the spotify element is in hand: fetch_active_track starts the first row over a
\* pipeline that runs without an active row, and the element refuses the uri then.
StartsActive ==
    [][InHand /\ amp'.row # amp.row /\ amp'.state = "playing"
          => Loaded(amp') = rows'[amp'.row].track]_ampVars

\* The end of a stream takes at most one row, from the queue, and no row from an
\* ordinary playlist (amp.py: "Remove track and goto next track").
EndKeepsPlaylists ==
    [][EndOfStream => \A p \in playlists : InList(rows', p) = InList(rows, p)]_ampVars
===============================================================================
