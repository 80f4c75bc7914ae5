------------------------------- MODULE AmpProofs -------------------------------
(***************************************************************************)
(* Theorems about Amp for any tracks, playlists, users and bounds.         *)
(*                                                                         *)
(* Whatever clients, the end of a stream and the loss of the play token    *)
(* do, in any order: the amp's fields keep their types, the spotify        *)
(* element follows the pipeline, and the database keeps what VoteQueue     *)
(* promises of the votes, although the amp removes and moves rows on its   *)
(* own and sometimes through the wrong playlist.  While listeners play and *)
(* queue and nobody edits, what becomes active is what plays, the end of a *)
(* stream starts what is next, and the amp goes back behind the track that *)
(* it left.                                                                *)
(***************************************************************************)
EXTENDS Amp, VoteQueueProofs

-------------------------------------------------------------------------------
(* The pipeline and the active playlist.  Each function of the amp returns a    *)
(* sound amp from a sound one.                                                  *)

\* The fields have their types, the spotify element that is past READY has a track that
\* it can play, and in the pipeline it follows the state.
AmpSound(a) ==
    /\ a \in Amps
    /\ a.up => a.uri \notin Broken
    /\ a.src = Spot => (a.up <=> a.state \notin {"null", "ready"} /\ a.uri \notin Broken)

\* The sources are told apart, and -1 is the id of no playlist.
LEMMA Names ==
    /\ Spot \notin Tracks /\ NoSrc \notin Tracks /\ NoSrc # Spot
    /\ NoList \notin AllLists /\ NoRow \notin Nat
    /\ Spotify \in SUBSET Tracks /\ Queue \in AllLists
<1>1. /\ {NoSrc, Spot} \cap Tracks = {} /\ NoSrc # Spot
      /\ Lists \cup {Queue} \in SUBSET Nat
      /\ Spotify \cup Unplayable \cup Broken \in SUBSET Tracks
  BY AmpAssumption DEF AmpAssumption
<1>2. -1 \notin Nat
  OBVIOUS
<1> QED BY <1>1, <1>2 DEF NoList, NoRow, AllLists

\* Only the active row and the playlists of the amp change.
LEMMA SoundElsewhere ==
    ASSUME NEW a, AmpSound(a), NEW b \in Amps,
           b.src = a.src, b.state = a.state, b.up = a.up, b.uri = a.uri
    PROVE  AmpSound(b)
BY DEF AmpSound

\* Amps with the same active row and the same row to go back to.
SamePlace(b, a) ==
    b.list = a.list /\ b.row = a.row /\ b.fbList = a.fbList /\ b.fbRow = a.fbRow

\* The states that the amp asks for.
Targets == {"null", "paused", "playing"}

\* The outcomes of set_state.
LEMMA SetStateCases ==
    ASSUME NEW a, NEW s
    PROVE  \/ a.src = NoSrc /\ SetState(a, s) = a
           \/ /\ a.src # NoSrc /\ s # "null" /\ Loaded(a) \in Broken
              /\ SetState(a, s) = [a EXCEPT !.state = IF a.state = "null" THEN "ready" ELSE a.state]
           \/ /\ a.src # NoSrc /\ (s = "null" \/ Loaded(a) \notin Broken)
              /\ SetState(a, s) = [a EXCEPT !.state = s,
                                            !.up = IF a.src = Spot THEN s # "null" ELSE a.up,
                                            !.ended = a.ended /\ s # "null"]
BY DEF SetState, Failed

LEMMA SetStateSets ==
    ASSUME NEW a \in Amps, a.up => a.uri \notin Broken, NEW s \in Targets
    PROVE  AmpSound(SetState(a, s)) \/ a.src = NoSrc
<1>1. CASE a.src # NoSrc /\ s # "null" /\ Loaded(a) \in Broken
  <2> DEFINE w == IF a.state = "null" THEN "ready" ELSE a.state
             b == [a EXCEPT !.state = w]
  <2>1. SetState(a, s) = b
    BY <1>1, SetStateCases
  <2>2. w \in States
    BY DEF Amps, States
  <2> HIDE DEF w
  <2>3. b \in Amps /\ b.src = a.src /\ b.up = a.up /\ b.uri = a.uri
    BY <2>2 DEF Amps
  <2> HIDE DEF b
  <2>4. a.src = Spot => a.uri \in Broken
    BY <1>1 DEF Loaded
  <2> QED BY <2>1, <2>3, <2>4 DEF AmpSound
<1>2. CASE a.src # NoSrc /\ (s = "null" \/ Loaded(a) \notin Broken)
  <2> DEFINE u == IF a.src = Spot THEN s # "null" ELSE a.up
             e == a.ended /\ s # "null"
             b == [a EXCEPT !.state = s, !.up = u, !.ended = e]
  <2>1. SetState(a, s) = b
    BY <1>2, SetStateCases
  <2>2. a.up \in BOOLEAN /\ s \in States
    BY DEF Amps, States, Targets
  <2>3. u \in BOOLEAN /\ e \in BOOLEAN /\ (a.src = Spot => (u <=> s # "null"))
        /\ (a.src # Spot => u = a.up)
    BY <2>2
  <2>4. a.src = Spot /\ s # "null" => a.uri \notin Broken
    BY <1>2 DEF Loaded
  <2> HIDE DEF u, e
  <2>5. b \in Amps /\ b.src = a.src /\ b.state = s /\ b.up = u /\ b.uri = a.uri
    BY <2>2, <2>3 DEF Amps
  <2> HIDE DEF b
  <2> QED BY <2>1, <2>3, <2>4, <2>5 DEF AmpSound, Targets
<1> QED BY <1>1, <1>2

LEMMA SetStateSound ==
    ASSUME NEW a, AmpSound(a), NEW s \in Targets
    PROVE  AmpSound(SetState(a, s))
<1>1. CASE a.src = NoSrc
  BY <1>1, SetStateCases
<1>2. CASE a.src # NoSrc
  BY <1>2, SetStateSets DEF AmpSound
<1> QED BY <1>1, <1>2

\* The amp that start_track takes to state "playing" when there is an element for track k.
Told(a, k) ==
    IF k \in Spotify
    THEN [a EXCEPT !.src = Spot, !.uri = IF a.up THEN a.uri ELSE k,
                   !.refused = a.up, !.ended = a.ended /\ a.up]
    ELSE [a EXCEPT !.src = k, !.refused = FALSE, !.ended = FALSE]

LEMMA StartTrackCases ==
    ASSUME NEW a, NEW k \in Tracks
    PROVE  \/ k \notin Unplayable /\ StartTrack(a, k) = SetState(Told(a, k), "playing")
           \/ k \in Unplayable /\ k \notin Spotify /\ StartTrack(a, k) = [a EXCEPT !.src = NoSrc]
<1>1. k \in Spotify => k \notin Unplayable
  BY AmpAssumption DEF AmpAssumption
<1>2. CASE k \in Spotify
  BY <1>1, <1>2 DEF StartTrack, Told
<1>3. CASE k \notin Spotify /\ k \in Unplayable
  BY <1>3 DEF StartTrack
<1>4. CASE k \notin Spotify /\ k \notin Unplayable
  BY <1>4 DEF StartTrack, Told
<1> QED BY <1>2, <1>3, <1>4

LEMMA ToldType ==
    ASSUME NEW a \in Amps, NEW k \in Tracks
    PROVE  /\ Told(a, k) \in Amps /\ SamePlace(Told(a, k), a)
           /\ Told(a, k).src = IF k \in Spotify THEN Spot ELSE k
           /\ Told(a, k).src # NoSrc
           /\ Told(a, k).up = a.up /\ Told(a, k).state = a.state
           /\ Told(a, k).uri = IF k \in Spotify /\ ~a.up THEN k ELSE a.uri
           /\ Told(a, k).push = a.push
           /\ Told(a, k).ended => a.ended /\ a.up /\ k \in Spotify
<1>1. CASE k \in Spotify
  <2> DEFINE r == IF a.up THEN a.uri ELSE k
             e == a.ended /\ a.up
             b == [a EXCEPT !.src = Spot, !.uri = r, !.refused = a.up, !.ended = e]
  <2>1. Told(a, k) = b
    BY <1>1 DEF Told
  <2>2. a.up \in BOOLEAN /\ r \in Tracks \cup {NoSrc} /\ e \in BOOLEAN
    BY DEF Amps
  <2>3. r = IF k \in Spotify /\ ~a.up THEN k ELSE a.uri
    BY <1>1
  <2>4. e => a.ended /\ a.up
    OBVIOUS
  <2> HIDE DEF r, e
  <2>5. /\ b \in Amps /\ SamePlace(b, a) /\ b.src = Spot /\ b.up = a.up /\ b.state = a.state
        /\ b.uri = r /\ b.ended = e /\ b.push = a.push
    BY <2>2 DEF Amps, SamePlace
  <2> HIDE DEF b
  <2> QED BY <1>1, <2>1, <2>3, <2>4, <2>5, Names
<1>2. CASE k \notin Spotify
  <2> DEFINE b == [a EXCEPT !.src = k, !.refused = FALSE, !.ended = FALSE]
  <2>1. Told(a, k) = b
    BY <1>2 DEF Told
  <2>2. /\ b \in Amps /\ SamePlace(b, a) /\ b.src = k /\ b.up = a.up /\ b.state = a.state
        /\ b.uri = a.uri /\ b.ended = FALSE /\ b.push = a.push
    BY DEF Amps, SamePlace
  <2> HIDE DEF b
  <2> QED BY <1>2, <2>1, <2>2, Names
<1> QED BY <1>1, <1>2

\* set_state and start_track keep the types, whatever the amp.
LEMMA SetStateType ==
    ASSUME NEW a \in Amps, NEW s \in Targets
    PROVE  SetState(a, s) \in Amps
<1>1. CASE SetState(a, s) = a
  BY <1>1
<1>2. CASE SetState(a, s) = [a EXCEPT !.state = IF a.state = "null" THEN "ready" ELSE a.state]
  BY <1>2 DEF Amps, States
<1>3. CASE SetState(a, s) = [a EXCEPT !.state = s,
                                      !.up = IF a.src = Spot THEN s # "null" ELSE a.up,
                                      !.ended = a.ended /\ s # "null"]
  <2> DEFINE u == IF a.src = Spot THEN s # "null" ELSE a.up
             e == a.ended /\ s # "null"
  <2>1. u \in BOOLEAN /\ e \in BOOLEAN /\ s \in States
    BY DEF Amps, States, Targets
  <2>2. SetState(a, s) = [a EXCEPT !.state = s, !.up = u, !.ended = e]
    BY <1>3
  <2> HIDE DEF u, e
  <2> QED BY <2>1, <2>2 DEF Amps
<1> QED BY <1>1, <1>2, <1>3, SetStateCases

LEMMA StartTrackType ==
    ASSUME NEW a \in Amps, NEW k \in Tracks
    PROVE  StartTrack(a, k) \in Amps
<1>1. CASE StartTrack(a, k) = SetState(Told(a, k), "playing")
  BY <1>1, ToldType, SetStateType DEF Targets
<1>2. CASE StartTrack(a, k) = [a EXCEPT !.src = NoSrc]
  BY <1>2 DEF Amps
<1> QED BY <1>1, <1>2, StartTrackCases

LEMMA StartTrackSound ==
    ASSUME NEW a, AmpSound(a), NEW k \in Tracks
    PROVE  AmpSound(StartTrack(a, k))
<1>1. a \in Amps /\ (a.up => a.uri \notin Broken)
  BY DEF AmpSound
<1>2. CASE StartTrack(a, k) = SetState(Told(a, k), "playing")
  <2> DEFINE b == Told(a, k)
  <2>1. b \in Amps /\ b.src # NoSrc /\ b.up = a.up
        /\ b.uri = IF k \in Spotify /\ ~a.up THEN k ELSE a.uri
    BY <1>1, ToldType
  <2> HIDE DEF b
  <2>2. b.up => b.uri \notin Broken
    BY <1>1, <2>1
  <2>3. AmpSound(SetState(b, "playing"))
    BY <2>1, <2>2, SetStateSets DEF Targets
  <2> QED BY <1>2, <2>3 DEF b
<1>3. CASE StartTrack(a, k) = [a EXCEPT !.src = NoSrc]
  BY <1>1, <1>3, Names DEF AmpSound, Amps
<1> QED BY <1>2, <1>3, StartTrackCases

\* The pipeline's functions do not change the place.
LEMMA SetStatePlace ==
    ASSUME NEW a \in Amps, NEW s
    PROVE  SamePlace(SetState(a, s), a)
<1>1. CASE SetState(a, s) = a
  BY <1>1 DEF SamePlace
<1>2. CASE SetState(a, s) = [a EXCEPT !.state = IF a.state = "null" THEN "ready" ELSE a.state]
  BY <1>2 DEF SamePlace, Amps
<1>3. CASE SetState(a, s) = [a EXCEPT !.state = s,
                                      !.up = IF a.src = Spot THEN s # "null" ELSE a.up,
                                      !.ended = a.ended /\ s # "null"]
  BY <1>3 DEF SamePlace, Amps
<1> QED BY <1>1, <1>2, <1>3, SetStateCases

LEMMA StartTrackPlace ==
    ASSUME NEW a \in Amps, NEW k \in Tracks
    PROVE  SamePlace(StartTrack(a, k), a)
<1>1. CASE StartTrack(a, k) = SetState(Told(a, k), "playing")
  <2> DEFINE b == Told(a, k)
  <2>1. b \in Amps /\ SamePlace(b, a)
    BY ToldType
  <2> HIDE DEF b
  <2>2. SamePlace(SetState(b, "playing"), b)
    BY <2>1, SetStatePlace
  <2>3. StartTrack(a, k) = SetState(b, "playing")
    BY <1>1 DEF b
  <2> QED BY <2>1, <2>2, <2>3 DEF SamePlace
<1>2. CASE StartTrack(a, k) = [a EXCEPT !.src = NoSrc]
  BY <1>2 DEF SamePlace, Amps
<1> QED BY <1>1, <1>2, StartTrackCases

LEMMA FlagsPlace ==
    ASSUME NEW a \in Amps, NEW b \in BOOLEAN
    PROVE  SamePlace([a EXCEPT !.push = b], a) /\ SamePlace([a EXCEPT !.ended = b], a)
BY DEF SamePlace, Amps

\* Another active playlist, another active row, another playlist to go back to.
LEMMA PlaceSound ==
    ASSUME NEW a, AmpSound(a), NEW p \in AllLists, NEW i \in Nat \cup {NoRow}
    PROVE  /\ AmpSound([a EXCEPT !.list = p])
           /\ AmpSound([a EXCEPT !.row = i])
           /\ AmpSound([a EXCEPT !.list = p, !.row = i])
<1>1. a \in Amps /\ p \in {Queue} \cup Lists
  BY DEF AmpSound, AllLists
<1>2. [a EXCEPT !.list = p] \in Amps /\ [a EXCEPT !.row = i] \in Amps
      /\ [a EXCEPT !.list = p, !.row = i] \in Amps
  BY <1>1 DEF Amps
<1>3. \A b \in {[a EXCEPT !.list = p], [a EXCEPT !.row = i], [a EXCEPT !.list = p, !.row = i]} :
        b.src = a.src /\ b.state = a.state /\ b.up = a.up /\ b.uri = a.uri
  BY <1>1 DEF Amps
<1> QED BY <1>2, <1>3, SoundElsewhere

LEMMA FallBackPlaceSound ==
    ASSUME NEW a, AmpSound(a), a.list \in Lists
    PROVE  /\ AmpSound([a EXCEPT !.fbList = a.list, !.fbRow = a.row])
           /\ AmpSound([a EXCEPT !.list = Queue, !.fbList = a.list, !.fbRow = a.row])
<1> DEFINE b == [a EXCEPT !.fbList = a.list, !.fbRow = a.row]
           c == [a EXCEPT !.list = Queue, !.fbList = a.list, !.fbRow = a.row]
<1>1. a \in Amps /\ a.row \in Nat \cup {NoRow}
  BY DEF AmpSound, Amps
<1>2. b \in Amps /\ b.src = a.src /\ b.state = a.state /\ b.up = a.up
      /\ b.uri = a.uri
  BY <1>1 DEF Amps
<1>3. c \in Amps /\ c.src = a.src /\ c.state = a.state /\ c.up = a.up
      /\ c.uri = a.uri
  BY <1>1 DEF Amps
<1> HIDE DEF b, c
<1>4. AmpSound(b) /\ AmpSound(c)
  BY <1>2, <1>3, SoundElsewhere
<1> QED BY <1>4 DEF b, c

LEMMA FlagsSound ==
    ASSUME NEW a, AmpSound(a), NEW b \in BOOLEAN
    PROVE  AmpSound([a EXCEPT !.push = b]) /\ AmpSound([a EXCEPT !.ended = b])
BY DEF AmpSound, Amps

LEMMA FetchPlaylistSound ==
    ASSUME NEW a, AmpSound(a), NEW P
    PROVE  AmpSound(FetchPlaylist(a, P))
BY PlaceSound DEF FetchPlaylist, AllLists

\* The rows that get_track_nbr finds.
LEMMA NbrRow ==
    ASSUME NEW t, Typed(t), NEW p, NEW n, NEW i \in TrackNbr(t, p, n)
    PROVE  /\ i \in InList(t, p) /\ i \in DOMAIN t /\ t[i].pl = p
           /\ i \in Nat /\ i # NoRow /\ t[i].track \in Tracks
<1>1. i \in InList(t, p) /\ i \in DOMAIN t /\ t[i].pl = p
  BY DEF TrackNbr, InList
<1> QED BY <1>1, RowTyped, Names

\* The amp after fetch_active_track: as it was, or without a row that is gone, or with
\* the first row of the active playlist started and paused.
LEMMA FetchTrackCases ==
    ASSUME NEW t, Typed(t), NEW a
    PROVE  \/ /\ InList(t, a.list) = {} \/ a.row \in DOMAIN t
              /\ FetchTrack(a, t) = a
           \/ /\ InList(t, a.list) # {} /\ a.row \notin DOMAIN t /\ a.row # NoRow
              /\ FetchTrack(a, t) = [a EXCEPT !.row = NoRow]
           \/ /\ InList(t, a.list) # {} /\ a.row \notin DOMAIN t /\ a.row = NoRow
              /\ \E i \in TrackNbr(t, a.list, 0) :
                    FetchTrack(a, t) =
                      LET started == StartTrack([a EXCEPT !.row = i], t[i].track)
                      IN IF t[i].track \in Unplayable THEN [started EXCEPT !.row = NoRow]
                         ELSE SetState(started, "paused")
<1>1. Length(t, a.list) = 0 <=> InList(t, a.list) = {}
  BY LengthType DEF Typed
<1>2. CASE InList(t, a.list) = {} \/ a.row \in DOMAIN t
  BY <1>1, <1>2 DEF FetchTrack
<1>3. CASE ~(InList(t, a.list) = {} \/ a.row \in DOMAIN t) /\ a.row # NoRow
  BY <1>1, <1>3 DEF FetchTrack
<1>4. CASE ~(InList(t, a.list) = {} \/ a.row \in DOMAIN t) /\ a.row = NoRow
  <2> DEFINE i == CHOOSE i \in TrackNbr(t, a.list, 0) : TRUE
  <2>1. TrackNbr(t, a.list, 0) # {}
    BY <1>4, FirstExists DEF Typed
  <2>2. i \in TrackNbr(t, a.list, 0)
    BY <2>1
  <2>3. FetchTrack(a, t) =
          LET started == StartTrack([a EXCEPT !.row = i], t[i].track)
          IN IF t[i].track \in Unplayable THEN [started EXCEPT !.row = NoRow]
             ELSE SetState(started, "paused")
    BY <1>1, <1>4 DEF FetchTrack
  <2> HIDE DEF i
  <2> QED BY <1>4, <2>2, <2>3
<1> QED BY <1>2, <1>3, <1>4

LEMMA FetchTrackSound ==
    ASSUME NEW t, Typed(t), NEW a, AmpSound(a)
    PROVE  AmpSound(FetchTrack(a, t))
<1>1. CASE FetchTrack(a, t) = a
  BY <1>1
<1>2. CASE FetchTrack(a, t) = [a EXCEPT !.row = NoRow]
  BY <1>2, SoundElsewhere DEF AmpSound, Amps
<1>3. ASSUME NEW i \in TrackNbr(t, a.list, 0),
             FetchTrack(a, t) =
               LET started == StartTrack([a EXCEPT !.row = i], t[i].track)
               IN IF t[i].track \in Unplayable THEN [started EXCEPT !.row = NoRow]
                  ELSE SetState(started, "paused")
      PROVE  AmpSound(FetchTrack(a, t))
  <2> DEFINE b == [a EXCEPT !.row = i]
             started == StartTrack(b, t[i].track)
  <2>1. i \in Nat /\ t[i].track \in Tracks
    BY NbrRow
  <2>2. AmpSound(b)
    BY <2>1, SoundElsewhere DEF AmpSound, Amps
  <2> HIDE DEF b
  <2>3. AmpSound(started)
    BY <2>1, <2>2, StartTrackSound
  <2> HIDE DEF started
  <2>4. FetchTrack(a, t) = IF t[i].track \in Unplayable THEN [started EXCEPT !.row = NoRow]
                           ELSE SetState(started, "paused")
    BY <1>3 DEF started, b
  <2>5. AmpSound([started EXCEPT !.row = NoRow])
    BY <2>3, SoundElsewhere DEF AmpSound, Amps
  <2>6. AmpSound(SetState(started, "paused"))
    BY <2>3, SetStateSound DEF Targets
  <2> QED BY <2>4, <2>5, <2>6
<1> QED BY <1>1, <1>2, <1>3, FetchTrackCases

LEMMA StatusSound ==
    ASSUME NEW t, Typed(t), NEW a, AmpSound(a), NEW P
    PROVE  AmpSound(Status(a, t, P))
BY FetchPlaylistSound, FetchTrackSound DEF Status

LEMMA PushedSound ==
    ASSUME NEW t, Typed(t), NEW a, AmpSound(a), NEW P
    PROVE  AmpSound(Pushed(a, t, P))
BY StatusSound, FlagsSound DEF Pushed

\* When fetch_active_track returned a track, its row is in the table.
LEMMA FoundRow ==
    ASSUME NEW t, Typed(t), NEW b, b \in Amps, NEW P,
           Found(Status(b, t, P), t)
    PROVE  Status(b, t, P).row \in DOMAIN t
<1> DEFINE c == FetchPlaylist(b, P)
           a == FetchTrack(c, t)
<1>1. c \in Amps
  BY DEF FetchPlaylist, Amps
<1> HIDE DEF c
<1>2. Length(t, a.list) > 0 /\ a.row # NoRow
  BY DEF Found, Status, c
<1>3. CASE (InList(t, c.list) = {} \/ c.row \in DOMAIN t) /\ a = c
  <2>1. InList(t, c.list) # {}
    BY <1>2, <1>3, LengthType DEF Typed
  <2> QED BY <1>3, <2>1 DEF Status, c
<1>4. CASE a = [c EXCEPT !.row = NoRow]
  BY <1>1, <1>2, <1>4 DEF Amps
<1>5. ASSUME NEW i \in TrackNbr(t, c.list, 0),
             a = LET started == StartTrack([c EXCEPT !.row = i], t[i].track)
                 IN IF t[i].track \in Unplayable THEN [started EXCEPT !.row = NoRow]
                    ELSE SetState(started, "paused")
      PROVE  a.row \in DOMAIN t
  <2> DEFINE d == [c EXCEPT !.row = i]
             started == StartTrack(d, t[i].track)
  <2>1. i \in DOMAIN t /\ i \in Nat /\ t[i].track \in Tracks
    BY NbrRow
  <2>2. d \in Amps /\ d.row = i
    BY <1>1, <2>1 DEF Amps
  <2> HIDE DEF d
  <2>3. started.row = i /\ started \in Amps
    BY <2>1, <2>2, StartTrackPlace, StartTrackType DEF SamePlace
  <2>4. a = IF t[i].track \in Unplayable THEN [started EXCEPT !.row = NoRow]
            ELSE SetState(started, "paused")
    BY <1>5 DEF d
  <2> HIDE DEF started
  <2>5. CASE t[i].track \in Unplayable
    BY <1>2, <2>3, <2>4, <2>5 DEF Amps
  <2>6. CASE t[i].track \notin Unplayable
    BY <2>1, <2>3, <2>4, <2>6, SetStatePlace DEF SamePlace
  <2> QED BY <2>5, <2>6
<1> QED BY <1>3, <1>4, <1>5, FetchTrackCases DEF Status, c

-------------------------------------------------------------------------------
(* Changing the track.                                                          *)

\* The result of a call.
IsCall(r) == r = [amp |-> r.amp, rows |-> r.rows, gone |-> r.gone, ok |-> r.ok]

\* What nextTrack, previousTrack and the end of a stream do to table t: nothing, or
\* they remove the active row through the queue, which has rows, and the votes on its
\* track are given back.
Removing(r, t) ==
    /\ IsCall(r)
    /\ AmpSound(r.amp)
    /\ \/ r.rows = t /\ r.gone = {}
       \/ /\ InList(t, Queue) # {}
          /\ \E i \in DOMAIN t : r.rows = RemoveRow(t, Queue, i) /\ r.gone = {t[i].track}

\* What playTrack does: nothing, or it moves a row of the queue to the top.
Moving(r, t) ==
    /\ IsCall(r)
    /\ AmpSound(r.amp)
    /\ r.gone = {}
    /\ \/ r.rows = t
       \/ \E i \in InList(t, Queue) : CanMove(t, Queue, i, 1) /\ r.rows = MoveTrack(t, Queue, i, 1)

LEMMA DoneFields ==
    ASSUME NEW a, NEW t, NEW K
    PROVE  /\ Done(a, t, K).amp = a /\ Done(a, t, K).rows = t /\ Done(a, t, K).gone = K
           /\ Raised(a, t, K).amp = a /\ Raised(a, t, K).rows = t /\ Raised(a, t, K).gone = K
           /\ IsCall(Done(a, t, K)) /\ IsCall(Raised(a, t, K))
BY DEF Done, Raised, IsCall

LEMMA PlayNbrSound ==
    ASSUME NEW t, Typed(t), NEW a, AmpSound(a), NEW p, NEW n, NEW K
    PROVE  /\ AmpSound(PlayNbr(a, t, p, n, K).amp)
           /\ PlayNbr(a, t, p, n, K).rows = t /\ PlayNbr(a, t, p, n, K).gone = K
           /\ IsCall(PlayNbr(a, t, p, n, K))
<1> DEFINE found == TrackNbr(t, p, IF n < 0 THEN 0 ELSE n)
           stopped == [SetState(a, "null") EXCEPT !.row = NoRow]
<1>1. CASE found = {}
  <2>1. AmpSound(stopped)
    BY SetStateSound, PlaceSound, Names DEF Targets
  <2>2. PlayNbr(a, t, p, n, K) = Done(stopped, t, K)
    BY <1>1 DEF PlayNbr
  <2> HIDE DEF stopped
  <2> QED BY <2>1, <2>2, DoneFields
<1>2. CASE found # {}
  <2> DEFINE i == CHOOSE i \in found : TRUE
             b == SetState([a EXCEPT !.row = i], "null")
  <2>1. i \in found
    BY <1>2
  <2>2. PlayNbr(a, t, p, n, K) = Done(StartTrack(b, t[i].track), t, K)
    BY <1>2 DEF PlayNbr
  <2> HIDE DEF i
  <2>3. i \in Nat /\ t[i].track \in Tracks
    BY <2>1, NbrRow
  <2>4. AmpSound(b)
    BY <2>3, PlaceSound, SetStateSound, Names DEF Targets
  <2> HIDE DEF b
  <2>5. AmpSound(StartTrack(b, t[i].track))
    BY <2>3, <2>4, StartTrackSound
  <2> QED BY <2>2, <2>5, DoneFields
<1> QED BY <1>1, <1>2

LEMMA FallBackSound ==
    ASSUME NEW t, Typed(t), NEW a, AmpSound(a), NEW K
    PROVE  /\ AmpSound(FallBack(a, t, K).amp)
           /\ FallBack(a, t, K).rows = t /\ FallBack(a, t, K).gone = K
           /\ IsCall(FallBack(a, t, K))
<1> DEFINE b == [a EXCEPT !.list = a.fbList, !.row = a.fbRow]
<1>1. CASE a.fbList = NoList
  <2>1. FallBack(a, t, K) = Done(SetState(a, "null"), t, K)
    BY <1>1 DEF FallBack
  <2>2. AmpSound(SetState(a, "null"))
    BY SetStateSound DEF Targets
  <2> QED BY <2>1, <2>2, DoneFields
<1>2. CASE a.fbList # NoList
  <2>1. a.fbList \in AllLists /\ a.fbRow \in Nat \cup {NoRow}
    BY <1>2 DEF AmpSound, Amps, AllLists
  <2>2. AmpSound(b)
    BY <2>1, PlaceSound
  <2>3. \/ FallBack(a, t, K) = Raised(b, t, K)
        \/ FallBack(a, t, K) = Done(SetState(b, "null"), t, K)
        \/ FallBack(a, t, K) = PlayNbr(b, t, b.list, t[b.row].pos, K)
    BY <1>2 DEF FallBack
  <2> HIDE DEF b
  <2>4. AmpSound(SetState(b, "null"))
    BY <2>2, SetStateSound DEF Targets
  <2> QED BY <2>2, <2>3, <2>4, PlayNbrSound, DoneFields
<1> QED BY <1>1, <1>2

LEMMA NextInQueueSound ==
    ASSUME NEW t, Typed(t), NEW a, AmpSound(a), a.row \in DOMAIN t, InList(t, Queue) # {}
    PROVE  Removing(NextInQueue(a, t), t)
<1> DEFINE rest == RemoveRow(t, Queue, a.row)
           K == {t[a.row].track}
<1> SUFFICES ASSUME NEW r, r = NextInQueue(a, t) PROVE Removing(r, t)
  OBVIOUS
<1>1. Typed(rest)
  BY RemoveRowKeeps, Names
<1>2. r = FallBack(a, rest, K) \/ r = PlayNbr(a, rest, Queue, 0, K)
  BY DEF NextInQueue
<1>3. AmpSound(r.amp) /\ r.rows = rest /\ r.gone = K /\ IsCall(r)
  <2> HIDE DEF rest, K
  <2> QED BY <1>1, <1>2, FallBackSound, PlayNbrSound
<1> QED BY <1>3 DEF Removing

LEMMA EnterQueueSound ==
    ASSUME NEW t, Typed(t), NEW a, AmpSound(a), a.list # Queue
    PROVE  Removing(EnterQueue(a, t), t)
<1> DEFINE b == [a EXCEPT !.list = Queue, !.fbList = a.list, !.fbRow = a.row]
<1>1. AmpSound(b)
  BY FallBackPlaceSound DEF AmpSound, Amps
<1>2. EnterQueue(a, t) = PlayNbr(b, t, Queue, 0, {})
  BY DEF EnterQueue
<1> HIDE DEF b
<1> QED BY <1>1, <1>2, PlayNbrSound DEF Removing

LEMMA ChangeRelativeSound ==
    ASSUME NEW t, Typed(t), NEW a0, AmpSound(a0), NEW n \in {1, -1}
    PROVE  Removing(ChangeRelative(a0, t, n), t)
<1> DEFINE a == Status(a0, t, playlists)
<1> SUFFICES ASSUME NEW r, r = ChangeRelative(a0, t, n) PROVE Removing(r, t)
  OBVIOUS
<1>1. AmpSound(a)
  BY StatusSound
<1>2. Found(a, t) => a.row \in DOMAIN t /\ InList(t, a.list) # {}
  BY FoundRow, LengthType DEF AmpSound, Typed, Found
<1>3. \/ ~Found(a, t) /\ r = Done(a, t, {})
      \/ Found(a, t) /\ a.list = Queue /\ r = NextInQueue(a, t)
      \/ r = Done(a, t, {})
      \/ a.list # Queue /\ r = EnterQueue(a, t)
      \/ r = PlayNbr(a, t, a.list, t[a.row].pos - 1 + n, {})
  <2> HIDE DEF a
  <2>1. ChangeRelative(a0, t, n) =
          CASE ~Found(a, t) -> Done(a, t, {})
            [] Found(a, t) /\ a.list = Queue /\ n = 1 -> NextInQueue(a, t)
            [] Found(a, t) /\ a.list = Queue /\ n = -1 -> Done(a, t, {})
            [] Found(a, t) /\ a.list # Queue /\ Length(t, Queue) > 0 -> EnterQueue(a, t)
            [] OTHER -> PlayNbr(a, t, a.list, t[a.row].pos - 1 + n, {})
    BY DEF ChangeRelative, a
  <2> QED BY <2>1
<1> HIDE DEF a
<1>4. CASE r = Done(a, t, {})
  BY <1>1, <1>4, DoneFields DEF Removing
<1>5. CASE Found(a, t) /\ a.list = Queue /\ r = NextInQueue(a, t)
  BY <1>1, <1>2, <1>5, NextInQueueSound
<1>6. CASE a.list # Queue /\ r = EnterQueue(a, t)
  BY <1>1, <1>6, EnterQueueSound
<1>7. CASE r = PlayNbr(a, t, a.list, t[a.row].pos - 1 + n, {})
  BY <1>1, <1>7, PlayNbrSound DEF Removing
<1> QED BY <1>3, <1>4, <1>5, <1>6, <1>7

LEMMA ChangeAbsoluteSound ==
    ASSUME NEW t, Typed(t), NEW a0, AmpSound(a0), NEW i \in Nat
    PROVE  Moving(ChangeAbsolute(a0, t, i), t)
<1> DEFINE a == Status(a0, t, playlists)
           b == [a EXCEPT !.row = i]
<1> SUFFICES ASSUME NEW r, r = ChangeAbsolute(a0, t, i) PROVE Moving(r, t)
  OBVIOUS
<1>1. AmpSound(a)
  BY StatusSound
<1>2. AmpSound(b)
  BY <1>1, PlaceSound, Names
<1>3. \/ r = Raised(b, t, {})
      \/ CanMove(t, Queue, i, 1) /\ r = PlayNbr(b, MoveTrack(t, Queue, i, 1), Queue, 0, {})
      \/ r = PlayNbr(a, t, a.list, t[i].pos - 1, {})
      \/ r = Done(a, t, {})
  <2> HIDE DEF a
  <2>1. ChangeAbsolute(a0, t, i) =
          CASE a.list = Queue /\ ~CanMove(t, Queue, i, 1) -> Raised(b, t, {})
            [] a.list = Queue /\ CanMove(t, Queue, i, 1) ->
                   PlayNbr(b, MoveTrack(t, Queue, i, 1), Queue, 0, {})
            [] a.list # Queue /\ i \in DOMAIN t -> PlayNbr(a, t, a.list, t[i].pos - 1, {})
            [] OTHER -> Done(a, t, {})
    BY DEF ChangeAbsolute, a
  <2> HIDE DEF b
  <2> QED BY <2>1
<1> HIDE DEF a, b
<1>4. CASE r = Raised(b, t, {}) \/ r = Done(a, t, {})
  BY <1>1, <1>2, <1>4, DoneFields DEF Moving
<1>5. CASE CanMove(t, Queue, i, 1) /\ r = PlayNbr(b, MoveTrack(t, Queue, i, 1), Queue, 0, {})
  <2>1. i \in InList(t, Queue)
    BY <1>5 DEF CanMove
  <2>2. Typed(MoveTrack(t, Queue, i, 1))
    BY <2>1, MoveKeeps, Names
  <2> QED BY <1>2, <1>5, <2>1, <2>2, PlayNbrSound DEF Moving
<1>6. CASE r = PlayNbr(a, t, a.list, t[i].pos - 1, {})
  BY <1>1, <1>6, PlayNbrSound DEF Moving
<1> QED BY <1>3, <1>4, <1>5, <1>6

LEMMA PlayTrackSound ==
    ASSUME NEW t, Typed(t), NEW a, AmpSound(a), NEW p \in {NoList} \cup AllLists, NEW i \in Nat
    PROVE  Moving(PlayTrack(a, t, p, i), t)
<1> DEFINE b == IF p = NoList /\ a.list # Queue
                THEN [a EXCEPT !.fbList = a.list, !.fbRow = a.row] ELSE a
           q == IF p = NoList THEN Queue ELSE p
           c == [b EXCEPT !.list = q]
<1>1. AmpSound(b)
  <2>1. a.list \in {Queue} \cup Lists
    BY DEF AmpSound, Amps
  <2>2. CASE p = NoList /\ a.list # Queue
    BY <2>1, <2>2, FallBackPlaceSound
  <2>3. CASE ~(p = NoList /\ a.list # Queue)
    BY <2>3
  <2> QED BY <2>2, <2>3
<1>2. q \in AllLists
  BY Names
<1>3. PlayTrack(a, t, p, i) = ChangeAbsolute(c, t, i)
  BY DEF PlayTrack
<1> HIDE DEF b, q
<1>4. AmpSound(c)
  BY <1>1, <1>2, PlaceSound, Names
<1> HIDE DEF c
<1> QED BY <1>3, <1>4, ChangeAbsoluteSound

\* A result that a command may store: the rows that stay keep their tracks, and votes are
\* given back on what leaves the queue and on nothing that stays.
Rightful(r) ==
    /\ IsCall(r)
    /\ AmpSound(r.amp)
    /\ Typed(r.rows)
    /\ r.gone \in SUBSET Tracks
    /\ Lasting(r.rows, rows) /\ Clearing(r.rows, rows, r.gone)

LEMMA RemovingRightful ==
    ASSUME Typed(rows), NEW r, Removing(r, rows)
    PROVE  Rightful(r)
<1>1. CASE r.rows = rows /\ r.gone = {}
  BY <1>1 DEF Removing, Rightful, Lasting, Clearing, InList
<1>2. ASSUME NEW i \in DOMAIN rows,
             r.rows = RemoveRow(rows, Queue, i), r.gone = {rows[i].track}
      PROVE  Rightful(r)
  <2>1. Typed(r.rows) /\ WithoutRow(r.rows, rows, Queue, i)
    BY <1>2, RemoveRowKeeps, Names
  <2>2. Lasting(r.rows, rows) /\ Clearing(r.rows, rows, r.gone)
    BY <1>2, <2>1, WithoutRowStay
  <2>3. rows[i].track \in Tracks
    BY RowTyped
  <2> QED BY <1>2, <2>1, <2>2, <2>3 DEF Removing, Rightful
<1> QED BY <1>1, <1>2 DEF Removing

LEMMA MovingTable ==
    ASSUME NEW t, Typed(t), NEW r, Moving(r, t)
    PROVE  Typed(r.rows) /\ SameRows(r.rows, t)
<1>1. CASE r.rows = t
  BY <1>1 DEF SameRows
<1>2. ASSUME NEW i \in InList(t, Queue), r.rows = MoveTrack(t, Queue, i, 1)
      PROVE  Typed(r.rows) /\ SameRows(r.rows, t)
  BY <1>2, MoveKeeps, Names
<1> QED BY <1>1, <1>2 DEF Moving

LEMMA MovingRightful ==
    ASSUME Typed(rows), NEW r, Moving(r, rows)
    PROVE  Rightful(r)
<1>1. Typed(r.rows) /\ SameRows(r.rows, rows)
  BY MovingTable
<1>2. Lasting(r.rows, rows) /\ Clearing(r.rows, rows, {})
  BY <1>1 DEF SameRows, Lasting, Clearing, InList
<1> QED BY <1>1, <1>2 DEF Moving, Rightful

\* The result of a call with another amp.
LEMMA OtherAmp ==
    ASSUME NEW r, Rightful(r), NEW a, AmpSound(a)
    PROVE  /\ Rightful([r EXCEPT !.amp = a])
           /\ [r EXCEPT !.amp = a].rows = r.rows /\ [r EXCEPT !.amp = a].gone = r.gone
           /\ [r EXCEPT !.amp = a].amp = a
<1> DEFINE s == [r EXCEPT !.amp = a]
<1>1. IsCall(s) /\ s.amp = a /\ s.rows = r.rows /\ s.gone = r.gone
  BY DEF Rightful, IsCall
<1> HIDE DEF s
<1>2. Rightful(s)
  BY <1>1 DEF Rightful
<1> QED BY <1>1, <1>2 DEF s

\* The answer of a command may start and pause a track.
LEMMA AnsweredRightful ==
    ASSUME NEW r, Rightful(r)
    PROVE  Rightful(Answered(r)) /\ Answered(r).rows = r.rows /\ Answered(r).gone = r.gone
<1> DEFINE a == FetchTrack(r.amp, r.rows)
           s == [r EXCEPT !.amp = a]
<1>1. AmpSound(a)
  BY FetchTrackSound DEF Rightful
<1>2. Answered(r) = r \/ Answered(r) = s
  BY DEF Answered
<1> HIDE DEF a
<1>3. Rightful(s) /\ s.rows = r.rows /\ s.gone = r.gone
  BY <1>1, OtherAmp
<1> HIDE DEF s
<1> QED BY <1>2, <1>3

-------------------------------------------------------------------------------
(* The commands. *)

\* What every command and every event does: the votes keep their invariant and are a
\* step of VotingBooth, and the amp stays sound.
AmpKept == Sound /\ AmpSound(amp')

LEMMA CommandStep ==
    ASSUME Safe, NEW r, Rightful(r), Command(r)
    PROVE  AmpKept
<1>1. amp' = Pushed(r.amp, r.rows, playlists) /\ rows' = r.rows /\ GiveBack(r.gone)
      /\ UNCHANGED playlists
  BY DEF Command
<1>2. AmpSound(amp')
  BY <1>1, PushedSound DEF Rightful
<1>3. Sound
  BY <1>1, GiveBackStep DEF Rightful
<1> QED BY <1>2, <1>3 DEF AmpKept

\* The amp alone changes.
LEMMA DoneRightful ==
    ASSUME Safe, NEW a, AmpSound(a)
    PROVE  Rightful(Done(a, rows, {}))
BY DoneFields DEF Safe, Rightful, Lasting, Clearing, InList

LEMMA NextStep ==
    ASSUME Safe, AmpSound(amp), NEW n \in {1, -1}, Command(Answered(ChangeRelative(amp, rows, n)))
    PROVE  AmpKept
<1>1. Rightful(ChangeRelative(amp, rows, n))
  BY ChangeRelativeSound, RemovingRightful DEF Safe
<1> QED BY <1>1, AnsweredRightful, CommandStep

LEMMA PlayTrackStep ==
    ASSUME Safe, AmpSound(amp), NEW p \in {NoList} \cup AllLists, NEW i \in Nat, PlayTrackOf(p, i)
    PROVE  AmpKept
<1>1. Rightful(PlayTrack(amp, rows, p, i))
  BY PlayTrackSound, MovingRightful DEF Safe
<1> QED BY <1>1, AnsweredRightful, CommandStep DEF PlayTrackOf

LEMMA PlayStep ==
    ASSUME Safe, AmpSound(amp), Play
    PROVE  AmpKept
<1> DEFINE a == Status(amp, rows, playlists)
           b == IF Found(a, rows) THEN SetState(a, "playing") ELSE a
<1>1. AmpSound(b)
  BY StatusSound, SetStateSound DEF Safe, Targets
<1>2. Command(Done(b, rows, {}))
  BY DEF Play
<1> HIDE DEF b
<1> QED BY <1>1, <1>2, DoneRightful, CommandStep

LEMMA SeekStep ==
    ASSUME Safe, AmpSound(amp), Seek
    PROVE  AmpKept
<1> DEFINE a == IF amp.src # NoSrc /\ amp.state # "null"
                THEN [amp EXCEPT !.ended = FALSE] ELSE amp
           b == IF Exists(a.list, playlists) THEN FetchTrack(a, rows) ELSE a
<1>1. AmpSound(a)
  BY FlagsSound
<1>2. Command(Done(b, rows, {}))
  BY DEF Seek
<1> HIDE DEF a
<1>3. AmpSound(b)
  BY <1>1, FetchTrackSound DEF Safe
<1> HIDE DEF b
<1> QED BY <1>2, <1>3, DoneRightful, CommandStep

LEMMA PipelineStep ==
    ASSUME Safe, AmpSound(amp), Pause \/ Stop \/ GetStatus
    PROVE  AmpKept
<1>1. AmpSound(SetState(amp, "paused")) /\ AmpSound(SetState(amp, "null"))
      /\ AmpSound(Status(amp, rows, playlists))
  BY SetStateSound, StatusSound DEF Safe, Targets
<1>2. /\ Rightful(Done(SetState(amp, "paused"), rows, {}))
      /\ Rightful(Done(SetState(amp, "null"), rows, {}))
      /\ Rightful(Done(Status(amp, rows, playlists), rows, {}))
  BY <1>1, DoneRightful
<1> QED BY <1>2, CommandStep DEF Pause, Stop, GetStatus

\* queueAndPlay adds, moves and removes rows of the queue.
LEMMA QueueAndPlayStep ==
    ASSUME Safe, AmpSound(amp), NEW ks \in Albums, QueueAndPlay(ks)
    PROVE  AmpKept
<1> DEFINE t == AddTracks(rows, Queue, ks, 1)
           onTop == IF amp.list = Queue /\ amp.state = "playing"
                    THEN TrackNbr(rows, Queue, 0) ELSE {}
<1>1. Typed(t) /\ WithTracks(t, rows, Queue, Len(ks), AddPosition(rows, Queue, 1))
  <2>1. ks \in Seq(Tracks) /\ 1 \in Int \ {0}
    BY AlbumsAreSequences
  <2> QED BY <2>1, Names, AddTracksKeeps DEF Safe
<1>2. \A i \in DOMAIN rows : i \in DOMAIN t /\ t[i].pl = rows[i].pl /\ t[i].track = rows[i].track
  BY <1>1 DEF WithTracks
<1>3. NewId(rows) \in Nat
  BY NewIdFresh DEF Safe, Typed
<1> SUFFICES ASSUME NEW r, r = PlayTrack(amp, t, Queue, NewId(rows)),
                    IF onTop = {} THEN Command([r EXCEPT !.amp = [r.amp EXCEPT !.push = TRUE]])
                    ELSE LET i == CHOOSE i \in onTop : TRUE
                         IN Command(Done([r.amp EXCEPT !.push = TRUE],
                                         RemoveRow(r.rows, Queue, i), {rows[i].track}))
             PROVE  AmpKept
  BY DEF QueueAndPlay
<1>4. Moving(r, t)
  <2> HIDE DEF t
  <2> QED BY <1>1, <1>3, PlayTrackSound, Names
<1>5. Typed(r.rows) /\ SameRows(r.rows, t) /\ AmpSound(r.amp) /\ r.gone = {} /\ IsCall(r)
  BY <1>1, <1>4, MovingTable DEF Moving
<1>6. \A i \in DOMAIN rows : /\ i \in DOMAIN r.rows
                            /\ r.rows[i].pl = rows[i].pl /\ r.rows[i].track = rows[i].track
  BY <1>2, <1>5 DEF SameRows
<1> DEFINE asked == [r.amp EXCEPT !.push = TRUE]
<1>7. AmpSound(asked)
  BY <1>5, FlagsSound
<1>8. CASE onTop = {}
  <2>1. Rightful(r)
    BY <1>5, <1>6 DEF Rightful, Lasting, Clearing, InList
  <2> HIDE DEF asked
  <2>2. Rightful([r EXCEPT !.amp = asked])
    BY <2>1, <1>7, OtherAmp
  <2>3. Command([r EXCEPT !.amp = asked])
    BY <1>8 DEF asked
  <2> QED BY <2>2, <2>3, CommandStep
<1>9. CASE onTop # {}
  <2> DEFINE i == CHOOSE i \in onTop : TRUE
  <2>1. i \in onTop
    BY <1>9
  <2>2. Command(Done(asked, RemoveRow(r.rows, Queue, i), {rows[i].track}))
    BY <1>9
  <2>3. i \in TrackNbr(rows, Queue, 0)
    <3> HIDE DEF i
    <3> QED BY <2>1
  <2> HIDE DEF i, asked, onTop, t
  <2>4. i \in DOMAIN rows /\ rows[i].track \in Tracks
    BY <2>3, NbrRow DEF Safe
  <2>5. i \in DOMAIN r.rows /\ r.rows[i].track = rows[i].track
    BY <2>4, <1>6
  <2>6. Typed(RemoveRow(r.rows, Queue, i)) /\ WithoutRow(RemoveRow(r.rows, Queue, i), r.rows, Queue, i)
    BY <2>5, <1>5, RemoveRowKeeps, Names
  <2>7. /\ Lasting(RemoveRow(r.rows, Queue, i), rows)
        /\ Clearing(RemoveRow(r.rows, Queue, i), rows, {rows[i].track})
    BY <2>4, <2>6, <1>6 DEF WithoutRow, Lasting, Clearing, InList
  <2> DEFINE d == Done(asked, RemoveRow(r.rows, Queue, i), {rows[i].track})
  <2>8. d.amp = asked /\ d.rows = RemoveRow(r.rows, Queue, i) /\ d.gone = {rows[i].track}
        /\ IsCall(d)
    BY DoneFields
  <2>9. Command(d)
    BY <2>2
  <2> HIDE DEF d
  <2>10. Rightful(d)
    BY <2>4, <2>6, <2>7, <2>8, <1>7 DEF Rightful
  <2> QED BY <2>9, <2>10, CommandStep
<1> QED BY <1>8, <1>9

\* The handlers of VoteQueue, with the push.
LEMMA HandlerStep ==
    ASSUME Sound, AmpSound(amp),
           \/ amp' = Pushed([amp EXCEPT !.push = TRUE], rows', playlists')
           \/ amp' = Pushed(amp, rows', playlists')
    PROVE  AmpKept
<1>1. AmpSound([amp EXCEPT !.push = TRUE])
  BY FlagsSound
<1>2. AmpSound(amp')
  BY <1>1, PushedSound DEF Sound, Safe
<1> QED BY <1>2 DEF AmpKept

\* What other threads do.
LEMMA EndOfStreamStep ==
    ASSUME Safe, AmpSound(amp), EndOfStream
    PROVE  AmpKept
<1> DEFINE a == [amp EXCEPT !.ended = TRUE]
           r == ChangeRelative(a, rows, 1)
<1>1. AmpSound(a)
  BY FlagsSound
<1> HIDE DEF a
<1>2. Removing(r, rows)
  BY <1>1, ChangeRelativeSound DEF Safe
<1>3. /\ amp' = [r.amp EXCEPT !.push = @ \/ r.ok] /\ rows' = r.rows
      /\ GiveBack(r.gone) /\ UNCHANGED playlists
  BY DEF EndOfStream, a
<1> HIDE DEF r
<1>4. Rightful(r)
  BY <1>2, RemovingRightful DEF Safe
<1>5. AmpSound(amp')
  <2>1. AmpSound(r.amp) /\ r.amp.push \in BOOLEAN
    BY <1>4 DEF Rightful, AmpSound, Amps
  <2>2. PICK b \in BOOLEAN : b = (r.amp.push \/ r.ok)
    OBVIOUS
  <2>3. amp' = [r.amp EXCEPT !.push = b]
    BY <1>3, <2>2
  <2> QED BY <2>1, <2>3, FlagsSound
<1>6. Sound
  BY <1>3, <1>4, GiveBackStep DEF Rightful
<1> QED BY <1>5, <1>6 DEF AmpKept

LEMMA PlayTokenLostStep ==
    ASSUME Safe, AmpSound(amp), PlayTokenLost
    PROVE  AmpKept
<1>1. UNCHANGED <<rows, votes, left, playlists>> /\ amp' = SetState(amp, "paused")
  BY DEF PlayTokenLost
<1>2. AmpSound(amp')
  BY <1>1, SetStateSound DEF Targets
<1> QED BY <1>1, <1>2, StutterStep DEF Kept, AmpKept

-------------------------------------------------------------------------------
(* Every step of AmpNext. *)

\* The invariant of the amp.
AmpInv == Safe /\ AmpSound(amp)

\* Removals, through whichever playlist.
LEMMA Dropped ==
    ASSUME Safe, NEW p, NEW i, NEW j,
           \/ RemoveTrack(i) \/ RemoveTrack(j) \/ RemoveTracks(i, j)
           \/ RemoveTrackFromPlaylist(p, i) \/ RemoveTracksFromPlaylist(p, i, j)
    PROVE  Sound
<1>1. Queue \in AllLists /\ \A q \in playlists : q \in AllLists
  BY Names DEF Safe, AllLists
<1>2. CASE RemoveTrack(i) \/ RemoveTrack(j)
  BY <1>1, <1>2, DropRowStep DEF RemoveTrack, DropRow
<1>3. CASE RemoveTracks(i, j)
  BY <1>1, <1>3, DropRowsStep DEF RemoveTracks, DropRows
<1>4. CASE RemoveTrackFromPlaylist(p, i)
  BY <1>1, <1>4, DropRowStep DEF RemoveTrackFromPlaylist, DropRow
<1>5. CASE RemoveTracksFromPlaylist(p, i, j)
  BY <1>1, <1>5, DropRowsStep DEF RemoveTracksFromPlaylist, DropRows
<1> QED BY <1>2, <1>3, <1>4, <1>5

LEMMA AmpStep ==
    ASSUME VoteQueueAssumption, AmpInv, AmpNext
    PROVE  AmpKept
<1> USE DEF AmpInv, AllLists
<1>lists. \A p \in playlists : p \in AllLists
  BY DEF Safe
<1>rows. \A i \in DOMAIN rows : i \in Nat
  BY RowTyped DEF Safe
<1>1. CASE NextTrack \/ PreviousTrack
  BY <1>1, NextStep DEF NextTrack, PreviousTrack
<1>2. CASE Play
  BY <1>2, PlayStep
<1>3. CASE Pause \/ Stop \/ GetStatus
  BY <1>3, PipelineStep
<1>4. CASE Seek
  BY <1>4, SeekStep
<1>5. CASE EndOfStream
  BY <1>5, EndOfStreamStep
<1>6. CASE PlayTokenLost
  BY <1>6, PlayTokenLostStep
<1>7. ASSUME NEW p \in {NoList} \cup Lists \cup playlists, NEW i \in Nat, PlayTrackOf(p, i)
      PROVE  AmpKept
  <2>1. p \in {NoList} \cup AllLists
    BY <1>lists
  <2> QED BY <1>7, <2>1, PlayTrackStep
<1>8. CASE PlaylistPlay
  <2>1. \A p \in playlists : \A i \in InList(rows, p) : i \in Nat
    BY <1>rows DEF InList
  <2> QED BY <1>8, <2>1, <1>1, <1>2, <1>3, <1>4, <1>5, <1>6, <1>7 DEF PlaylistPlay
<1>9. CASE QueuePlay
  <2>1. \A i \in InList(rows, Queue) : i \in Nat
    BY <1>rows DEF InList
  <2> QED BY <1>9, <2>1, <1>7, QueueAndPlayStep DEF QueuePlay
<1>10. CASE Queueing
  <2>1. ASSUME NEW u \in Users, NEW k \in Tracks, Asking(AddVote(u, k)) PROVE AmpKept
    BY <2>1, AddVoteStep, HandlerStep DEF Asking, Kept
  <2>2. ASSUME NEW ks \in Albums, Asking(QueueTracks(ks)) PROVE AmpKept
    <3>1. Sound
      BY <2>2, AddTracksStep DEF Kept, Asking, QueueTracks
    <3> QED BY <2>2, <3>1, HandlerStep DEF Asking
  <2> QED BY <1>10, <2>1, <2>2 DEF Queueing
<1>11. ASSUME NEW i, Asking(RemoveTrack(i)) PROVE AmpKept
  <2>1. Sound
    BY <1>11, Dropped DEF Asking
  <2> QED BY <1>11, <2>1, HandlerStep DEF Asking
<1>12. ASSUME NEW i, NEW j, Asking(RemoveSome(i, j)) PROVE AmpKept
  <2>1. RemoveTrack(i) \/ RemoveTrack(j) \/ RemoveTracks(i, j)
    BY <1>12 DEF Asking, RemoveSome
  <2>2. Sound
    BY <2>1, Dropped
  <2> QED BY <1>12, <2>2, HandlerStep DEF Asking
<1>13. ASSUME NEW p \in playlists, NEW i, Asking(RemoveTrackFromPlaylist(p, i))
      PROVE  AmpKept
  <2>1. Sound
    BY <1>13, Dropped DEF Asking
  <2> QED BY <1>13, <2>1, HandlerStep DEF Asking
<1>14. ASSUME NEW p \in playlists, NEW i, NEW j, Asking(RemoveTracksFromPlaylist(p, i, j))
      PROVE  AmpKept
  <2>1. Sound
    BY <1>14, Dropped DEF Asking
  <2> QED BY <1>14, <2>1, HandlerStep DEF Asking
<1>15. CASE Unqueueing
  <2>1. ASSUME NEW u \in Users, NEW k \in Tracks, Asking(RemoveVote(u, k)) PROVE AmpKept
    BY <2>1, RemoveVoteStep, HandlerStep DEF Asking, Kept
  <2> QED BY <1>15, <2>1, <1>11, <1>12 DEF Unqueueing
<1>16. CASE Editing
  <2>2. ASSUME NotAsking(CreatePlaylist) \/ NotAsking(CleanDatabase) PROVE AmpKept
    <3>1. Sound
      BY <2>2, CreatePlaylistStep, CleanDatabaseStep DEF Kept, NotAsking
    <3> QED BY <2>2, <3>1, HandlerStep DEF NotAsking
  <2>3. ASSUME NEW p \in playlists, Asking(RemovePlaylist(p)) PROVE AmpKept
    <3>1. Sound
      BY <2>3, RemovePlaylistStep DEF Kept, Asking
    <3> QED BY <2>3, <3>1, HandlerStep DEF Asking
  <2>4. ASSUME NEW p \in playlists, NEW k \in Tracks, Asking(AddTrackToPlaylist(p, k))
        PROVE  AmpKept
    <3>1. Sound
      BY <2>4, <1>lists, AddTrackStep DEF Kept, Asking, AddTrackToPlaylist
    <3> QED BY <2>4, <3>1, HandlerStep DEF Asking
  <2>5. ASSUME NEW p \in playlists, NEW ks \in Albums, Asking(AddTracksToPlaylist(p, ks))
        PROVE  AmpKept
    <3>1. Sound
      BY <2>5, <1>lists, AddTracksStep DEF Kept, Asking, AddTracksToPlaylist
    <3> QED BY <2>5, <3>1, HandlerStep DEF Asking
  <2>8. ASSUME NEW p \in playlists, NEW i, NEW pos, Asking(MoveTrackInPlaylist(p, i, pos))
        PROVE  AmpKept
    <3>1. Sound
      BY <2>8, <1>lists, MoveTrackStep DEF Kept, Asking, MoveTrackInPlaylist
    <3> QED BY <2>8, <3>1, HandlerStep DEF Asking
  <2> QED BY <1>16, <2>2, <2>3, <2>4, <2>5, <1>13, <1>14, <2>8 DEF Editing
<1>17. CASE Outdated
  <2>1. \A i \in (1 .. MaxRowId) \ DOMAIN rows : i \in Nat
    OBVIOUS
  <2> QED BY <1>17, <2>1, <1>7 DEF Outdated
<1>18. CASE Astray
  BY <1>18, <1>7, <1>11, <1>12, <1>13, <1>14, <1>rows DEF Astray
<1> QED BY <1>8, <1>9, <1>10, <1>15, <1>16, <1>17, <1>18 DEF AmpNext

LEMMA AmpStutter ==
    ASSUME AmpInv, UNCHANGED ampVars
    PROVE  AmpKept
<1>1. UNCHANGED <<rows, votes, left, playlists>> /\ amp' = amp
  BY DEF ampVars
<1> QED BY <1>1, StutterStep DEF Kept, AmpKept, AmpInv

LEMMA SilentSound == AmpSound(Silent)
<1>1. Silent \in Amps
  BY DEF Silent, Amps, States
<1> QED BY <1>1, Names DEF AmpSound, Silent

LEMMA AmpInitEstablishes == VoteQueueAssumption /\ AmpInit => AmpInv /\ Booth!Init
BY InitEstablishes, SilentSound DEF AmpInit, AmpInv, IInv

\* The invariant of the amp is inductive.
THEOREM AmpInvariance == AmpSpec => []AmpInv
<1>1. AmpInit => AmpInv
  BY VoteQueueAssumption, AmpInitEstablishes
<1>2. AmpInv /\ [AmpNext]_ampVars => AmpInv'
  BY VoteQueueAssumption, AmpStep, AmpStutter DEF AmpKept, AmpInv, Sound
<1> QED BY <1>1, <1>2, PTL DEF AmpSpec

\* The amp's fields have their types, whatever clients and the other threads do, in
\* whatever order, with ids of rows that are gone or of other playlists.
THEOREM AmpTyped == AmpSpec => []AmpTypeOK
<1>1. AmpInv => AmpTypeOK
  BY DEF AmpInv, AmpSound, AmpTypeOK
<1> QED BY <1>1, AmpInvariance, PTL

\* While the spotify source is in the pipeline its element follows the state
\* (amp.py, set_state and start_track).
THEOREM SpotFollowed == AmpSpec => []SpotFollows
<1>1. AmpInv => SpotFollows
  BY DEF AmpInv, AmpSound, SpotFollows
<1> QED BY <1>1, AmpInvariance, PTL

\* The amp keeps the votes: what a user has left and has placed add up, although the
\* amp removes rows at the end of a stream and through the wrong playlist.
THEOREM AmpBudgetKept == AmpSpec => [](TypeOK /\ VoteBudget /\ VotesAreQueued)
<1>1. AmpInv => TypeOK /\ VoteBudget /\ VotesAreQueued
  BY VoteQueueAssumption, SafeTypes DEF AmpInv, Safe, VotesInv
<1> QED BY <1>1, AmpInvariance, PTL

\* With the amp, too, the votes implement the voting booth.
THEOREM AmpRefinement == AmpSpec => BoothSpec
<1>1. AmpInit => Booth!Init
  BY VoteQueueAssumption, AmpInitEstablishes
<1>2. AmpInv /\ [AmpNext]_ampVars => [Booth!Next]_(Booth!vars)
  BY VoteQueueAssumption, AmpStep, AmpStutter DEF AmpKept, Sound, BoothStep, Booth!vars
<1> QED BY <1>1, <1>2, AmpInvariance, PTL DEF AmpSpec, BoothSpec, Booth!Spec

-------------------------------------------------------------------------------
(* The queue is used or playlists are.                                          *)

\* The playlists of table t are in order, no row belongs to a playlist that is gone,
\* and there are no rows in the queue while there are playlists, P.  The amp removes
\* and moves rows through the queue only, so that it cannot hit a row of another
\* playlist then.
Apart(t, P) ==
    /\ Ordered(t)
    /\ P = {} \/ InList(t, Queue) = {}
    /\ \A i \in DOMAIN t : t[i].pl \in {Queue} \cup P

ApartInv == AmpInv /\ Apart(rows, playlists)

LEMMA RemovingApart ==
    ASSUME NEW t, Typed(t), NEW P, Apart(t, P), NEW r, Removing(r, t)
    PROVE  Apart(r.rows, P)
<1>1. CASE r.rows = t
  BY <1>1
<1>2. ASSUME NEW i \in DOMAIN t, InList(t, Queue) # {}, r.rows = RemoveRow(t, Queue, i)
      PROVE  Apart(r.rows, P)
  <2>1. P = {} /\ \A j \in DOMAIN t : t[j].pl = Queue
    BY <1>2 DEF Apart
  <2>2. i \in InList(t, Queue)
    BY <2>1 DEF InList
  <2>3. Ordered(r.rows) /\ WithoutRow(r.rows, t, Queue, i)
    BY <1>2, <2>2, RemoveRowKeeps, Names DEF Apart
  <2> QED BY <2>1, <2>3 DEF Apart, WithoutRow
<1> QED BY <1>1, <1>2 DEF Removing

LEMMA MovingApart ==
    ASSUME NEW t, Typed(t), NEW P, Apart(t, P), NEW r, Moving(r, t)
    PROVE  Apart(r.rows, P)
<1>1. CASE r.rows = t
  BY <1>1
<1>2. ASSUME NEW i \in InList(t, Queue), CanMove(t, Queue, i, 1),
             r.rows = MoveTrack(t, Queue, i, 1)
      PROVE  Apart(r.rows, P)
  <2>1. Ordered(r.rows) /\ SameRows(r.rows, t)
    BY <1>2, MoveKeeps, Names DEF Apart
  <2> QED BY <2>1 DEF Apart, SameRows, InList
<1> QED BY <1>1, <1>2 DEF Moving

\* What the commands do to the table.
LEMMA NextRows ==
    ASSUME Safe, AmpSound(amp), NEW n \in {1, -1}, Command(Answered(ChangeRelative(amp, rows, n)))
    PROVE  \E r : Removing(r, rows) /\ rows' = r.rows /\ UNCHANGED playlists
<1> DEFINE r == ChangeRelative(amp, rows, n)
<1>1. Removing(r, rows)
  BY ChangeRelativeSound DEF Safe
<1>2. rows' = r.rows /\ UNCHANGED playlists
  BY <1>1, RemovingRightful, AnsweredRightful DEF Safe, Command
<1> QED BY <1>1, <1>2

LEMMA PlayTrackRows ==
    ASSUME Safe, AmpSound(amp), NEW p \in {NoList} \cup AllLists, NEW i \in Nat, PlayTrackOf(p, i)
    PROVE  \E r : Moving(r, rows) /\ rows' = r.rows /\ UNCHANGED playlists
<1> DEFINE r == PlayTrack(amp, rows, p, i)
<1>1. Moving(r, rows)
  BY PlayTrackSound DEF Safe
<1>2. rows' = r.rows /\ UNCHANGED playlists
  BY <1>1, MovingRightful, AnsweredRightful DEF Safe, Command, PlayTrackOf
<1> QED BY <1>1, <1>2

\* queueAndPlay adds rows to the queue, moves one and may remove one.
LEMMA QueueAndPlayRows ==
    ASSUME Safe, AmpSound(amp), NEW ks \in Albums, QueueAndPlay(ks)
    PROVE  \E r : /\ Moving(r, AddTracks(rows, Queue, ks, 1))
                  /\ \/ rows' = r.rows
                     \/ \E i \in InList(rows, Queue) : rows' = RemoveRow(r.rows, Queue, i)
                  /\ UNCHANGED playlists
<1> DEFINE t == AddTracks(rows, Queue, ks, 1)
           r == PlayTrack(amp, t, Queue, NewId(rows))
           onTop == IF amp.list = Queue /\ amp.state = "playing"
                    THEN TrackNbr(rows, Queue, 0) ELSE {}
<1>1. Typed(t)
  <2>1. ks \in Seq(Tracks) /\ 1 \in Int \ {0}
    BY AlbumsAreSequences
  <2> QED BY <2>1, Names, AddTracksKeeps DEF Safe
<1>2. NewId(rows) \in Nat
  BY NewIdFresh DEF Safe, Typed
<1> HIDE DEF t
<1>3. Moving(r, t)
  BY <1>1, <1>2, PlayTrackSound, Names
<1>4. IF onTop = {} THEN Command([r EXCEPT !.amp = [r.amp EXCEPT !.push = TRUE]])
      ELSE LET i == CHOOSE i \in onTop : TRUE
           IN Command(Done([r.amp EXCEPT !.push = TRUE],
                           RemoveRow(r.rows, Queue, i), {rows[i].track}))
  BY DEF QueueAndPlay, t
<1> HIDE DEF r
<1>5. CASE onTop = {}
  <2> DEFINE asked == [r.amp EXCEPT !.push = TRUE]
             s == [r EXCEPT !.amp = asked]
  <2>1. Command(s)
    BY <1>4, <1>5
  <2>2. s.rows = r.rows
    BY <1>3 DEF Moving, IsCall
  <2> HIDE DEF s, onTop
  <2>3. rows' = r.rows /\ UNCHANGED playlists
    BY <2>1, <2>2 DEF Command
  <2> QED BY <1>3, <2>3 DEF t
<1>6. CASE onTop # {}
  <2> DEFINE i == CHOOSE i \in onTop : TRUE
             s == Done([r.amp EXCEPT !.push = TRUE], RemoveRow(r.rows, Queue, i), {rows[i].track})
  <2>1. Command(s)
    BY <1>4, <1>6
  <2>2. i \in onTop
    BY <1>6
  <2> HIDE DEF i
  <2>3. i \in InList(rows, Queue)
    BY <2>2, NbrRow DEF Safe
  <2>4. s.rows = RemoveRow(r.rows, Queue, i)
    BY DoneFields
  <2> HIDE DEF s, onTop
  <2>5. rows' = RemoveRow(r.rows, Queue, i) /\ UNCHANGED playlists
    BY <2>1, <2>4 DEF Command
  <2> QED BY <1>3, <2>3, <2>5 DEF t
<1> QED BY <1>5, <1>6

LEMMA QueueAndPlayApart ==
    ASSUME ApartInv, playlists = {}, NEW ks \in Albums, QueueAndPlay(ks)
    PROVE  Apart(rows', playlists')
<1> DEFINE t == AddTracks(rows, Queue, ks, 1)
<1>1. PICK r : /\ Moving(r, t)
               /\ \/ rows' = r.rows
                  \/ \E i \in InList(rows, Queue) : rows' = RemoveRow(r.rows, Queue, i)
               /\ UNCHANGED playlists
  BY QueueAndPlayRows DEF ApartInv, AmpInv
<1>2. Typed(t) /\ Ordered(t) /\ WithTracks(t, rows, Queue, Len(ks), AddPosition(rows, Queue, 1))
  <2>1. ks \in Seq(Tracks) /\ 1 \in Int \ {0}
    BY AlbumsAreSequences
  <2> QED BY <2>1, Names, AddTracksKeeps DEF ApartInv, AmpInv, Safe, Apart
<1> HIDE DEF t
<1>3. Apart(t, {})
  BY <1>2 DEF Apart, WithTracks, ApartInv
<1>4. Typed(r.rows) /\ SameRows(r.rows, t) /\ Apart(r.rows, {})
  BY <1>1, <1>2, <1>3, MovingTable, MovingApart
<1>5. ASSUME NEW i \in InList(rows, Queue), rows' = RemoveRow(r.rows, Queue, i)
      PROVE  Apart(rows', {})
  <2>1. i \in InList(r.rows, Queue) /\ i \in DOMAIN r.rows
    BY <1>2, <1>4 DEF SameRows, WithTracks, InList
  <2>2. WithoutRow(rows', r.rows, Queue, i) /\ Ordered(rows')
    BY <2>1, <1>4, <1>5, RemoveRowKeeps, Names DEF Apart
  <2> QED BY <1>4, <2>2 DEF Apart, WithoutRow
<1> QED BY <1>1, <1>4, <1>5

\* The handlers of VoteQueue: on the queue without playlists, or on a playlist while the
\* queue is empty.
LEMMA HandlerApart ==
    ASSUME ApartInv, Kept, NEW p \in {Queue} \cup playlists, OnlyOn(p),
           IF p = Queue THEN playlists = {} ELSE InList(rows, Queue) = {},
           UNCHANGED playlists
    PROVE  Apart(rows', playlists')
<1>1. Safe' /\ Ordered(rows')
  BY DEF Kept, Sound, ApartInv, Apart
<1>2. \A i \in DOMAIN rows' : rows'[i].pl \in {Queue} \cup playlists'
  <2> SUFFICES ASSUME NEW i \in DOMAIN rows', rows'[i].pl # p
               PROVE  rows'[i].pl \in {Queue} \cup playlists
    OBVIOUS
  <2>1. i \in InList(rows, rows'[i].pl)
    BY <1>1, RowTyped DEF Safe, OnlyOn, Elsewhere, SameList, InList
  <2> QED BY <2>1 DEF InList, ApartInv, Apart
<1>3. p # Queue => InList(rows', Queue) = {}
  BY DEF OnlyOn, Elsewhere, SameList, AllLists
<1> QED BY <1>1, <1>2, <1>3 DEF Apart

LEMMA EditingApart ==
    ASSUME VoteQueueAssumption, ApartInv, InList(rows, Queue) = {}, Editing
    PROVE  Apart(rows', playlists')
<1> USE DEF ApartInv, AmpInv
<1>lists. \A p \in playlists : p \in AllLists /\ p # Queue
  BY DEF Safe, AllLists, VoteQueueAssumption
<1>1. ASSUME CreatePlaylist PROVE Apart(rows', playlists')
  BY <1>1 DEF CreatePlaylist, Apart
<1>2. ASSUME CleanDatabase PROVE Apart(rows', playlists')
  <2>1. Ordered(rows')
    BY <1>2, CleanDatabaseStep
  <2>2. playlists' = {} /\ DOMAIN rows' = {}
    BY <1>2 DEF CleanDatabase
  <2> QED BY <2>1, <2>2 DEF Apart
<1>3. ASSUME NEW p \in playlists, RemovePlaylist(p) PROVE Apart(rows', playlists')
  <2>1. Kept /\ OnlyOn(p) /\ InList(rows', p) = {}
    BY <1>3, RemovePlaylistStep
  <2>2. playlists' = playlists \ {p}
    BY <1>3 DEF RemovePlaylist
  <2>3. Ordered(rows')
    BY <2>1 DEF Kept, Apart
  <2>4. \A i \in DOMAIN rows' : rows'[i].pl \in ({Queue} \cup playlists) \ {p}
    <3> SUFFICES ASSUME NEW i \in DOMAIN rows', rows'[i].pl # p
                 PROVE  rows'[i].pl \in {Queue} \cup playlists
      BY <2>1 DEF InList
    <3>1. i \in InList(rows, rows'[i].pl)
      BY <2>1, RowTyped DEF Kept, Sound, Safe, OnlyOn, Elsewhere, SameList, InList
    <3> QED BY <3>1 DEF InList, Apart
  <2>5. InList(rows', Queue) = {}
    BY <2>1, <1>lists DEF OnlyOn, Elsewhere, SameList, AllLists
  <2> QED BY <2>2, <2>3, <2>4, <2>5 DEF Apart
<1>4. ASSUME NEW p \in playlists, NEW k \in Tracks, AddTrackToPlaylist(p, k)
      PROVE  Apart(rows', playlists')
  <2>1. Kept /\ OnlyOn(p) /\ UNCHANGED playlists
    BY <1>4, <1>lists, AddTrackStep DEF AddTrackToPlaylist
  <2> QED BY <2>1, <1>lists, HandlerApart
<1>5. ASSUME NEW p \in playlists, NEW ks \in Albums, AddTracksToPlaylist(p, ks)
      PROVE  Apart(rows', playlists')
  <2>1. Kept /\ OnlyOn(p) /\ UNCHANGED playlists
    BY <1>5, <1>lists, AddTracksStep DEF AddTracksToPlaylist
  <2> QED BY <2>1, <1>lists, HandlerApart
<1>6. ASSUME NEW p \in playlists, NEW i \in InList(rows, p), RemoveTrackFromPlaylist(p, i)
      PROVE  Apart(rows', playlists')
  <2>1. Kept /\ OnlyOn(p) /\ UNCHANGED playlists
    BY <1>6, <1>lists, DropRowStep DEF RemoveTrackFromPlaylist, DropRow
  <2> QED BY <2>1, <1>lists, HandlerApart
<1>7. ASSUME NEW p \in playlists, NEW i \in InList(rows, p), NEW j \in InList(rows, p),
             RemoveTracksFromPlaylist(p, i, j)
      PROVE  Apart(rows', playlists')
  <2>1. Kept /\ OnlyOn(p) /\ UNCHANGED playlists
    BY <1>7, <1>lists, DropRowsStep DEF RemoveTracksFromPlaylist, DropRows
  <2> QED BY <2>1, <1>lists, HandlerApart
<1>8. ASSUME NEW p \in playlists, NEW i, NEW pos, MoveTrackInPlaylist(p, i, pos)
      PROVE  Apart(rows', playlists')
  <2>1. Kept /\ OnlyOn(p) /\ UNCHANGED playlists
    BY <1>8, <1>lists, MoveTrackStep DEF MoveTrackInPlaylist
  <2> QED BY <2>1, <1>lists, HandlerApart
<1> QED BY <1>1, <1>2, <1>3, <1>4, <1>5, <1>6, <1>7, <1>8 DEF Editing, Asking, NotAsking

LEMMA QueueingApart ==
    ASSUME ApartInv, playlists = {}, Queueing \/ Unqueueing
    PROVE  Apart(rows', playlists')
<1> USE DEF ApartInv, AmpInv, AllLists
<1>1. ASSUME NEW u \in Users, NEW k \in Tracks, AddVote(u, k) PROVE Apart(rows', playlists')
  BY <1>1, AddVoteStep, HandlerApart DEF AddVote
<1>2. ASSUME NEW ks \in Albums, QueueTracks(ks) PROVE Apart(rows', playlists')
  BY <1>2, AddTracksStep, HandlerApart DEF QueueTracks
<1>3. ASSUME NEW u \in Users, NEW k \in Tracks, RemoveVote(u, k) PROVE Apart(rows', playlists')
  BY <1>3, RemoveVoteStep, HandlerApart DEF RemoveVote
<1>4. ASSUME NEW i \in InList(rows, Queue), RemoveTrack(i) PROVE Apart(rows', playlists')
  BY <1>4, DropRowStep, HandlerApart DEF RemoveTrack, DropRow
<1>5. ASSUME NEW i \in InList(rows, Queue), NEW j \in InList(rows, Queue), RemoveTracks(i, j)
      PROVE  Apart(rows', playlists')
  BY <1>5, DropRowsStep, HandlerApart DEF RemoveTracks, DropRows
<1>6. CASE Queueing
  BY <1>6, <1>1, <1>2 DEF Queueing, Asking
<1>7. CASE Unqueueing
  <2>1. ASSUME NEW i \in InList(rows, Queue), NEW j \in InList(rows, Queue), RemoveSome(i, j)
        PROVE  Apart(rows', playlists')
    <3>1. RemoveTrack(i) \/ RemoveTrack(j) \/ RemoveTracks(i, j)
      BY <2>1 DEF RemoveSome
    <3> QED BY <3>1, <1>4, <1>5
  <2> QED BY <1>7, <2>1, <1>3, <1>4 DEF Unqueueing, Asking
<1> QED BY <1>6, <1>7

LEMMA ApartStep ==
    ASSUME VoteQueueAssumption, ApartInv, QueueOrPlaylists
    PROVE  Apart(rows', playlists')
<1> USE DEF ApartInv, AmpInv
<1>rows. \A i \in DOMAIN rows : i \in Nat
  BY RowTyped DEF Safe
<1>1. ASSUME NEW r, Removing(r, rows), rows' = r.rows, UNCHANGED playlists
      PROVE  Apart(rows', playlists')
  BY <1>1, RemovingApart DEF Safe
<1>2. ASSUME NEW p \in {NoList} \cup AllLists, NEW i \in Nat, PlayTrackOf(p, i)
      PROVE  Apart(rows', playlists')
  <2>1. PICK r : Moving(r, rows) /\ rows' = r.rows /\ UNCHANGED playlists
    BY <1>2, PlayTrackRows
  <2> QED BY <2>1, MovingApart DEF Safe
<1>3. CASE NextTrack \/ PreviousTrack
  BY <1>1, <1>3, NextRows DEF NextTrack, PreviousTrack
<1>4. CASE EndOfStream
  <2> DEFINE a == [amp EXCEPT !.ended = TRUE]
             r == ChangeRelative(a, rows, 1)
  <2>1. AmpSound(a)
    BY FlagsSound
  <2>2. rows' = r.rows /\ UNCHANGED playlists
    BY <1>4 DEF EndOfStream
  <2> HIDE DEF a
  <2>3. Removing(r, rows)
    BY <2>1, ChangeRelativeSound DEF Safe
  <2> QED BY <1>1, <2>2, <2>3
<1>5. CASE Play \/ Pause \/ Stop \/ GetStatus \/ Seek \/ PlayTokenLost
  <2>1. rows' = rows /\ UNCHANGED playlists
    BY <1>5, DoneFields DEF Play, Pause, Stop, GetStatus, Seek, PlayTokenLost, Command
  <2> QED BY <2>1
<1>6. CASE PlaylistPlay
  <2>1. \A p \in playlists : p \in {NoList} \cup AllLists /\ \A i \in InList(rows, p) : i \in Nat
    BY <1>rows DEF InList, Safe, AllLists
  <2> QED BY <1>6, <2>1, <1>2, <1>3, <1>4, <1>5 DEF PlaylistPlay
<1>7. CASE Outdated
  <2>1. \A p \in {NoList} \cup Lists, i \in (1 .. MaxRowId) \ DOMAIN rows :
          p \in {NoList} \cup AllLists /\ i \in Nat
    BY DEF AllLists
  <2> QED BY <1>7, <2>1, <1>2 DEF Outdated
<1>8. CASE playlists = {} /\ QueuePlay
  <2>1. \A i \in InList(rows, Queue) : i \in Nat
    BY <1>rows DEF InList
  <2> QED BY <1>8, <2>1, <1>2, QueueAndPlayApart DEF QueuePlay
<1>9. CASE NotAsking(CleanDatabase)
  <2>1. CleanDatabase
    BY <1>9 DEF NotAsking
  <2>2. Ordered(rows')
    BY <2>1, CleanDatabaseStep
  <2>3. playlists' = {} /\ DOMAIN rows' = {}
    BY <2>1 DEF CleanDatabase
  <2> QED BY <2>2, <2>3 DEF Apart
<1> QED BY <1>6, <1>7, <1>8, <1>9, QueueingApart, EditingApart DEF QueueOrPlaylists

LEMMA ApartInvariance == ApartSpec => []ApartInv
<1>1. AmpInit => ApartInv
  <2>1. AmpInit => AmpInv /\ DOMAIN rows = {} /\ Ordered(rows)
    BY VoteQueueAssumption, AmpInitEstablishes, EmptyKeeps DEF AmpInit, Init
  <2> QED BY <2>1 DEF ApartInv, Apart, InList
<1>2. ApartInv /\ [QueueOrPlaylists]_ampVars => ApartInv'
  <2> SUFFICES ASSUME ApartInv, [QueueOrPlaylists]_ampVars PROVE ApartInv'
    OBVIOUS
  <2>1. CASE QueueOrPlaylists
    <3>1. AmpNext
      BY <2>1 DEF QueueOrPlaylists, AmpNext, Editing
    <3>2. AmpInv'
      BY <3>1, VoteQueueAssumption, AmpStep DEF ApartInv, AmpKept, AmpInv, Sound
    <3> QED BY <3>2, <2>1, VoteQueueAssumption, ApartStep DEF ApartInv
  <2>2. CASE UNCHANGED ampVars
    <3>1. AmpInv'
      BY <2>2, AmpStutter DEF ApartInv, AmpKept, AmpInv, Sound
    <3> QED BY <3>1, <2>2 DEF ampVars, ApartInv
  <2> QED BY <2>1, <2>2
<1> QED BY <1>1, <1>2, PTL DEF ApartSpec

\* While the queue is not used next to playlists, the amp leaves every playlist in
\* order, although it renumbers the queue whichever row it removes.
THEOREM ApartContiguity == ApartSpec => []ListsContiguous
<1>1. ApartInv => ListsContiguous
  BY ContiguousIsInOrder
  DEF ApartInv, AmpInv, Apart, Safe, Typed, Ordered, ListsContiguous, AllLists
<1> QED BY <1>1, ApartInvariance, PTL

-------------------------------------------------------------------------------
(* Listeners play and queue while nobody edits.  First where the amp is: which  *)
(* row is active and which one it goes back to.                                 *)

\* The playlist to go back to has the row to go back to, if there is one.
Back(a, t) == a.fbList # NoList => a.fbRow = NoRow \/ a.fbRow \in InList(t, a.fbList)

\* The active row, when it exists, is one of the active playlist, and the row of an
\* ordinary playlist exists.
Placed(a, t) ==
    /\ a.row \in DOMAIN t => t[a.row].pl = a.list
    /\ a.list # Queue /\ a.row \notin DOMAIN t => a.row = NoRow
    /\ Back(a, t)

LEMMA SamePlaced ==
    ASSUME NEW a, NEW b, SamePlace(b, a), NEW t, Placed(a, t)
    PROVE  Placed(b, t)
BY DEF SamePlace, Placed, Back

LEMMA NoRowNowhere == ASSUME NEW t, Typed(t) PROVE NoRow \notin DOMAIN t
BY Names DEF Typed, IsTable

\* fetch_active_playlist finds the active playlist.
LEMMA StatusFetches ==
    ASSUME playlists = Lists, NEW a \in Amps, NEW t
    PROVE  Status(a, t, playlists) = FetchTrack(a, t)
<1>1. a.list \in {Queue} \cup Lists
  BY DEF Amps
<1> QED BY <1>1 DEF Status, FetchPlaylist, Exists

\* fetch_active_track changes the active row only when that is gone: to none, or to the
\* first one of the active playlist.
LEMMA FetchTrackPlace ==
    ASSUME NEW t, Typed(t), NEW a, AmpSound(a)
    PROVE  /\ FetchTrack(a, t).list = a.list
           /\ FetchTrack(a, t).fbList = a.fbList
           /\ FetchTrack(a, t).fbRow = a.fbRow
           /\ \/ FetchTrack(a, t) = a
              \/ FetchTrack(a, t).row = NoRow
              \/ FetchTrack(a, t).row \in InList(t, a.list)
<1> SUFFICES ASSUME NEW c, c = FetchTrack(a, t)
             PROVE  /\ c.list = a.list /\ c.fbList = a.fbList /\ c.fbRow = a.fbRow
                    /\ c = a \/ c.row = NoRow \/ c.row \in InList(t, a.list)
  OBVIOUS
<1>1. a \in Amps
  BY DEF AmpSound
<1>2. CASE c = a
  BY <1>2
<1>3. CASE c = [a EXCEPT !.row = NoRow]
  BY <1>1, <1>3 DEF Amps
<1>4. ASSUME NEW i \in TrackNbr(t, a.list, 0),
             c = LET started == StartTrack([a EXCEPT !.row = i], t[i].track)
                 IN IF t[i].track \in Unplayable THEN [started EXCEPT !.row = NoRow]
                    ELSE SetState(started, "paused")
      PROVE  /\ c.list = a.list /\ c.fbList = a.fbList /\ c.fbRow = a.fbRow
             /\ c.row = NoRow \/ c.row \in InList(t, a.list)
  <2> DEFINE b == [a EXCEPT !.row = i]
             started == StartTrack(b, t[i].track)
  <2>1. i \in InList(t, a.list) /\ i \in Nat /\ t[i].track \in Tracks
    BY NbrRow
  <2>2. /\ AmpSound(b) /\ b.row = i
        /\ b.list = a.list /\ b.fbList = a.fbList /\ b.fbRow = a.fbRow
    BY <1>1, <2>1, PlaceSound, Names DEF Amps
  <2> HIDE DEF b
  <2>3. AmpSound(started) /\ SamePlace(started, b)
    BY <2>1, <2>2, StartTrackSound, SetStatePlace, StartTrackPlace, FlagsPlace DEF AmpSound, Targets
  <2>4. c = IF t[i].track \in Unplayable THEN [started EXCEPT !.row = NoRow]
            ELSE SetState(started, "paused")
    BY <1>4 DEF b
  <2> HIDE DEF started
  <2>5. SamePlace(SetState(started, "paused"), started)
    BY <2>3, SetStatePlace, StartTrackPlace, FlagsPlace DEF AmpSound, Targets
  <2>6. /\ [started EXCEPT !.row = NoRow].row = NoRow
        /\ [started EXCEPT !.row = NoRow].list = started.list
        /\ [started EXCEPT !.row = NoRow].fbList = started.fbList
        /\ [started EXCEPT !.row = NoRow].fbRow = started.fbRow
    BY <2>3 DEF AmpSound, Amps
  <2> QED BY <2>1, <2>2, <2>3, <2>4, <2>5, <2>6 DEF SamePlace
<1> QED BY <1>2, <1>3, <1>4, FetchTrackCases

LEMMA FetchTrackPlaced ==
    ASSUME NEW t, Typed(t), NEW a, AmpSound(a), Placed(a, t)
    PROVE  Placed(FetchTrack(a, t), t)
<1> SUFFICES ASSUME NEW c, c = FetchTrack(a, t) PROVE Placed(c, t)
  OBVIOUS
<1>1. /\ c.list = a.list /\ c.fbList = a.fbList /\ c.fbRow = a.fbRow
      /\ c = a \/ c.row = NoRow \/ c.row \in InList(t, a.list)
  BY FetchTrackPlace
<1> QED BY <1>1, NoRowNowhere DEF Placed, Back, InList

\* The place does not depend on the rows of the queue.
LEMMA PlacedElsewhere ==
    ASSUME NEW t, Typed(t), NEW s, Typed(s), Elsewhere(s, t, Queue), NEW a \in Amps, Placed(a, t)
    PROVE  Placed(a, s)
<1>1. a.list \in AllLists /\ (a.fbList # NoList => a.fbList \in Lists)
  BY DEF Amps, AllLists
<1>2. \A q \in AllLists \ {Queue} : InList(s, q) = InList(t, q)
  BY DEF Elsewhere, SameList
<1>3. Back(a, s)
  BY <1>1, <1>2, VoteQueueAssumption DEF Placed, Back, VoteQueueAssumption, AllLists
<1>4. ASSUME a.row \in DOMAIN s PROVE s[a.row].pl = a.list
  <2>1. s[a.row].pl \in AllLists
    BY <1>4, RowTyped
  <2>2. CASE s[a.row].pl = Queue
    <3>1. CASE a.list = Queue
      BY <2>2, <3>1
    <3>2. CASE a.list # Queue
      <4>1. a.row \in InList(t, a.list)
        <5>1. a.row # NoRow
          BY <1>4, NoRowNowhere
        <5> QED BY <3>2, <5>1 DEF Placed, InList
      <4>2. a.row \in InList(s, a.list)
        BY <1>1, <1>2, <3>2, <4>1
      <4> QED BY <4>2 DEF InList
    <3> QED BY <3>1, <3>2
  <2>3. CASE s[a.row].pl # Queue
    <3>1. a.row \in InList(t, s[a.row].pl)
      BY <1>2, <1>4, <2>1, <2>3 DEF InList
    <3> QED BY <3>1 DEF Placed, InList
  <2> QED BY <2>2, <2>3
<1>5. ASSUME a.list # Queue, a.row \notin DOMAIN s PROVE a.row = NoRow
  <2>1. a.row \notin InList(t, a.list)
    BY <1>1, <1>2, <1>5 DEF InList
  <2> QED BY <1>5, <2>1 DEF Placed, InList
<1> QED BY <1>3, <1>4, <1>5 DEF Placed

\* The end of change_track, by cases.
LEMMA PlayNbrCases ==
    ASSUME NEW t, NEW a, NEW p, NEW n, NEW K, NEW m, m = IF n < 0 THEN 0 ELSE n
    PROVE  \/ /\ TrackNbr(t, p, m) = {}
              /\ PlayNbr(a, t, p, n, K) = Done([SetState(a, "null") EXCEPT !.row = NoRow], t, K)
           \/ \E i \in TrackNbr(t, p, m) :
                 PlayNbr(a, t, p, n, K) =
                    Done(StartTrack(SetState([a EXCEPT !.row = i], "null"), t[i].track), t, K)
<1> DEFINE i == CHOOSE i \in TrackNbr(t, p, m) : TRUE
<1>1. TrackNbr(t, p, m) # {} => i \in TrackNbr(t, p, m)
  OBVIOUS
<1>2. PlayNbr(a, t, p, n, K) =
        IF TrackNbr(t, p, m) = {} THEN Done([SetState(a, "null") EXCEPT !.row = NoRow], t, K)
        ELSE Done(StartTrack(SetState([a EXCEPT !.row = i], "null"), t[i].track), t, K)
  BY DEF PlayNbr
<1> HIDE DEF i
<1> QED BY <1>1, <1>2

LEMMA PlayNbrPlace ==
    ASSUME NEW t, Typed(t), NEW a, AmpSound(a), NEW p, NEW n, NEW K, NEW m,
           m = IF n < 0 THEN 0 ELSE n
    PROVE  LET b == PlayNbr(a, t, p, n, K).amp
           IN /\ b.list = a.list /\ b.fbList = a.fbList /\ b.fbRow = a.fbRow
              /\ b.row = NoRow \/ b.row \in TrackNbr(t, p, m)
<1> SUFFICES ASSUME NEW r, r = PlayNbr(a, t, p, n, K)
             PROVE  /\ r.amp.list = a.list /\ r.amp.fbList = a.fbList /\ r.amp.fbRow = a.fbRow
                    /\ r.amp.row = NoRow \/ r.amp.row \in TrackNbr(t, p, m)
  OBVIOUS
<1>1. CASE r = Done([SetState(a, "null") EXCEPT !.row = NoRow], t, K)
  <2> DEFINE b == SetState(a, "null")
             c == [b EXCEPT !.row = NoRow]
  <2>1. SamePlace(b, a) /\ b \in Amps
    BY SetStatePlace, StartTrackPlace, FlagsPlace, SetStateSound DEF AmpSound, Targets
  <2>2. r.amp = c
    BY <1>1, DoneFields
  <2> HIDE DEF b
  <2>3. c.row = NoRow /\ c.list = b.list /\ c.fbList = b.fbList /\ c.fbRow = b.fbRow
    BY <2>1 DEF Amps
  <2> QED BY <2>1, <2>2, <2>3 DEF SamePlace
<1>2. ASSUME NEW i \in TrackNbr(t, p, m),
             r = Done(StartTrack(SetState([a EXCEPT !.row = i], "null"), t[i].track), t, K)
      PROVE  /\ r.amp.list = a.list /\ r.amp.fbList = a.fbList /\ r.amp.fbRow = a.fbRow
             /\ r.amp.row = i
  <2> DEFINE b == [a EXCEPT !.row = i]
             c == SetState(b, "null")
             d == StartTrack(c, t[i].track)
  <2>1. i \in Nat /\ a \in Amps
    BY NbrRow DEF AmpSound
  <2>2. /\ AmpSound(b) /\ b.row = i
        /\ b.list = a.list /\ b.fbList = a.fbList /\ b.fbRow = a.fbRow
    BY <2>1, PlaceSound, Names DEF Amps
  <2> HIDE DEF b
  <2>3. AmpSound(c) /\ SamePlace(c, b)
    BY <2>2, SetStatePlace, StartTrackPlace, FlagsPlace, SetStateSound DEF AmpSound, Targets
  <2> HIDE DEF c
  <2>4. SamePlace(d, c)
    BY <2>3, NbrRow, StartTrackPlace DEF AmpSound
  <2> HIDE DEF d
  <2>5. r.amp = d
    BY <1>2, DoneFields DEF b, c, d
  <2> QED BY <2>2, <2>3, <2>4, <2>5 DEF SamePlace
<1>3. \/ PlayNbr(a, t, p, n, K) = Done([SetState(a, "null") EXCEPT !.row = NoRow], t, K)
      \/ \E i \in TrackNbr(t, p, m) :
            PlayNbr(a, t, p, n, K) =
               Done(StartTrack(SetState([a EXCEPT !.row = i], "null"), t[i].track), t, K)
  BY PlayNbrCases
<1> QED BY <1>1, <1>2, <1>3

LEMMA PlayNbrPlaced ==
    ASSUME NEW t, Typed(t), NEW a, AmpSound(a), Back(a, t), NEW n, NEW K
    PROVE  Placed(PlayNbr(a, t, a.list, n, K).amp, t)
<1> DEFINE m == IF n < 0 THEN 0 ELSE n
<1> SUFFICES ASSUME NEW b, b = PlayNbr(a, t, a.list, n, K).amp PROVE Placed(b, t)
  OBVIOUS
<1>1. /\ b.list = a.list /\ b.fbList = a.fbList /\ b.fbRow = a.fbRow
      /\ b.row = NoRow \/ b.row \in TrackNbr(t, a.list, m)
  BY PlayNbrPlace
<1> HIDE DEF m
<1>2. b.row \in TrackNbr(t, a.list, m) => b.row \in DOMAIN t /\ t[b.row].pl = a.list
  BY NbrRow
<1> QED BY <1>1, <1>2, NoRowNowhere DEF Placed, Back

\* Nothing happened.
LEMMA ElsewhereSelf == ASSUME NEW t PROVE Elsewhere(t, t, Queue)
BY DEF Elsewhere, SameList

\* The row to go back to is not one of the queue.
LEMMA BackElsewhere ==
    ASSUME NEW t, NEW s, Elsewhere(s, t, Queue), NEW a \in Amps, Back(a, t)
    PROVE  Back(a, s)
<1>1. a.fbList # NoList => a.fbList \in Lists
  BY DEF Amps
<1> QED BY <1>1, VoteQueueAssumption DEF Back, Elsewhere, SameList, VoteQueueAssumption, AllLists

\* What a listener's call makes of table t: only the queue differs, the playlists are
\* in order, and the amp has its place.
InPlace(r, t) ==
    /\ IsCall(r)
    /\ AmpSound(r.amp)
    /\ Placed(r.amp, r.rows)
    /\ Typed(r.rows) /\ Ordered(r.rows)
    /\ Elsewhere(r.rows, t, Queue)

LEMMA DoneInPlace ==
    ASSUME NEW t, NEW s, Typed(s), Ordered(s), Elsewhere(s, t, Queue),
           NEW a, AmpSound(a), Placed(a, s), NEW K
    PROVE  InPlace(Done(a, s, K), t) /\ InPlace(Raised(a, s, K), t)
BY DoneFields DEF InPlace

LEMMA PlayNbrInPlace ==
    ASSUME NEW t, NEW s, Typed(s), Ordered(s), Elsewhere(s, t, Queue),
           NEW a, AmpSound(a), Back(a, s), NEW n, NEW K
    PROVE  InPlace(PlayNbr(a, s, a.list, n, K), t)
<1> SUFFICES ASSUME NEW r, r = PlayNbr(a, s, a.list, n, K) PROVE InPlace(r, t)
  OBVIOUS
<1>1. AmpSound(r.amp) /\ r.rows = s /\ IsCall(r) /\ Placed(r.amp, s)
  BY PlayNbrSound, PlayNbrPlaced
<1> QED BY <1>1 DEF InPlace

\* A new active row or playlist leaves the rest of the place alone.
LEMMA PlaceFields ==
    ASSUME NEW a \in Amps, NEW p \in AllLists, NEW i \in Nat \cup {NoRow}
    PROVE  /\ [a EXCEPT !.row = i].row = i /\ [a EXCEPT !.row = i].list = a.list
           /\ [a EXCEPT !.row = i].fbList = a.fbList /\ [a EXCEPT !.row = i].fbRow = a.fbRow
           /\ [a EXCEPT !.list = p].row = a.row /\ [a EXCEPT !.list = p].list = p
           /\ [a EXCEPT !.list = p].fbList = a.fbList /\ [a EXCEPT !.list = p].fbRow = a.fbRow
           /\ [a EXCEPT !.list = p, !.row = i].row = i /\ [a EXCEPT !.list = p, !.row = i].list = p
           /\ [a EXCEPT !.list = p, !.row = i].fbList = a.fbList
           /\ [a EXCEPT !.list = p, !.row = i].fbRow = a.fbRow
BY DEF Amps

LEMMA FallBackInPlace ==
    ASSUME NEW t, NEW s, Typed(s), Ordered(s), Elsewhere(s, t, Queue),
           NEW a, AmpSound(a), Placed(a, s), NEW K
    PROVE  InPlace(FallBack(a, s, K), t)
<1> DEFINE b == [a EXCEPT !.list = a.fbList, !.row = a.fbRow]
<1>1. a \in Amps
  BY DEF AmpSound
<1>2. CASE a.fbList = NoList
  <2>1. FallBack(a, s, K) = Done(SetState(a, "null"), s, K)
    BY <1>2 DEF FallBack
  <2>2. AmpSound(SetState(a, "null")) /\ Placed(SetState(a, "null"), s)
    BY <1>1, SetStateSound, SetStatePlace, StartTrackPlace, FlagsPlace, SamePlaced DEF Targets
  <2> QED BY <2>1, <2>2, DoneInPlace
<1>3. CASE a.fbList # NoList
  <2>1. a.fbList \in AllLists /\ a.fbRow \in Nat \cup {NoRow}
    BY <1>1, <1>3 DEF Amps, AllLists
  <2>2. /\ AmpSound(b) /\ b.list = a.fbList /\ b.row = a.fbRow
        /\ b.fbList = a.fbList /\ b.fbRow = a.fbRow
    <3>1. AmpSound(b)
      BY <2>1, PlaceSound
    <3> QED BY <1>1, <2>1, <3>1, PlaceFields
  <2>3. \/ FallBack(a, s, K) = Raised(b, s, K)
        \/ FallBack(a, s, K) = Done(SetState(b, "null"), s, K)
        \/ FallBack(a, s, K) = PlayNbr(b, s, b.list, s[b.row].pos, K)
    BY <1>3 DEF FallBack
  <2> HIDE DEF b
  <2>4. Placed(b, s)
    BY <1>3, <2>2, NoRowNowhere DEF Placed, Back, InList
  <2>5. AmpSound(SetState(b, "null")) /\ Placed(SetState(b, "null"), s)
    BY <2>2, <2>4, SetStateSound, SetStatePlace, StartTrackPlace, FlagsPlace, SamePlaced DEF Targets, AmpSound
  <2>6. Back(b, s)
    BY <2>4 DEF Placed
  <2> QED BY <2>2, <2>3, <2>4, <2>5, <2>6, DoneInPlace, PlayNbrInPlace
<1> QED BY <1>2, <1>3

\* The active row of the queue is a row of the queue, so that removing it through the
\* queue touches nothing else.
LEMMA RestInPlace ==
    ASSUME NEW t, Typed(t), Ordered(t), NEW a, AmpSound(a), Placed(a, t),
           a.list = Queue, a.row \in DOMAIN t, NEW s, s = RemoveRow(t, Queue, a.row)
    PROVE  /\ Typed(s) /\ Ordered(s) /\ Elsewhere(s, t, Queue)
           /\ Placed(a, s) /\ a.row \notin DOMAIN s
<1>1. a.row \in InList(t, Queue)
  BY DEF Placed, InList
<1>2. Typed(s) /\ Ordered(s) /\ Elsewhere(s, t, Queue) /\ WithoutRow(s, t, Queue, a.row)
  BY <1>1, RemoveRowKeeps, Names
<1>3. Placed(a, s)
  BY <1>2, PlacedElsewhere DEF AmpSound
<1> QED BY <1>2, <1>3 DEF WithoutRow

LEMMA NextInQueueInPlace ==
    ASSUME NEW t, Typed(t), Ordered(t), NEW a, AmpSound(a), Placed(a, t),
           a.list = Queue, a.row \in DOMAIN t
    PROVE  InPlace(NextInQueue(a, t), t)
<1> DEFINE s == RemoveRow(t, Queue, a.row)
           K == {t[a.row].track}
<1>1. Typed(s) /\ Ordered(s) /\ Elsewhere(s, t, Queue) /\ Placed(a, s)
  BY RestInPlace
<1>2. NextInQueue(a, t) = FallBack(a, s, K) \/ NextInQueue(a, t) = PlayNbr(a, s, a.list, 0, K)
  BY DEF NextInQueue
<1> HIDE DEF s, K
<1>3. Back(a, s)
  BY <1>1 DEF Placed
<1> QED BY <1>1, <1>2, <1>3, FallBackInPlace, PlayNbrInPlace

LEMMA EnterQueueInPlace ==
    ASSUME NEW t, Typed(t), Ordered(t), NEW a, AmpSound(a), Placed(a, t), a.list # Queue
    PROVE  InPlace(EnterQueue(a, t), t)
<1> DEFINE b == [a EXCEPT !.list = Queue, !.fbList = a.list, !.fbRow = a.row]
<1>1. AmpSound(b)
  BY FallBackPlaceSound DEF AmpSound, Amps
<1>2. EnterQueue(a, t) = PlayNbr(b, t, Queue, 0, {})
  BY DEF EnterQueue
<1>3. b.list = Queue /\ b.fbList = a.list /\ b.fbRow = a.row
  BY DEF AmpSound, Amps
<1> HIDE DEF b
<1>4. Back(b, t)
  BY <1>3 DEF Placed, Back, InList
<1> QED BY <1>1, <1>2, <1>3, <1>4, ElsewhereSelf, PlayNbrInPlace

LEMMA ChangeRelativeInPlace ==
    ASSUME playlists = Lists, NEW t, Typed(t), Ordered(t),
           NEW a0, AmpSound(a0), Placed(a0, t), NEW n \in {1, -1}
    PROVE  InPlace(ChangeRelative(a0, t, n), t)
<1> DEFINE a == Status(a0, t, playlists)
<1> SUFFICES ASSUME NEW r, r = ChangeRelative(a0, t, n) PROVE InPlace(r, t)
  OBVIOUS
<1>1. AmpSound(a) /\ Placed(a, t)
  BY StatusSound, StatusFetches, FetchTrackPlaced DEF AmpSound
<1>2. Found(a, t) => a.row \in DOMAIN t
  BY FoundRow DEF AmpSound
<1>3. \/ Found(a, t) /\ a.list = Queue /\ r = NextInQueue(a, t)
      \/ r = Done(a, t, {})
      \/ a.list # Queue /\ r = EnterQueue(a, t)
      \/ r = PlayNbr(a, t, a.list, t[a.row].pos - 1 + n, {})
  <2> HIDE DEF a
  <2>1. ChangeRelative(a0, t, n) =
          CASE ~Found(a, t) -> Done(a, t, {})
            [] Found(a, t) /\ a.list = Queue /\ n = 1 -> NextInQueue(a, t)
            [] Found(a, t) /\ a.list = Queue /\ n = -1 -> Done(a, t, {})
            [] Found(a, t) /\ a.list # Queue /\ Length(t, Queue) > 0 -> EnterQueue(a, t)
            [] OTHER -> PlayNbr(a, t, a.list, t[a.row].pos - 1 + n, {})
    BY DEF ChangeRelative, a
  <2> QED BY <2>1
<1> HIDE DEF a
<1>4. Back(a, t)
  BY <1>1 DEF Placed
<1> QED BY <1>1, <1>2, <1>3, <1>4, ElsewhereSelf, DoneInPlace, NextInQueueInPlace,
           EnterQueueInPlace, PlayNbrInPlace

\* A listener plays a row that it sees in the playlist, p being the active one by now.
LEMMA ChangeAbsoluteInPlace ==
    ASSUME playlists = Lists, NEW t, Typed(t), Ordered(t),
           NEW a0, AmpSound(a0), Back(a0, t), NEW i \in InList(t, a0.list)
    PROVE  InPlace(ChangeAbsolute(a0, t, i), t)
<1> DEFINE a == Status(a0, t, playlists)
           b == [a EXCEPT !.row = i]
           v == MoveTrack(t, Queue, i, 1)
<1> SUFFICES ASSUME NEW r, r = ChangeAbsolute(a0, t, i) PROVE InPlace(r, t)
  OBVIOUS
<1>1. AmpSound(a) /\ a.list = a0.list /\ a.fbList = a0.fbList /\ a.fbRow = a0.fbRow
  BY StatusSound, StatusFetches, FetchTrackPlace DEF AmpSound
<1>2. i \in Nat /\ i \in DOMAIN t
  BY RowTyped DEF InList
<1>3. AmpSound(b) /\ b.list = a0.list /\ b.fbList = a0.fbList /\ b.fbRow = a0.fbRow
  <2> HIDE DEF a
  <2>1. AmpSound(b)
    BY <1>1, <1>2, PlaceSound, Names
  <2>2. a \in Amps
    BY <1>1 DEF AmpSound
  <2>3. b.list = a.list /\ b.fbList = a.fbList /\ b.fbRow = a.fbRow
    BY <1>2, <2>2, PlaceFields, Names
  <2> QED BY <1>1, <2>1, <2>3
<1>4. ASSUME a.list = Queue PROVE CanMove(t, Queue, i, 1)
  <2>1. i \in InList(t, Queue)
    BY <1>1, <1>4
  <2>2. t[i].pos \in 1 .. Length(t, Queue) /\ Length(t, Queue) = MaxPos(t, Queue)
    BY <2>1, NbrInOrder, Names DEF Typed, Ordered
  <2>3. MaxPos(t, Queue) \in Nat
    BY MaxPosType DEF Typed
  <2>4. 1 \in 1 .. MaxPos(t, Queue)
    BY <2>2, <2>3
  <2> QED BY <2>1, <2>4 DEF CanMove
<1>5. \/ a.list = Queue /\ r = PlayNbr(b, v, b.list, 0, {})
      \/ r = PlayNbr(a, t, a.list, t[i].pos - 1, {})
  <2> HIDE DEF a, v
  <2>1. ChangeAbsolute(a0, t, i) =
          CASE a.list = Queue /\ ~CanMove(t, Queue, i, 1) -> Raised(b, t, {})
            [] a.list = Queue /\ CanMove(t, Queue, i, 1) -> PlayNbr(b, v, Queue, 0, {})
            [] a.list # Queue /\ i \in DOMAIN t -> PlayNbr(a, t, a.list, t[i].pos - 1, {})
            [] OTHER -> Done(a, t, {})
    BY DEF ChangeAbsolute, a, v
  <2> HIDE DEF b
  <2> QED BY <2>1, <1>1, <1>2, <1>3, <1>4
<1> HIDE DEF a, b
<1>6. Back(a, t) /\ Back(b, t)
  BY <1>1, <1>3 DEF Back
<1>7. CASE a.list = Queue /\ r = PlayNbr(b, v, b.list, 0, {})
  <2>1. Queue \in AllLists /\ 1 \in Nat /\ i \in InList(t, Queue) /\ CanMove(t, Queue, i, 1)
    BY <1>1, <1>4, <1>7, Names
  <2>2. Typed(v) /\ Ordered(v) /\ Elsewhere(v, t, Queue)
    BY <2>1, MoveKeeps
  <2> HIDE DEF v
  <2>3. Back(b, v)
    BY <1>3, <1>6, <2>2, BackElsewhere DEF AmpSound
  <2> QED BY <1>3, <1>7, <2>2, <2>3, PlayNbrInPlace
<1>8. CASE r = PlayNbr(a, t, a.list, t[i].pos - 1, {})
  BY <1>1, <1>6, <1>8, ElsewhereSelf, PlayNbrInPlace
<1> QED BY <1>5, <1>7, <1>8

LEMMA PlayTrackInPlace ==
    ASSUME playlists = Lists, NEW t, Typed(t), Ordered(t),
           NEW a, AmpSound(a), Placed(a, t), NEW p \in {NoList} \cup AllLists,
           NEW i \in InList(t, IF p = NoList THEN Queue ELSE p)
    PROVE  InPlace(PlayTrack(a, t, p, i), t)
<1> DEFINE b == IF p = NoList /\ a.list # Queue
                THEN [a EXCEPT !.fbList = a.list, !.fbRow = a.row] ELSE a
           q == IF p = NoList THEN Queue ELSE p
           c == [b EXCEPT !.list = q]
<1>1. AmpSound(b)
  <2>1. CASE p = NoList /\ a.list # Queue
    <3>1. a.list \in Lists
      BY <2>1 DEF AmpSound, Amps
    <3> QED BY <2>1, <3>1, FallBackPlaceSound
  <2>2. CASE ~(p = NoList /\ a.list # Queue)
    BY <2>2
  <2> QED BY <2>1, <2>2
<1>2. q \in AllLists
  BY Names
<1>3. PlayTrack(a, t, p, i) = ChangeAbsolute(c, t, i)
  BY DEF PlayTrack
<1>4. \/ b = a
      \/ a.list # Queue /\ b.fbList = a.list /\ b.fbRow = a.row
  BY DEF AmpSound, Amps
<1> HIDE DEF b
<1>5. Back(b, t)
  BY <1>4 DEF Placed, Back, InList
<1>6. i \in InList(t, q)
  OBVIOUS
<1> HIDE DEF q
<1>7. AmpSound(c) /\ c.list = q /\ c.fbList = b.fbList /\ c.fbRow = b.fbRow
  <2>1. AmpSound(c)
    BY <1>1, <1>2, PlaceSound, Names
  <2>2. b \in Amps
    BY <1>1 DEF AmpSound
  <2> QED BY <1>2, <2>1, <2>2, PlaceFields, Names
<1> HIDE DEF c
<1>8. Back(c, t)
  BY <1>5, <1>7 DEF Back
<1> QED BY <1>3, <1>6, <1>7, <1>8, ChangeAbsoluteInPlace

LEMMA PushedPlaced ==
    ASSUME playlists = Lists, NEW t, Typed(t), NEW a, AmpSound(a), Placed(a, t)
    PROVE  Placed(Pushed(a, t, playlists), t)
<1> DEFINE b == Status(a, t, playlists)
<1>1. AmpSound(b) /\ Placed(b, t)
  BY StatusSound, StatusFetches, FetchTrackPlaced DEF AmpSound
<1>2. Pushed(a, t, playlists) = IF a.push THEN [b EXCEPT !.push = FALSE] ELSE a
  BY DEF Pushed
<1> HIDE DEF b
<1>3. Placed([b EXCEPT !.push = FALSE], t)
  BY <1>1, SetStatePlace, StartTrackPlace, FlagsPlace, SamePlaced DEF AmpSound, Targets
<1> QED BY <1>2, <1>3

LEMMA AnsweredInPlace ==
    ASSUME NEW t, NEW r, InPlace(r, t)
    PROVE  InPlace(Answered(r), t)
<1> DEFINE a == FetchTrack(r.amp, r.rows)
           s == [r EXCEPT !.amp = a]
<1>1. AmpSound(a) /\ Placed(a, r.rows)
  BY FetchTrackSound, FetchTrackPlaced DEF InPlace
<1>2. Answered(r) = r \/ Answered(r) = s
  BY DEF Answered
<1> HIDE DEF a
<1>3. IsCall(s) /\ s.amp = a /\ s.rows = r.rows
  BY DEF InPlace, IsCall
<1> HIDE DEF s
<1>4. InPlace(s, t)
  BY <1>1, <1>3 DEF InPlace
<1> QED BY <1>2, <1>4

\* What a listener's step does: the playlists stay as they are, the queue stays in
\* order, and the amp gets a place.
Listened ==
    /\ Ordered(rows')
    /\ OnlyOn(Queue)
    /\ Placed(amp', rows')
    /\ UNCHANGED playlists

\* The invariant of a listening session.
ListeningInv ==
    /\ AmpInv
    /\ playlists = Lists
    /\ Ordered(rows)
    /\ Placed(amp, rows)

LEMMA CommandListened ==
    ASSUME playlists = Lists, NEW r, InPlace(r, rows), Command(r)
    PROVE  Listened
<1>1. amp' = Pushed(r.amp, r.rows, playlists) /\ rows' = r.rows /\ UNCHANGED playlists
  BY DEF Command
<1>2. Placed(amp', rows')
  BY <1>1, PushedPlaced DEF InPlace
<1> QED BY <1>1, <1>2 DEF InPlace, Listened, OnlyOn

LEMMA NextListened ==
    ASSUME ListeningInv, NEW n \in {1, -1}, Command(Answered(ChangeRelative(amp, rows, n)))
    PROVE  Listened
<1>1. InPlace(ChangeRelative(amp, rows, n), rows)
  BY ChangeRelativeInPlace DEF ListeningInv, AmpInv, Safe
<1> QED BY <1>1, AnsweredInPlace, CommandListened DEF ListeningInv

LEMMA PlayTrackListened ==
    ASSUME ListeningInv, NEW p \in {NoList} \cup AllLists,
           NEW i \in InList(rows, IF p = NoList THEN Queue ELSE p), PlayTrackOf(p, i)
    PROVE  Listened
<1>1. InPlace(PlayTrack(amp, rows, p, i), rows)
  BY PlayTrackInPlace DEF ListeningInv, AmpInv, Safe
<1> QED BY <1>1, AnsweredInPlace, CommandListened DEF ListeningInv, PlayTrackOf

\* The commands that leave the rows alone.
LEMMA DoneListened ==
    ASSUME ListeningInv, NEW a, AmpSound(a), Placed(a, rows), Command(Done(a, rows, {}))
    PROVE  Listened
<1>1. InPlace(Done(a, rows, {}), rows)
  BY ElsewhereSelf, DoneInPlace DEF ListeningInv, AmpInv, Safe
<1> QED BY <1>1, CommandListened DEF ListeningInv

LEMMA PipelineListened ==
    ASSUME ListeningInv, Play \/ Pause \/ Stop \/ GetStatus \/ Seek
    PROVE  Listened
<1> USE DEF ListeningInv, AmpInv, Safe
<1> DEFINE a == Status(amp, rows, playlists)
           b == IF Found(a, rows) THEN SetState(a, "playing") ELSE a
           c == IF amp.src # NoSrc /\ amp.state # "null"
                THEN [amp EXCEPT !.ended = FALSE] ELSE amp
           d == IF Exists(c.list, playlists) THEN FetchTrack(c, rows) ELSE c
<1>0. amp \in Amps
  BY DEF AmpSound
<1>1. AmpSound(a) /\ Placed(a, rows)
  BY <1>0, StatusSound, StatusFetches, FetchTrackPlaced
<1>2. AmpSound(c) /\ Placed(c, rows)
  <2>1. AmpSound([amp EXCEPT !.ended = FALSE]) /\ SamePlace([amp EXCEPT !.ended = FALSE], amp)
    BY <1>0, FlagsSound, SetStatePlace, StartTrackPlace, FlagsPlace DEF Targets
  <2> QED BY <2>1, SamePlaced
<1>3. AmpSound(b) /\ Placed(b, rows)
  <2> HIDE DEF a
  <2>1. AmpSound(SetState(a, "playing")) /\ SamePlace(SetState(a, "playing"), a)
    BY <1>1, SetStateSound, SetStatePlace, StartTrackPlace, FlagsPlace DEF Targets, AmpSound
  <2> QED BY <1>1, <2>1, SamePlaced
<1>4. AmpSound(d) /\ Placed(d, rows)
  <2> HIDE DEF c
  <2> QED BY <1>2, FetchTrackSound, FetchTrackPlaced
<1>5. ASSUME NEW s \in Targets PROVE AmpSound(SetState(amp, s)) /\ Placed(SetState(amp, s), rows)
  BY <1>0, SetStateSound, SetStatePlace, StartTrackPlace, FlagsPlace, SamePlaced DEF Targets
<1>6. CASE Play
  <2>1. Command(Done(b, rows, {}))
    BY <1>6 DEF Play
  <2> HIDE DEF b
  <2> QED BY <2>1, <1>3, DoneListened
<1>7. CASE Pause \/ Stop
  <2>1. PICK s \in Targets : Command(Done(SetState(amp, s), rows, {}))
    BY <1>7 DEF Pause, Stop, Targets
  <2> QED BY <2>1, <1>5, DoneListened
<1>8. CASE GetStatus
  <2>1. Command(Done(a, rows, {}))
    BY <1>8 DEF GetStatus
  <2> HIDE DEF a
  <2> QED BY <2>1, <1>1, DoneListened
<1>9. CASE Seek
  <2>1. Command(Done(d, rows, {}))
    BY <1>9 DEF Seek
  <2> HIDE DEF d
  <2> QED BY <2>1, <1>4, DoneListened
<1> QED BY <1>6, <1>7, <1>8, <1>9

LEMMA AlbumLength == ASSUME NEW ks \in Albums PROVE Len(ks) \in Nat /\ Len(ks) >= 1
BY DEF Albums

\* The tracks that are queued and played at once are rows of the queue when they are
\* played.
LEMMA QueuedAndPlayed ==
    ASSUME ListeningInv, NEW ks \in Albums,
           NEW t, t = AddTracks(rows, Queue, ks, 1),
           NEW r, r = PlayTrack(amp, t, Queue, NewId(rows))
    PROVE  /\ Typed(t) /\ Ordered(t) /\ Elsewhere(t, rows, Queue) /\ Placed(amp, t)
           /\ NewId(rows) \in InList(t, Queue) /\ NewId(rows) \notin DOMAIN rows
           /\ DOMAIN rows \subseteq DOMAIN t
           /\ InPlace(r, t) /\ SameRows(r.rows, t) /\ Elsewhere(r.rows, rows, Queue)
           /\ InList(rows, Queue) \subseteq InList(r.rows, Queue)
<1> USE DEF ListeningInv, AmpInv, Safe
<1>1. /\ Typed(t) /\ Ordered(t) /\ Elsewhere(t, rows, Queue)
      /\ WithTracks(t, rows, Queue, Len(ks), AddPosition(rows, Queue, 1))
  <2>1. ks \in Seq(Tracks) /\ 1 \in Int \ {0}
    BY AlbumsAreSequences
  <2> QED BY <2>1, Names, AddTracksKeeps
<1>2. NewId(rows) \in Nat /\ NewId(rows) \notin DOMAIN rows
  <2>1. NewId(rows) \in Nat /\ \A i \in DOMAIN rows : i < NewId(rows)
    BY NewIdFresh DEF Typed
  <2> QED BY <2>1
<1>3. NewId(rows) \in InList(t, Queue)
  <2>1. Len(ks) \in Nat /\ Len(ks) >= 1
    BY AlbumLength
  <2>2. NewId(rows) \in NewId(rows) .. NewId(rows) + Len(ks) - 1
    BY <1>2, <2>1
  <2> QED BY <1>1, <2>2 DEF WithTracks, InList
<1>4. Placed(amp, t)
  BY <1>1, PlacedElsewhere DEF AmpSound
<1>5. InPlace(r, t)
  <2>1. Queue # NoList /\ Queue \in AllLists
    BY Names
  <2> QED BY <1>1, <1>3, <1>4, <2>1, PlayTrackInPlace
<1>6. SameRows(r.rows, t)
  <2>1. Moving(r, t)
    BY <1>1, <1>2, PlayTrackSound, Names
  <2> QED BY <1>1, <2>1, MovingTable
<1>7. Elsewhere(r.rows, rows, Queue)
  BY <1>1, <1>5, ElsewhereTwice DEF InPlace
<1>8. DOMAIN rows \subseteq DOMAIN t
  BY <1>1 DEF WithTracks
<1>9. InList(rows, Queue) \subseteq InList(r.rows, Queue)
  BY <1>1, <1>6 DEF SameRows, WithTracks, InList
<1> QED BY <1>1, <1>2, <1>3, <1>4, <1>5, <1>6, <1>7, <1>8, <1>9

LEMMA QueueAndPlayListened ==
    ASSUME ListeningInv, NEW ks \in Albums, QueueAndPlay(ks)
    PROVE  Listened
<1> DEFINE onTop == IF amp.list = Queue /\ amp.state = "playing"
                    THEN TrackNbr(rows, Queue, 0) ELSE {}
<1> SUFFICES ASSUME NEW t, t = AddTracks(rows, Queue, ks, 1),
                    NEW r, r = PlayTrack(amp, t, Queue, NewId(rows)),
                    IF onTop = {} THEN Command([r EXCEPT !.amp = [r.amp EXCEPT !.push = TRUE]])
                    ELSE LET i == CHOOSE i \in onTop : TRUE
                         IN Command(Done([r.amp EXCEPT !.push = TRUE],
                                         RemoveRow(r.rows, Queue, i), {rows[i].track}))
             PROVE  Listened
  BY DEF QueueAndPlay
<1>4. /\ InPlace(r, t) /\ SameRows(r.rows, t) /\ Elsewhere(r.rows, rows, Queue)
      /\ InList(rows, Queue) \subseteq InList(r.rows, Queue)
  BY QueuedAndPlayed
<1> USE DEF ListeningInv, AmpInv, Safe
<1> DEFINE asked == [r.amp EXCEPT !.push = TRUE]
<1>6. AmpSound(asked) /\ Placed(asked, r.rows)
  <2>1. AmpSound(r.amp) /\ Placed(r.amp, r.rows)
    BY <1>4 DEF InPlace
  <2>2. SamePlace(asked, r.amp)
    BY <2>1 DEF SamePlace, AmpSound, Amps
  <2>3. AmpSound(asked)
    BY <2>1, FlagsSound
  <2> HIDE DEF asked
  <2>4. Placed(asked, r.rows)
    BY <2>1, <2>2, SamePlaced
  <2> QED BY <2>3, <2>4
<1>7. CASE onTop = {}
  <2> DEFINE s == [r EXCEPT !.amp = asked]
  <2>1. Command(s)
    BY <1>7
  <2> HIDE DEF asked
  <2>2. IsCall(s) /\ s.amp = asked /\ s.rows = r.rows
    BY <1>4 DEF InPlace, IsCall
  <2> HIDE DEF s
  <2>3. InPlace(s, rows)
    BY <1>4, <1>6, <2>2 DEF InPlace
  <2> QED BY <2>1, <2>3, CommandListened
<1>8. CASE onTop # {}
  <2> DEFINE i == CHOOSE i \in onTop : TRUE
             v == RemoveRow(r.rows, Queue, i)
             s == Done(asked, v, {rows[i].track})
  <2>1. i \in onTop
    BY <1>8
  <2>2. Command(s)
    BY <1>8
  <2> HIDE DEF i, asked
  <2>3. i \in InList(rows, Queue)
    BY <2>1, NbrRow
  <2>4. i \in InList(r.rows, Queue) /\ i \in DOMAIN r.rows
    BY <2>3, <1>4 DEF InList
  <2>5. Typed(v) /\ Ordered(v) /\ Elsewhere(v, r.rows, Queue)
    BY <2>4, <1>4, RemoveRowKeeps, Names DEF InPlace
  <2> HIDE DEF v
  <2>6. Placed(asked, v)
    BY <2>5, <1>4, <1>6, PlacedElsewhere DEF InPlace, AmpSound
  <2>7. Elsewhere(v, rows, Queue)
    BY <2>5, <1>4, ElsewhereTwice
  <2>8. InPlace(s, rows)
    BY <2>5, <2>6, <2>7, <1>6, DoneInPlace
  <2> HIDE DEF s
  <2> QED BY <2>2, <2>8, CommandListened
<1> QED BY <1>7, <1>8

\* Voting and queueing.
LEMMA QueueingListened ==
    ASSUME ListeningInv, Queueing
    PROVE  Listened
<1> USE DEF ListeningInv, AmpInv
<1>1. Kept /\ OnlyOn(Queue) /\ UNCHANGED playlists
      /\ amp' = Pushed([amp EXCEPT !.push = TRUE], rows', playlists')
  <2>1. ASSUME NEW u \in Users, NEW k \in Tracks, AddVote(u, k)
        PROVE  Kept /\ OnlyOn(Queue) /\ UNCHANGED playlists
    BY <2>1, AddVoteStep DEF AddVote
  <2>2. ASSUME NEW ks \in Albums, QueueTracks(ks)
        PROVE  Kept /\ OnlyOn(Queue) /\ UNCHANGED playlists
    BY <2>2, AddTracksStep, Names DEF QueueTracks
  <2> QED BY <2>1, <2>2 DEF Queueing, Asking
<1> DEFINE b == [amp EXCEPT !.push = TRUE]
<1>2. AmpSound(b) /\ Placed(b, rows)
  <2>1. SamePlace(b, amp)
    BY SetStatePlace, StartTrackPlace, FlagsPlace DEF AmpSound, Targets
  <2> QED BY <2>1, FlagsSound, SamePlaced
<1>3. Typed(rows') /\ Ordered(rows') /\ Elsewhere(rows', rows, Queue) /\ Typed(rows)
  BY <1>1 DEF Kept, Sound, Safe, OnlyOn
<1> HIDE DEF b
<1>4. Placed(b, rows')
  BY <1>2, <1>3, PlacedElsewhere DEF AmpSound
<1>5. Placed(Pushed(b, rows', playlists), rows')
  BY <1>2, <1>3, <1>4, PushedPlaced
<1>6. amp' = Pushed(b, rows', playlists)
  BY <1>1 DEF b
<1> QED BY <1>1, <1>3, <1>5, <1>6 DEF Listened

LEMMA EndOfStreamListened ==
    ASSUME ListeningInv, EndOfStream
    PROVE  Listened
<1> USE DEF ListeningInv, AmpInv
<1> DEFINE a == [amp EXCEPT !.ended = TRUE]
           r == ChangeRelative(a, rows, 1)
<1>1. AmpSound(a) /\ Placed(a, rows)
  <2>1. SamePlace(a, amp)
    BY SetStatePlace, StartTrackPlace, FlagsPlace DEF AmpSound, Targets
  <2> QED BY <2>1, FlagsSound, SamePlaced
<1>2. amp' = [r.amp EXCEPT !.push = @ \/ r.ok] /\ rows' = r.rows /\ UNCHANGED playlists
  BY DEF EndOfStream
<1> HIDE DEF a
<1>3. InPlace(r, rows)
  BY <1>1, ChangeRelativeInPlace DEF Safe
<1> HIDE DEF r
<1>4. SamePlace(amp', r.amp)
  BY <1>2, <1>3 DEF InPlace, AmpSound, Amps, SamePlace
<1> QED BY <1>2, <1>3, <1>4, SamePlaced DEF InPlace, Listened, OnlyOn

LEMMA ListeningStep ==
    ASSUME ListeningInv, PlaylistPlay \/ QueuePlay \/ Queueing
    PROVE  Listened
<1> USE DEF ListeningInv, AmpInv
<1>1. CASE PlaylistPlay
  <2>1. CASE NextTrack \/ PreviousTrack
    BY <2>1, NextListened DEF NextTrack, PreviousTrack
  <2>2. CASE Play \/ Pause \/ Stop \/ GetStatus \/ Seek
    BY <2>2, PipelineListened
  <2>3. CASE EndOfStream
    BY <2>3, EndOfStreamListened
  <2>4. CASE PlayTokenLost
    <3>1. amp' = SetState(amp, "paused") /\ UNCHANGED <<rows, playlists>>
      BY <2>4 DEF PlayTokenLost
    <3>2. SamePlace(amp', amp)
      BY <3>1, SetStatePlace, StartTrackPlace, FlagsPlace DEF AmpSound, Targets
    <3> QED BY <3>1, <3>2, SamePlaced, ElsewhereSelf DEF Listened, OnlyOn
  <2>5. ASSUME NEW p \in playlists, NEW i \in InList(rows, p), PlayTrackOf(p, i)
        PROVE  Listened
    <3>1. p \in AllLists /\ p # NoList
      BY Names DEF AllLists
    <3> QED BY <2>5, <3>1, PlayTrackListened
  <2> QED BY <1>1, <2>1, <2>2, <2>3, <2>4, <2>5 DEF PlaylistPlay
<1>2. CASE QueuePlay
  BY <1>2, QueueAndPlayListened, PlayTrackListened DEF QueuePlay
<1>3. CASE Queueing
  BY <1>3, QueueingListened
<1> QED BY <1>1, <1>2, <1>3

LEMMA ListeningStutter ==
    ASSUME ListeningInv, UNCHANGED ampVars
    PROVE  Listened
BY ElsewhereSelf DEF ListeningInv, ampVars, Listened, OnlyOn

\* The tracks of the session are a playlist in order, the queue is empty.
LEMMA ListeningStart ==
    ASSUME VoteQueueAssumption, AmpAssumption, ListeningInit
    PROVE  ListeningInv
<1> DEFINE p == CHOOSE p \in Lists : TRUE
           n == Len(Saved)
<1>1. n \in Nat /\ \A i \in 1 .. n : Saved[i] \in Tracks
  BY DEF AmpAssumption
<1>2. n # 0 => p \in Lists
  BY DEF AmpAssumption
<1>3. rows = [i \in 1 .. n |-> [pl |-> p, track |-> Saved[i], pos |-> i, votes |-> 0]]
  BY DEF ListeningInit
<1> HIDE DEF p, n
<1>4. IsFiniteSet(DOMAIN rows)
  BY <1>1, <1>3, FS_Interval
<1>5. DOMAIN rows \in SUBSET (Nat \ {0})
  BY <1>1, <1>3
<1>6. \A i \in DOMAIN rows : rows[i] \in [pl : AllLists, track : Tracks, pos : Nat, votes : Int]
  BY <1>1, <1>2, <1>3 DEF AllLists
<1>7. rows = [i \in DOMAIN rows |-> rows[i]]
  BY <1>3
<1>8. Typed(rows)
  BY <1>4, <1>5, <1>6, <1>7 DEF Typed, IsTable
<1>9. \A i \in DOMAIN rows : rows[i].pl = p /\ rows[i].pos = i /\ i \in 1 .. n
  BY <1>3
<1>10. ASSUME NEW q \in AllLists PROVE InOrder(rows, q)
  <2>1. CASE q = p
    <3>1. InList(rows, q) = 1 .. n
      BY <1>3, <1>9, <2>1 DEF InList
    <3>2. IsOrder(rows, q, n)
      BY <1>9, <3>1 DEF IsOrder, InList
    <3> QED BY <1>1, <3>2 DEF InOrder
  <2>2. CASE q # p
    <3>1. InList(rows, q) = {}
      BY <1>9, <2>2 DEF InList
    <3>2. IsOrder(rows, q, 0)
      BY <3>1 DEF IsOrder
    <3> QED BY <3>2 DEF InOrder
  <2> QED BY <2>1, <2>2
<1>11. VotesInv /\ VotesAreQueued
  BY NoVotes DEF ListeningInit, VotesAreQueued
<1>12. Safe
  BY <1>8, <1>11 DEF Safe, ListeningInit
<1>13. Placed(amp, rows)
  <2>1. NoRow \notin DOMAIN rows
    BY <1>8, NoRowNowhere
  <2> QED BY <2>1 DEF ListeningInit, Silent, Placed, Back
<1> QED BY <1>10, <1>12, <1>13, SilentSound DEF ListeningInit, ListeningInv, AmpInv, Ordered

LEMMA ListeningNext ==
    ASSUME VoteQueueAssumption, ListeningInv, [PlaylistPlay \/ QueuePlay \/ Queueing]_ampVars
    PROVE  ListeningInv' /\ Listened
<1>1. AmpKept
  BY AmpStep, AmpStutter DEF ListeningInv, AmpNext
<1>2. Listened
  BY ListeningStep, ListeningStutter
<1> QED BY <1>1, <1>2 DEF ListeningInv, Listened, AmpKept, AmpInv, Sound, Safe

\* While listeners play and queue and nobody edits, the playlists and the queue are in
\* order and the active row is one of the active playlist.
THEOREM ListeningInvariance == ListeningSpec => []ListeningInv
<1>1. ListeningInit => ListeningInv
  BY VoteQueueAssumption, AmpAssumption, ListeningStart
<1>2. ListeningInv /\ [PlaylistPlay \/ QueuePlay \/ Queueing]_ampVars => ListeningInv'
  BY VoteQueueAssumption, ListeningNext
<1> QED BY <1>1, <1>2, PTL DEF ListeningSpec

\* The end of a stream takes no row from an ordinary playlist: the row that change_track
\* removes through the queue is a row of the queue.
THEOREM PlaylistsKept == ListeningSpec => EndKeepsPlaylists
<1>1. ListeningInv /\ [PlaylistPlay \/ QueuePlay \/ Queueing]_ampVars
        => [EndOfStream => \A p \in playlists : InList(rows', p) = InList(rows, p)]_ampVars
  <2> SUFFICES ASSUME ListeningInv, [PlaylistPlay \/ QueuePlay \/ Queueing]_ampVars,
                      NEW p \in playlists
               PROVE  InList(rows', p) = InList(rows, p)
    OBVIOUS
  <2>1. Listened
    BY VoteQueueAssumption, ListeningNext
  <2>2. p \in AllLists \ {Queue}
    BY VoteQueueAssumption DEF ListeningInv, VoteQueueAssumption, AllLists
  <2> QED BY <2>1, <2>2 DEF Listened, OnlyOn, Elsewhere, SameList
<1> QED BY <1>1, ListeningInvariance, PTL DEF ListeningSpec, EndKeepsPlaylists

-------------------------------------------------------------------------------
(* What plays.                                                                  *)

\* The spotify element that is past READY is in the pipeline, so that change_track stops
\* it; while fetch_active_track runs, a row is active too.
Handy(a) == a.up => a.src = Spot
Held(a) == a.up => a.src = Spot /\ a.row # NoRow

\* What set_state does to a pipeline that has a source.
LEMMA SetStateFields ==
    ASSUME NEW a \in Amps, NEW s \in Targets, NEW b, b = SetState(a, s)
    PROVE  /\ b.src = a.src /\ b.uri = a.uri /\ Loaded(b) = Loaded(a)
           /\ a.src = NoSrc => b = a
           /\ b.ended => a.ended
           /\ a.src # NoSrc /\ s = "null" =>
                b.state = "null" /\ ~b.ended /\ b.up = (a.up /\ a.src # Spot)
           /\ s # "null" => b.state \in {a.state, "ready", s}
           /\ a.src # NoSrc /\ s # "null" /\ Loaded(a) \notin Broken => b.state = s
           /\ a.src # NoSrc /\ s # "null" /\ Loaded(a) \in Broken => b.state \in {a.state, "ready"}
           /\ a.src # Spot => b.up = a.up
<1>1. CASE a.src = NoSrc /\ b = a
  BY <1>1, Names
<1>2. CASE /\ a.src # NoSrc /\ s # "null" /\ Loaded(a) \in Broken
           /\ b = [a EXCEPT !.state = IF a.state = "null" THEN "ready" ELSE a.state]
  <2>1. /\ b.src = a.src /\ b.uri = a.uri /\ b.ended = a.ended /\ b.up = a.up
        /\ b.state = IF a.state = "null" THEN "ready" ELSE a.state
    BY <1>2 DEF Amps
  <2> QED BY <1>2, <2>1 DEF Loaded
<1>3. CASE /\ a.src # NoSrc /\ (s = "null" \/ Loaded(a) \notin Broken)
           /\ b = [a EXCEPT !.state = s, !.up = IF a.src = Spot THEN s # "null" ELSE a.up,
                            !.ended = a.ended /\ s # "null"]
  <2> DEFINE u == IF a.src = Spot THEN s # "null" ELSE a.up
             e == a.ended /\ s # "null"
  <2>1. b = [a EXCEPT !.state = s, !.up = u, !.ended = e]
    BY <1>3
  <2>2. u \in BOOLEAN /\ a.up \in BOOLEAN /\ (e => a.ended /\ s # "null")
    BY DEF Amps
  <2>3. (s = "null" => u = (a.up /\ a.src # Spot)) /\ (a.src # Spot => u = a.up)
    BY <2>2
  <2> HIDE DEF u, e
  <2>4. b.src = a.src /\ b.uri = a.uri /\ b.state = s /\ b.up = u /\ b.ended = e
    BY <2>1 DEF Amps
  <2> QED BY <1>3, <2>2, <2>3, <2>4 DEF Loaded
<1> QED BY <1>1, <1>2, <1>3, SetStateCases

\* What start_track leaves in the pipeline.
LEMMA StartTrackFields ==
    ASSUME NEW a \in Amps, NEW k \in Tracks, NEW b, b = StartTrack(a, k)
    PROVE  /\ b.ended => a.ended
           /\ ~a.up /\ b.ended => k \in Unplayable
           /\ ~a.up => (b.up => b.src = Spot)
           /\ k \in Unplayable => b.src = NoSrc /\ b.state = a.state /\ b.up = a.up
           /\ k \notin Unplayable =>
                /\ b.src # NoSrc
                /\ ~a.up => Loaded(b) = k
                /\ ~a.up /\ k \notin Broken => b.state = "playing"
                /\ Loaded(b) \in Broken => b.state \in {a.state, "ready"}
<1>1. CASE k \notin Unplayable /\ b = SetState(Told(a, k), "playing")
  <2>1. PICK c : c = Told(a, k)
    OBVIOUS
  <2>2. /\ c \in Amps /\ c.src = (IF k \in Spotify THEN Spot ELSE k) /\ c.src # NoSrc
        /\ c.up = a.up /\ c.state = a.state
        /\ c.uri = (IF k \in Spotify /\ ~a.up THEN k ELSE a.uri)
        /\ (c.ended => a.ended /\ a.up /\ k \in Spotify)
    BY <2>1, ToldType
  <2>3. ~a.up => Loaded(c) = k
    <3>1. k \notin Spotify => c.src # Spot
      BY <2>2, Names
    <3> QED BY <2>2, <3>1 DEF Loaded
  <2>4. /\ b.src = c.src /\ Loaded(b) = Loaded(c) /\ (b.ended => c.ended)
        /\ Loaded(c) \notin Broken => b.state = "playing"
        /\ Loaded(c) \in Broken => b.state \in {c.state, "ready"}
        /\ c.src # Spot => b.up = c.up
    BY <1>1, <2>1, <2>2, SetStateFields DEF Targets
  <2> QED BY <1>1, <2>2, <2>3, <2>4
<1>2. CASE k \in Unplayable /\ b = [a EXCEPT !.src = NoSrc]
  BY <1>2 DEF Amps
<1> QED BY <1>1, <1>2, StartTrackCases

\* What fetch_active_track leaves in the pipeline: nothing changed, or no row, or the
\* first row of the playlist is there and does not play.
LEMMA FetchTrackPlays ==
    ASSUME NEW t, Typed(t), NEW a, AmpSound(a), NEW c, c = FetchTrack(a, t)
    PROVE  \/ c = a
           \/ c.row = NoRow /\ c = [a EXCEPT !.row = NoRow]
           \/ \E i \in TrackNbr(t, a.list, 0) :
                 /\ a.row = NoRow
                 /\ c.ended => a.ended
                 /\ c.state = "playing" => a.state = "playing"
                 /\ ~a.up => (c.up => c.src = Spot)
                 /\ \/ t[i].track \in Unplayable /\ c.row = NoRow
                    \/ /\ t[i].track \notin Unplayable /\ c.row = i
                       /\ c.src # NoSrc /\ (~a.up => Loaded(c) = t[i].track)
<1>1. a \in Amps
  BY DEF AmpSound
<1>2. CASE c = a
  BY <1>2
<1>3. CASE c = [a EXCEPT !.row = NoRow]
  BY <1>1, <1>3 DEF Amps
<1>4. ASSUME NEW i \in TrackNbr(t, a.list, 0), a.row = NoRow,
             c = LET started == StartTrack([a EXCEPT !.row = i], t[i].track)
                 IN IF t[i].track \in Unplayable THEN [started EXCEPT !.row = NoRow]
                    ELSE SetState(started, "paused")
      PROVE  /\ c.ended => a.ended
             /\ c.state = "playing" => a.state = "playing"
             /\ ~a.up => (c.up => c.src = Spot)
             /\ \/ t[i].track \in Unplayable /\ c.row = NoRow
                \/ /\ t[i].track \notin Unplayable /\ c.row = i
                   /\ c.src # NoSrc /\ (~a.up => Loaded(c) = t[i].track)
  <2> DEFINE b == [a EXCEPT !.row = i]
             d == StartTrack(b, t[i].track)
  <2>1. i \in Nat /\ t[i].track \in Tracks
    BY NbrRow
  <2>2. /\ AmpSound(b) /\ b.row = i /\ b.state = a.state /\ b.ended = a.ended /\ b.up = a.up
        /\ b \in Amps
    <3>1. AmpSound(b)
      BY <2>1, PlaceSound, Names
    <3>2. b.row = i /\ b.state = a.state /\ b.ended = a.ended /\ b.up = a.up
      BY <1>1 DEF Amps
    <3> QED BY <3>1, <3>2 DEF AmpSound
  <2> HIDE DEF b
  <2>3. d \in Amps /\ AmpSound(d) /\ SamePlace(d, b)
    BY <2>1, <2>2, StartTrackSound, StartTrackPlace DEF AmpSound
  <2>4. /\ d.ended => b.ended
        /\ ~b.up => (d.up => d.src = Spot)
        /\ t[i].track \in Unplayable => d.src = NoSrc /\ d.state = b.state
        /\ t[i].track \notin Unplayable => d.src # NoSrc /\ (~b.up => Loaded(d) = t[i].track)
        /\ t[i].track \notin Unplayable /\ Loaded(d) \in Broken => d.state \in {b.state, "ready"}
    BY <2>1, <2>2, StartTrackFields
  <2>5. c = IF t[i].track \in Unplayable THEN [d EXCEPT !.row = NoRow] ELSE SetState(d, "paused")
    BY <1>4 DEF b
  <2>6. CASE t[i].track \in Unplayable
    <3> HIDE DEF d
    <3>1. c.row = NoRow /\ c.src = d.src /\ c.state = d.state /\ c.ended = d.ended /\ c.up = d.up
      BY <2>3, <2>5, <2>6 DEF Amps
    <3> QED BY <2>2, <2>4, <2>6, <3>1
  <2>7. CASE t[i].track \notin Unplayable
    <3>1. c = SetState(d, "paused")
      BY <2>5, <2>7
    <3>2. c.state = "playing" => a.state = "playing"
      <4>1. CASE Loaded(d) \notin Broken
        <5> HIDE DEF d
        <5>1. c.state = "paused"
          BY <2>3, <2>4, <2>7, <3>1, <4>1, SetStateFields DEF Targets
        <5> QED BY <5>1
      <4>2. CASE Loaded(d) \in Broken
        <5>1. d.state \in {b.state, "ready"}
          BY <2>4, <2>7, <4>2
        <5> HIDE DEF d
        <5>2. c.state \in {d.state, "ready"}
          BY <2>3, <2>4, <2>7, <3>1, <4>2, SetStateFields DEF Targets
        <5> QED BY <2>2, <5>1, <5>2
      <4> QED BY <4>1, <4>2
    <3> HIDE DEF d
    <3>3. /\ c.src = d.src /\ Loaded(c) = Loaded(d) /\ (c.ended => d.ended)
          /\ c.src # Spot => c.up = d.up
      BY <2>3, <3>1, SetStateFields DEF Targets
    <3>4. c.row = d.row
      BY <2>3, <3>1, SetStatePlace DEF SamePlace
    <3> QED BY <2>2, <2>3, <2>4, <2>7, <3>2, <3>3, <3>4 DEF SamePlace
  <2> QED BY <2>6, <2>7
<1>5. CASE /\ a.row = NoRow
           /\ \E i \in TrackNbr(t, a.list, 0) :
                 c = LET started == StartTrack([a EXCEPT !.row = i], t[i].track)
                     IN IF t[i].track \in Unplayable THEN [started EXCEPT !.row = NoRow]
                        ELSE SetState(started, "paused")
  BY <1>4, <1>5
<1>6. \/ c = a
      \/ c = [a EXCEPT !.row = NoRow]
      \/ /\ a.row = NoRow
         /\ \E i \in TrackNbr(t, a.list, 0) :
               c = LET started == StartTrack([a EXCEPT !.row = i], t[i].track)
                   IN IF t[i].track \in Unplayable THEN [started EXCEPT !.row = NoRow]
                      ELSE SetState(started, "paused")
  BY FetchTrackCases
<1> QED BY <1>2, <1>3, <1>5, <1>6

\* The end of change_track starts a row, or stops; when the spotify element is handy, the
\* source plays the row's track unless that cannot be played.
LEMMA PlayNbrPlays ==
    ASSUME NEW t, Typed(t), NEW a, AmpSound(a), NEW p, NEW n, NEW K, NEW m,
           m = IF n < 0 THEN 0 ELSE n, NEW r, r = PlayNbr(a, t, p, n, K),
           NEW c, c = r.amp
    PROVE  /\ c.ended => a.ended /\ a.src = NoSrc
           /\ c.state = "playing" => c.src # NoSrc \/ (a.src = NoSrc /\ a.state = "playing")
           /\ \/ /\ TrackNbr(t, p, m) = {} /\ c.row = NoRow
                 /\ c.state = "playing" => a.src = NoSrc /\ a.state = "playing"
              \/ \E i \in TrackNbr(t, p, m) :
                    /\ c.row = i
                    /\ t[i].track \in Unplayable /\ c.state = "playing" =>
                          a.src = NoSrc /\ a.state = "playing"
                    /\ Handy(a) /\ t[i].track \notin Unplayable =>
                          /\ Loaded(c) = t[i].track
                          /\ t[i].track \notin Broken => c.state = "playing"
                          /\ t[i].track \in Broken /\ c.state = "playing" =>
                                a.src = NoSrc /\ a.state = "playing"
<1>0. a \in Amps
  BY DEF AmpSound
<1>1. CASE /\ TrackNbr(t, p, m) = {}
           /\ r = Done([SetState(a, "null") EXCEPT !.row = NoRow], t, K)
  <2> DEFINE b == SetState(a, "null")
  <2>1. c = [b EXCEPT !.row = NoRow]
    BY <1>1, DoneFields
  <2>2. b \in Amps
    BY SetStateSound DEF AmpSound, Targets
  <2>3. /\ b.src = a.src
        /\ a.src # NoSrc => b.state = "null" /\ ~b.ended
        /\ a.src = NoSrc => b = a
    BY <1>0, SetStateFields DEF Targets
  <2> HIDE DEF b
  <2>4. c.row = NoRow /\ c.src = b.src /\ c.state = b.state /\ c.ended = b.ended
    BY <2>1, <2>2 DEF Amps
  <2> QED BY <1>1, <2>3, <2>4
<1>2. ASSUME NEW i \in TrackNbr(t, p, m),
             r = Done(StartTrack(SetState([a EXCEPT !.row = i], "null"), t[i].track), t, K)
      PROVE  /\ c.ended => a.ended /\ a.src = NoSrc
             /\ c.state = "playing" => c.src # NoSrc \/ (a.src = NoSrc /\ a.state = "playing")
             /\ c.row = i
             /\ t[i].track \in Unplayable /\ c.state = "playing" =>
                   a.src = NoSrc /\ a.state = "playing"
             /\ Handy(a) /\ t[i].track \notin Unplayable =>
                   /\ Loaded(c) = t[i].track
                   /\ t[i].track \notin Broken => c.state = "playing"
                   /\ t[i].track \in Broken /\ c.state = "playing" =>
                         a.src = NoSrc /\ a.state = "playing"
  <2> DEFINE b == [a EXCEPT !.row = i]
             d == SetState(b, "null")
  <2>1. i \in Nat /\ t[i].track \in Tracks
    BY NbrRow
  <2>2. c = StartTrack(d, t[i].track)
    BY <1>2, DoneFields
  <2>3. AmpSound(b)
    BY <2>1, PlaceSound, Names
  <2>4. b.row = i /\ b.src = a.src /\ b.state = a.state /\ b.ended = a.ended /\ b.up = a.up
    BY <1>0 DEF Amps
  <2> HIDE DEF b
  <2>5. AmpSound(d) /\ SamePlace(d, b)
    BY <2>3, SetStateSound, SetStatePlace DEF AmpSound, Targets
  <2>6. /\ d.src = a.src /\ (d.ended => b.ended)
        /\ a.src # NoSrc => d.state = "null" /\ ~d.ended /\ d.up = (b.up /\ b.src # Spot)
        /\ a.src = NoSrc => d = b
    BY <2>3, <2>4, SetStateFields DEF AmpSound, Targets
  <2> HIDE DEF d
  <2>7. SamePlace(c, d)
    BY <2>1, <2>2, <2>5, StartTrackPlace DEF AmpSound
  <2>8. /\ c.ended => d.ended
        /\ t[i].track \in Unplayable => c.src = NoSrc /\ c.state = d.state
        /\ t[i].track \notin Unplayable =>
             /\ c.src # NoSrc
             /\ ~d.up => Loaded(c) = t[i].track
             /\ ~d.up /\ t[i].track \notin Broken => c.state = "playing"
             /\ Loaded(c) \in Broken => c.state \in {d.state, "ready"}
    BY <2>1, <2>2, <2>5, StartTrackFields DEF AmpSound
  <2>9. c.row = i
    BY <2>4, <2>5, <2>7 DEF SamePlace
  <2>10. Handy(a) => ~d.up
    BY <2>4, <2>6, Names DEF Handy
  <2>11. c.ended => a.ended /\ a.src = NoSrc
    BY <2>4, <2>6, <2>8
  <2>12. d.state = "playing" => a.src = NoSrc /\ a.state = "playing"
    BY <2>4, <2>6
  <2> QED BY <2>8, <2>9, <2>10, <2>11, <2>12
<1>3. CASE \E i \in TrackNbr(t, p, m) :
            r = Done(StartTrack(SetState([a EXCEPT !.row = i], "null"), t[i].track), t, K)
  BY <1>2, <1>3
<1>4. \/ /\ TrackNbr(t, p, m) = {}
         /\ r = Done([SetState(a, "null") EXCEPT !.row = NoRow], t, K)
      \/ \E i \in TrackNbr(t, p, m) :
            r = Done(StartTrack(SetState([a EXCEPT !.row = i], "null"), t[i].track), t, K)
  <2>1. \/ /\ TrackNbr(t, p, m) = {}
           /\ PlayNbr(a, t, p, n, K) = Done([SetState(a, "null") EXCEPT !.row = NoRow], t, K)
        \/ \E i \in TrackNbr(t, p, m) :
              PlayNbr(a, t, p, n, K) =
                 Done(StartTrack(SetState([a EXCEPT !.row = i], "null"), t[i].track), t, K)
    <3> DEFINE i == CHOOSE i \in TrackNbr(t, p, m) : TRUE
    <3>1. TrackNbr(t, p, m) # {} => i \in TrackNbr(t, p, m)
      OBVIOUS
    <3>2. PlayNbr(a, t, p, n, K) =
            IF TrackNbr(t, p, m) = {} THEN Done([SetState(a, "null") EXCEPT !.row = NoRow], t, K)
            ELSE Done(StartTrack(SetState([a EXCEPT !.row = i], "null"), t[i].track), t, K)
      BY DEF PlayNbr
    <3> HIDE DEF i
    <3> QED BY <3>1, <3>2
  <2> QED BY <2>1
<1>5. CASE TrackNbr(t, p, m) = {} /\ r = Done([SetState(a, "null") EXCEPT !.row = NoRow], t, K)
  BY <1>1, <1>5
<1> QED BY <1>3, <1>4, <1>5

\* change_track by cases; a is the amp once it has looked the active track up.
LEMMA ChangeRelativeCases ==
    ASSUME NEW t, Typed(t), NEW a0, AmpSound(a0), NEW n \in {1, -1},
           NEW a, a = Status(a0, t, playlists), NEW r, r = ChangeRelative(a0, t, n)
    PROVE  \/ r = Done(a, t, {}) /\ (~Found(a, t) \/ (n = -1 /\ a.list = Queue))
           \/ /\ Found(a, t) /\ a.row \in DOMAIN t
              /\ \/ a.list = Queue /\ r = NextInQueue(a, t)
                 \/ a.list # Queue /\ r = EnterQueue(a, t)
                 \/ /\ a.list # Queue /\ InList(t, Queue) = {}
                    /\ r = PlayNbr(a, t, a.list, t[a.row].pos - 1 + n, {})
<1>1. ChangeRelative(a0, t, n) =
        CASE ~Found(a, t) -> Done(a, t, {})
          [] Found(a, t) /\ a.list = Queue /\ n = 1 -> NextInQueue(a, t)
          [] Found(a, t) /\ a.list = Queue /\ n = -1 -> Done(a, t, {})
          [] Found(a, t) /\ a.list # Queue /\ Length(t, Queue) > 0 -> EnterQueue(a, t)
          [] OTHER -> PlayNbr(a, t, a.list, t[a.row].pos - 1 + n, {})
  BY DEF ChangeRelative
<1>2. Found(a, t) => a.row \in DOMAIN t
  BY FoundRow DEF AmpSound
<1>3. Length(t, Queue) > 0 \/ InList(t, Queue) = {}
  <2>1. Length(t, Queue) \in Nat /\ (Length(t, Queue) = 0 <=> InList(t, Queue) = {})
    BY LengthType DEF Typed
  <2> QED BY <2>1
<1>4. CASE ~Found(a, t)
  BY <1>1, <1>4
<1>5. CASE Found(a, t) /\ a.list = Queue
  BY <1>1, <1>2, <1>5
<1>6. CASE Found(a, t) /\ a.list # Queue /\ Length(t, Queue) > 0
  BY <1>1, <1>2, <1>6
<1>7. CASE Found(a, t) /\ a.list # Queue /\ ~(Length(t, Queue) > 0)
  BY <1>1, <1>2, <1>3, <1>7
<1> QED BY <1>4, <1>5, <1>6, <1>7

-------------------------------------------------------------------------------
(* While the first track of a playlist can be played, a listening session plays *)
(* what it says and goes on with what is next.                                  *)

\* The row to go back to is one of the playlist to go back to.
Firm(a, t) == a.fbList # NoList => a.fbRow \in InList(t, a.fbList)

\* set_state acts on an amp that plays or whose stream has ended.
Ready(a, t) ==
    /\ AmpSound(a) /\ Firm(a, t)
    /\ a.ended \/ a.state = "playing" => a.src # NoSrc

\* No stream has ended, and what plays is an existing row.
Calm(a, t) ==
    /\ AmpSound(a) /\ Firm(a, t)
    /\ ~a.ended
    /\ a.state = "playing" => a.src # NoSrc /\ a.row \in DOMAIN t

\* A playlist that is active has rows, and one of them is active while the queue, that
\* the amp may be told to play, has rows.
AtHome(a, t) ==
    a.list # Queue => InList(t, a.list) # {} /\ (a.row \in DOMAIN t \/ InList(t, Queue) = {})

Steady(a, t) == Calm(a, t) /\ Placed(a, t) /\ AtHome(a, t)

\* A row that has become active since the amp was o, and that plays, is what the source
\* in the pipeline plays.
Started(o, a, t) ==
    Held(o) /\ a.row # o.row /\ a.state = "playing" => Loaded(a) = t[a.row].track

\* The first track of every ordinary playlist can be played.
FirstsPlay(t) ==
    \A p \in Lists : \A i \in InList(t, p) : t[i].pos = 1 => t[i].track \notin Unplayable

\* The amp c after fetch_active_track on a.
Fetched(a, c, t) ==
    /\ c = a \/ c.state # "playing"
    /\ Held(a) => Handy(c)
    /\ Held(a) /\ c.row # a.row /\ c.row \in DOMAIN t => Loaded(c) = t[c.row].track

LEMMA CalmReady == ASSUME NEW a, NEW t, Calm(a, t) PROVE Ready(a, t)
BY DEF Calm, Ready

LEMMA FirmBack == ASSUME NEW a, NEW t, Firm(a, t) PROVE Back(a, t)
BY DEF Firm, Back

LEMMA FirmElsewhere ==
    ASSUME NEW t, NEW s, Elsewhere(s, t, Queue), NEW a \in Amps, Firm(a, t)
    PROVE  Firm(a, s)
<1>1. a.fbList # NoList => a.fbList \in Lists
  BY DEF Amps
<1> QED BY <1>1, VoteQueueAssumption DEF Firm, Elsewhere, SameList, VoteQueueAssumption, AllLists

LEMMA FirstsPlayElsewhere ==
    ASSUME NEW t, NEW s, Elsewhere(s, t, Queue), FirstsPlay(t)
    PROVE  FirstsPlay(s)
<1> SUFFICES ASSUME NEW p \in Lists, NEW i \in InList(s, p), s[i].pos = 1
             PROVE  s[i].track \notin Unplayable
  BY DEF FirstsPlay
<1>1. SameList(s, t, p)
  BY VoteQueueAssumption DEF Elsewhere, VoteQueueAssumption, AllLists
<1> QED BY <1>1 DEF SameList, FirstsPlay

\* In order, the first row is at position 1.
LEMMA FirstRowPlays ==
    ASSUME NEW t, Typed(t), Ordered(t), FirstsPlay(t), NEW p \in Lists, NEW i \in TrackNbr(t, p, 0)
    PROVE  t[i].track \notin Unplayable
<1>1. TrackNbr(t, p, 0) = {j \in InList(t, p) : t[j].pos = 0 + 1}
  BY NbrInOrder DEF Typed, Ordered, AllLists
<1>2. i \in InList(t, p) /\ t[i].pos = 1
  BY <1>1
<1> QED BY <1>2 DEF FirstsPlay

\* fetch_active_track on a calm amp.
LEMMA FetchTrackCalm ==
    ASSUME NEW t, Typed(t), NEW a, Calm(a, t), NEW c, c = FetchTrack(a, t)
    PROVE  Calm(c, t) /\ Fetched(a, c, t)
<1>1. /\ AmpSound(c) /\ c.list = a.list /\ c.fbList = a.fbList /\ c.fbRow = a.fbRow
  BY FetchTrackSound, FetchTrackPlace DEF Calm
<1>2. Firm(c, t)
  BY <1>1 DEF Calm, Firm
<1>3. NoRow \notin DOMAIN t
  BY NoRowNowhere
<1>4. \/ c = a
      \/ c.row = NoRow /\ c = [a EXCEPT !.row = NoRow]
      \/ \E i \in TrackNbr(t, a.list, 0) :
            /\ a.row = NoRow
            /\ c.ended => a.ended
            /\ c.state = "playing" => a.state = "playing"
            /\ ~a.up => (c.up => c.src = Spot)
            /\ \/ t[i].track \in Unplayable /\ c.row = NoRow
               \/ /\ t[i].track \notin Unplayable /\ c.row = i
                  /\ c.src # NoSrc /\ (~a.up => Loaded(c) = t[i].track)
  BY FetchTrackPlays DEF Calm
<1>5. CASE c = a
  BY <1>5 DEF Fetched, Held, Handy
<1>6. CASE c.row = NoRow /\ c = [a EXCEPT !.row = NoRow]
  <2>1. c.state = a.state /\ c.ended = a.ended /\ c.src = a.src /\ c.up = a.up
    BY <1>6 DEF Calm, AmpSound, Amps
  <2>2. CASE a.row \in DOMAIN t
    <3>1. FetchTrack(a, t) = a
      BY <2>2 DEF FetchTrack
    <3> QED BY <3>1, <1>5
  <2>3. CASE a.row \notin DOMAIN t
    BY <1>1, <1>2, <1>3, <1>6, <2>1, <2>3 DEF Calm, Fetched, Held, Handy
  <2> QED BY <2>2, <2>3
<1>7. ASSUME NEW i \in TrackNbr(t, a.list, 0), a.row = NoRow,
             c.ended => a.ended, c.state = "playing" => a.state = "playing",
             ~a.up => (c.up => c.src = Spot),
             \/ t[i].track \in Unplayable /\ c.row = NoRow
             \/ /\ t[i].track \notin Unplayable /\ c.row = i
                /\ c.src # NoSrc /\ (~a.up => Loaded(c) = t[i].track)
      PROVE  Calm(c, t) /\ Fetched(a, c, t)
  <2>1. ~c.ended /\ c.state # "playing" /\ (Held(a) => ~a.up)
    BY <1>3, <1>7 DEF Calm, Held
  <2>2. Calm(c, t)
    BY <1>1, <1>2, <2>1 DEF Calm
  <2>3. Held(a) /\ c.row # a.row /\ c.row \in DOMAIN t => Loaded(c) = t[c.row].track
    BY <1>7, <2>1
  <2> QED BY <1>7, <2>1, <2>2, <2>3 DEF Fetched, Handy
<1>8. CASE \E i \in TrackNbr(t, a.list, 0) :
              /\ a.row = NoRow
              /\ c.ended => a.ended
              /\ c.state = "playing" => a.state = "playing"
              /\ ~a.up => (c.up => c.src = Spot)
              /\ \/ t[i].track \in Unplayable /\ c.row = NoRow
                 \/ /\ t[i].track \notin Unplayable /\ c.row = i
                    /\ c.src # NoSrc /\ (~a.up => Loaded(c) = t[i].track)
  BY <1>7, <1>8
<1> QED BY <1>4, <1>5, <1>6, <1>8

\* In an ordinary playlist it finds a row.
LEMMA FetchTrackSteady ==
    ASSUME NEW t, Typed(t), Ordered(t), FirstsPlay(t), NEW a, Calm(a, t), Placed(a, t),
           a.list # Queue => InList(t, a.list) # {}, NEW c, c = FetchTrack(a, t)
    PROVE  Steady(c, t) /\ Fetched(a, c, t) /\ (c.list # Queue => c.row \in DOMAIN t)
<1>1. Calm(c, t) /\ Fetched(a, c, t)
  BY FetchTrackCalm
<1>2. Placed(c, t) /\ c.list = a.list
  BY FetchTrackPlaced, FetchTrackPlace DEF Calm
<1>3. ASSUME c.list # Queue PROVE c.row \in DOMAIN t
  <2>1. a.list \in Lists /\ a.list # Queue
    BY <1>2, <1>3 DEF Calm, AmpSound, Amps
  <2>2. CASE a.row \in DOMAIN t
    BY <2>2 DEF FetchTrack
  <2>3. CASE a.row \notin DOMAIN t
    <3>1. a.row = NoRow /\ InList(t, a.list) # {}
      BY <2>1, <2>3 DEF Placed
    <3>2. \E i \in TrackNbr(t, a.list, 0) :
             c = LET started == StartTrack([a EXCEPT !.row = i], t[i].track)
                 IN IF t[i].track \in Unplayable THEN [started EXCEPT !.row = NoRow]
                    ELSE SetState(started, "paused")
      BY <2>3, <3>1, FetchTrackCases
    <3>3. PICK i \in TrackNbr(t, a.list, 0) :
             c = LET started == StartTrack([a EXCEPT !.row = i], t[i].track)
                 IN IF t[i].track \in Unplayable THEN [started EXCEPT !.row = NoRow]
                    ELSE SetState(started, "paused")
      BY <3>2
    <3>4. t[i].track \notin Unplayable /\ i \in DOMAIN t /\ i \in Nat /\ t[i].track \in Tracks
      BY <2>1, FirstRowPlays, NbrRow
    <3> DEFINE b == [a EXCEPT !.row = i]
               d == StartTrack(b, t[i].track)
    <3>5. AmpSound(b) /\ b.row = i
      <4>1. AmpSound(b)
        BY <3>4, PlaceSound, Names DEF Calm
      <4> QED BY <4>1 DEF Calm, AmpSound, Amps
    <3>6. c = SetState(d, "paused")
      BY <3>3, <3>4
    <3> HIDE DEF b
    <3>7. d \in Amps /\ SamePlace(d, b)
      BY <3>4, <3>5, StartTrackSound, StartTrackPlace DEF AmpSound
    <3> HIDE DEF d
    <3>8. SamePlace(c, d)
      BY <3>6, <3>7, SetStatePlace
    <3> QED BY <3>4, <3>5, <3>7, <3>8 DEF SamePlace
  <2> QED BY <2>2, <2>3
<1>4. AtHome(c, t)
  BY <1>2, <1>3 DEF AtHome
<1> QED BY <1>1, <1>2, <1>3, <1>4 DEF Steady

LEMMA FetchedStarted ==
    ASSUME NEW t, NEW a, NEW c, Fetched(a, c, t), NEW o, Started(o, a, t)
    PROVE  Started(o, c, t)
BY DEF Fetched, Started

\* The end of change_track on an amp that is ready for it.
LEMMA PlayNbrCalm ==
    ASSUME NEW t, Typed(t), NEW a, Ready(a, t), NEW p, NEW n, NEW K, NEW m,
           m = IF n < 0 THEN 0 ELSE n, NEW c, c = PlayNbr(a, t, p, n, K).amp,
           NEW o, Held(o) => Handy(a)
    PROVE  /\ Calm(c, t) /\ Started(o, c, t)
           /\ c.row \in DOMAIN t \/ TrackNbr(t, p, m) = {}
<1>1. AmpSound(c) /\ c.fbList = a.fbList /\ c.fbRow = a.fbRow
  BY PlayNbrSound, PlayNbrPlace DEF Ready
<1>2. Firm(c, t) /\ NoRow \notin DOMAIN t
  BY <1>1, NoRowNowhere DEF Ready, Firm
<1>3. /\ c.ended => a.ended /\ a.src = NoSrc
      /\ c.state = "playing" => c.src # NoSrc \/ (a.src = NoSrc /\ a.state = "playing")
      /\ \/ /\ TrackNbr(t, p, m) = {} /\ c.row = NoRow
            /\ c.state = "playing" => a.src = NoSrc /\ a.state = "playing"
         \/ \E i \in TrackNbr(t, p, m) :
               /\ c.row = i
               /\ t[i].track \in Unplayable /\ c.state = "playing" =>
                     a.src = NoSrc /\ a.state = "playing"
               /\ Handy(a) /\ t[i].track \notin Unplayable =>
                     /\ Loaded(c) = t[i].track
                     /\ t[i].track \notin Broken => c.state = "playing"
                     /\ t[i].track \in Broken /\ c.state = "playing" =>
                           a.src = NoSrc /\ a.state = "playing"
  BY PlayNbrPlays DEF Ready
<1>4. ~c.ended /\ (c.state = "playing" => c.src # NoSrc) /\ ~(a.src = NoSrc /\ a.state = "playing")
  BY <1>3 DEF Ready
<1>5. CASE /\ TrackNbr(t, p, m) = {} /\ c.row = NoRow
           /\ c.state = "playing" => a.src = NoSrc /\ a.state = "playing"
  BY <1>1, <1>2, <1>4, <1>5 DEF Calm, Started
<1>6. ASSUME NEW i \in TrackNbr(t, p, m), c.row = i,
             t[i].track \in Unplayable /\ c.state = "playing" =>
                   a.src = NoSrc /\ a.state = "playing",
             Handy(a) /\ t[i].track \notin Unplayable => Loaded(c) = t[i].track
      PROVE  Calm(c, t) /\ Started(o, c, t) /\ c.row \in DOMAIN t
  <2>1. i \in DOMAIN t
    BY NbrRow
  <2>2. Calm(c, t)
    BY <1>1, <1>2, <1>4, <1>6, <2>1 DEF Calm
  <2>3. Started(o, c, t)
    BY <1>4, <1>6 DEF Started
  <2> QED BY <1>6, <2>1, <2>2, <2>3
<1> QED BY <1>3, <1>5, <1>6

\* The outcome r of a call of the amp o.
Played(r, o) == Steady(r.amp, r.rows) /\ Started(o, r.amp, r.rows)

\* The end of change_track on the active playlist.
LEMMA PlayNbrPlayed ==
    ASSUME NEW t, Typed(t), NEW a, Ready(a, t), NEW n, NEW K, NEW o, Held(o) => Handy(a),
           a.list # Queue => /\ InList(t, a.list) # {}
                             /\ \/ InList(t, Queue) = {}
                                \/ TrackNbr(t, a.list, IF n < 0 THEN 0 ELSE n) # {}
    PROVE  Played(PlayNbr(a, t, a.list, n, K), o)
<1> DEFINE m == IF n < 0 THEN 0 ELSE n
<1> SUFFICES ASSUME NEW r, r = PlayNbr(a, t, a.list, n, K) PROVE Played(r, o)
  OBVIOUS
<1>1. r.rows = t /\ r.amp.list = a.list
  BY PlayNbrSound, PlayNbrPlace DEF Ready
<1>2. /\ Calm(r.amp, t) /\ Started(o, r.amp, t)
      /\ r.amp.row \in DOMAIN t \/ TrackNbr(t, a.list, m) = {}
  BY PlayNbrCalm
<1> HIDE DEF m
<1>3. Placed(r.amp, t)
  BY FirmBack, PlayNbrPlaced DEF Ready
<1>4. AtHome(r.amp, t)
  BY <1>1, <1>2 DEF AtHome, m
<1> QED BY <1>1, <1>2, <1>3, <1>4 DEF Played, Steady

\* Stopping an amp that is ready.
LEMMA Stopped ==
    ASSUME NEW t, NEW a, Ready(a, t)
    PROVE  SetState(a, "null").state # "playing" /\ ~SetState(a, "null").ended
<1>1. a \in Amps
  BY DEF Ready, AmpSound
<1> QED BY <1>1, SetStateFields DEF Ready, Targets

LEMMA FallBackPlayed ==
    ASSUME playlists = Lists, NEW t, Typed(t), Ordered(t), NEW a, Ready(a, t), Placed(a, t),
           a.list = Queue, a.row \notin DOMAIN t, InList(t, Queue) = {}, NEW K,
           NEW o, Held(o) => Handy(a)
    PROVE  Played(FallBack(a, t, K), o)
<1> DEFINE b == [a EXCEPT !.list = a.fbList, !.row = a.fbRow]
<1> SUFFICES ASSUME NEW r, r = FallBack(a, t, K) PROVE Played(r, o)
  OBVIOUS
<1>1. a \in Amps /\ AmpSound(a)
  BY DEF Ready, AmpSound
<1>2. CASE a.fbList = NoList
  <2> DEFINE c == SetState(a, "null")
  <2>1. r = Done(c, t, K)
    BY <1>2 DEF FallBack
  <2>2. AmpSound(c) /\ SamePlace(c, a)
    BY <1>1, SetStateSound, SetStatePlace DEF Targets
  <2>3. c.state # "playing" /\ ~c.ended
    BY <1>1, Stopped
  <2> HIDE DEF c
  <2>4. Calm(c, t) /\ Placed(c, t) /\ AtHome(c, t) /\ Started(o, c, t)
    BY <1>2, <2>2, <2>3, SamePlaced DEF Calm, Firm, SamePlace, AtHome, Started
  <2> QED BY <2>1, <2>4, DoneFields DEF Played, Steady
<1>3. CASE a.fbList # NoList
  <2>1. a.fbList \in AllLists /\ a.fbList \in Lists /\ a.fbRow \in Nat \cup {NoRow}
    BY <1>1, <1>3 DEF Amps, AllLists
  <2>2. a.fbRow \in InList(t, a.fbList) /\ a.fbRow \in DOMAIN t
    BY <1>3 DEF Ready, Firm, InList
  <2>3. AmpSound(b)
    BY <1>1, <2>1, PlaceSound
  <2>4. /\ b.list = a.fbList /\ b.row = a.fbRow /\ b.fbList = a.fbList /\ b.fbRow = a.fbRow
        /\ b.src = a.src /\ b.state = a.state /\ b.ended = a.ended /\ b.up = a.up
    BY <1>1 DEF Amps
  <2>5. Exists(b.list, playlists)
    BY <2>1, <2>4 DEF Exists
  <2>6. \/ r = Done(SetState(b, "null"), t, K)
        \/ r = PlayNbr(b, t, b.list, t[b.row].pos, K)
    <3> HIDE DEF b
    <3>1. FallBack(a, t, K) =
            IF ~Exists(b.list, playlists) \/ b.row \notin DOMAIN t THEN Raised(b, t, K)
            ELSE IF t[b.row].pos >= Length(t, b.list) THEN Done(SetState(b, "null"), t, K)
            ELSE PlayNbr(b, t, b.list, t[b.row].pos, K)
      BY <1>3 DEF FallBack, b
    <3> QED BY <2>2, <2>4, <2>5, <3>1
  <2> HIDE DEF b
  <2>7. Ready(b, t) /\ (Held(o) => Handy(b))
    BY <2>3, <2>4 DEF Ready, Firm, Handy
  <2>8. CASE r = Done(SetState(b, "null"), t, K)
    <3> DEFINE c == SetState(b, "null")
    <3>1. AmpSound(c) /\ SamePlace(c, b)
      BY <2>3, SetStateSound, SetStatePlace DEF Targets, AmpSound
    <3>2. c.state # "playing" /\ ~c.ended
      BY <2>7, Stopped
    <3> HIDE DEF c
    <3>3. Calm(c, t) /\ AtHome(c, t) /\ Started(o, c, t)
      BY <2>2, <2>4, <3>1, <3>2, <2>7 DEF Calm, Ready, Firm, SamePlace, AtHome, Started
    <3>4. Placed(c, t)
      BY <2>2, <2>4, <3>1 DEF SamePlace, Placed, Back, InList
    <3>5. r.amp = c /\ r.rows = t
      BY <2>8, DoneFields DEF c
    <3> QED BY <3>3, <3>4, <3>5 DEF Played, Steady
  <2>9. CASE r = PlayNbr(b, t, b.list, t[b.row].pos, K)
    <3>1. InList(t, b.list) # {}
      BY <2>2, <2>4
    <3> QED BY <2>7, <2>9, <3>1, PlayNbrPlayed
  <2> QED BY <2>6, <2>8, <2>9
<1> QED BY <1>2, <1>3

LEMMA NextInQueuePlayed ==
    ASSUME playlists = Lists, NEW t, Typed(t), Ordered(t), NEW a, Ready(a, t), Placed(a, t),
           a.list = Queue, a.row \in DOMAIN t, NEW o, Held(o) => Handy(a)
    PROVE  Played(NextInQueue(a, t), o)
<1> DEFINE s == RemoveRow(t, Queue, a.row)
           K == {t[a.row].track}
<1>1. Typed(s) /\ Ordered(s) /\ Elsewhere(s, t, Queue) /\ Placed(a, s) /\ a.row \notin DOMAIN s
  BY RestInPlace DEF Ready
<1>2. \/ InList(s, Queue) = {} /\ NextInQueue(a, t) = FallBack(a, s, K)
      \/ NextInQueue(a, t) = PlayNbr(a, s, a.list, 0, K)
  <2>1. Length(s, Queue) = 0 <=> InList(s, Queue) = {}
    BY <1>1, LengthType DEF Typed
  <2> QED BY <2>1 DEF NextInQueue
<1> HIDE DEF s, K
<1>3. Ready(a, s)
  BY <1>1, FirmElsewhere DEF Ready, AmpSound
<1> QED BY <1>1, <1>2, <1>3, FallBackPlayed, PlayNbrPlayed

LEMMA EnterQueuePlayed ==
    ASSUME NEW t, Typed(t), NEW a, Ready(a, t), Placed(a, t),
           a.list # Queue, a.row \in DOMAIN t, NEW o, Held(o) => Handy(a)
    PROVE  Played(EnterQueue(a, t), o)
<1> DEFINE b == [a EXCEPT !.list = Queue, !.fbList = a.list, !.fbRow = a.row]
<1>1. AmpSound(b)
  BY FallBackPlaceSound DEF Ready, AmpSound, Amps
<1>2. EnterQueue(a, t) = PlayNbr(b, t, Queue, 0, {})
  BY DEF EnterQueue
<1>3. /\ b.list = Queue /\ b.fbList = a.list /\ b.fbRow = a.row
      /\ b.src = a.src /\ b.state = a.state /\ b.ended = a.ended /\ b.up = a.up
  BY DEF Ready, AmpSound, Amps
<1> HIDE DEF b
<1>4. Ready(b, t) /\ (Held(o) => Handy(b))
  BY <1>1, <1>3 DEF Ready, Firm, Placed, InList, Handy
<1> QED BY <1>2, <1>3, <1>4, PlayNbrPlayed

\* change_track(n, True) once it has a row.
LEMMA ChangeFoundPlayed ==
    ASSUME playlists = Lists, NEW t, Typed(t), Ordered(t), NEW a, Ready(a, t), Placed(a, t),
           a.row \in DOMAIN t, NEW n, NEW o, Held(o) => Handy(a), NEW r,
           \/ a.list = Queue /\ r = NextInQueue(a, t)
           \/ a.list # Queue /\ r = EnterQueue(a, t)
           \/ /\ a.list # Queue /\ InList(t, Queue) = {}
              /\ r = PlayNbr(a, t, a.list, n, {})
    PROVE  Played(r, o)
<1>1. CASE a.list # Queue /\ InList(t, Queue) = {} /\ r = PlayNbr(a, t, a.list, n, {})
  <2>1. a.row \in InList(t, a.list)
    BY DEF Placed, InList
  <2>2. InList(t, a.list) # {}
    BY <2>1
  <2> QED BY <1>1, <2>2, PlayNbrPlayed
<1> QED BY <1>1, NextInQueuePlayed, EnterQueuePlayed

\* nextTrack and previousTrack.
LEMMA ChangeRelativePlayed ==
    ASSUME playlists = Lists, NEW t, Typed(t), Ordered(t), FirstsPlay(t),
           NEW a0, Steady(a0, t), NEW n \in {1, -1}
    PROVE  Played(ChangeRelative(a0, t, n), a0)
<1> SUFFICES ASSUME NEW a, a = Status(a0, t, playlists), NEW r, r = ChangeRelative(a0, t, n)
             PROVE  Played(r, a0)
  OBVIOUS
<1>1. a = FetchTrack(a0, t)
  BY StatusFetches DEF Steady, Calm, AmpSound
<1>2. Steady(a, t) /\ Fetched(a0, a, t)
  BY <1>1, FetchTrackSteady DEF Steady, AtHome
<1>3. Started(a0, a, t) /\ (Held(a0) => Handy(a))
  BY <1>2, FetchedStarted DEF Started, Fetched
<1>4. \/ r = Done(a, t, {})
      \/ /\ Found(a, t) /\ a.row \in DOMAIN t
         /\ \/ a.list = Queue /\ r = NextInQueue(a, t)
            \/ a.list # Queue /\ r = EnterQueue(a, t)
            \/ /\ a.list # Queue /\ InList(t, Queue) = {}
               /\ r = PlayNbr(a, t, a.list, t[a.row].pos - 1 + n, {})
  BY ChangeRelativeCases DEF Steady, Calm
<1>5. CASE r = Done(a, t, {})
  BY <1>2, <1>3, <1>5, DoneFields DEF Played
<1>6. CASE /\ a.row \in DOMAIN t
           /\ \/ a.list = Queue /\ r = NextInQueue(a, t)
              \/ a.list # Queue /\ r = EnterQueue(a, t)
              \/ /\ a.list # Queue /\ InList(t, Queue) = {}
                 /\ r = PlayNbr(a, t, a.list, t[a.row].pos - 1 + n, {})
  <2>1. Ready(a, t) /\ Placed(a, t)
    BY <1>2, CalmReady DEF Steady
  <2> QED BY <1>3, <1>6, <2>1, ChangeFoundPlayed
<1> QED BY <1>4, <1>5, <1>6

\* The end of a stream comes while a row plays.
LEMMA EndPlayed ==
    ASSUME playlists = Lists, NEW t, Typed(t), Ordered(t),
           NEW a, Ready(a, t), Placed(a, t), a.row \in DOMAIN t, NEW o, Held(o) => Handy(a)
    PROVE  Played(ChangeRelative(a, t, 1), o)
<1> SUFFICES ASSUME NEW r, r = ChangeRelative(a, t, 1) PROVE Played(r, o)
  OBVIOUS
<1>1. a = FetchTrack(a, t)
  BY DEF FetchTrack
<1>2. a = Status(a, t, playlists)
  BY <1>1, StatusFetches DEF Ready, AmpSound
<1>3. Found(a, t)
  <2>1. a.row \in InList(t, a.list) /\ a.row # NoRow
    BY NoRowNowhere DEF Placed, InList
  <2>2. Length(t, a.list) \in Nat /\ (Length(t, a.list) = 0 <=> InList(t, a.list) = {})
    BY LengthType DEF Typed
  <2>3. Length(t, a.list) > 0
    BY <2>1, <2>2
  <2> QED BY <2>1, <2>3 DEF Found
<1>4. \/ r = Done(a, t, {}) /\ (~Found(a, t) \/ (1 = -1 /\ a.list = Queue))
      \/ /\ Found(a, t) /\ a.row \in DOMAIN t
         /\ \/ a.list = Queue /\ r = NextInQueue(a, t)
            \/ a.list # Queue /\ r = EnterQueue(a, t)
            \/ /\ a.list # Queue /\ InList(t, Queue) = {}
               /\ r = PlayNbr(a, t, a.list, t[a.row].pos - 1 + 1, {})
  BY <1>2, ChangeRelativeCases DEF Ready
<1>5. 1 # -1
  OBVIOUS
<1>6. \/ a.list = Queue /\ r = NextInQueue(a, t)
      \/ a.list # Queue /\ r = EnterQueue(a, t)
      \/ /\ a.list # Queue /\ InList(t, Queue) = {}
         /\ r = PlayNbr(a, t, a.list, t[a.row].pos - 1 + 1, {})
  BY <1>3, <1>4, <1>5
<1> QED BY <1>6, ChangeFoundPlayed

\* playTrack on a row of the playlist that has become active.
LEMMA ChangeAbsolutePlayed ==
    ASSUME playlists = Lists, NEW t, Typed(t), Ordered(t),
           NEW a0, Calm(a0, t), NEW i \in InList(t, a0.list), NEW o, Held(o) => Held(a0)
    PROVE  Played(ChangeAbsolute(a0, t, i), o)
<1> DEFINE a == Status(a0, t, playlists)
           b == [a EXCEPT !.row = i]
           v == MoveTrack(t, Queue, i, 1)
<1> SUFFICES ASSUME NEW r, r = ChangeAbsolute(a0, t, i) PROVE Played(r, o)
  OBVIOUS
<1>1. a = FetchTrack(a0, t)
  BY StatusFetches DEF Calm, AmpSound
<1>2. Calm(a, t) /\ a.list = a0.list /\ a \in Amps /\ (Held(o) => Handy(a))
  BY <1>1, FetchTrackCalm, FetchTrackPlace DEF Calm, AmpSound, Fetched
<1>3. i \in Nat /\ i \in DOMAIN t
  BY RowTyped DEF InList
<1> HIDE DEF a
<1>4. /\ AmpSound(b) /\ b.list = a0.list /\ b.fbList = a.fbList /\ b.fbRow = a.fbRow
      /\ b.src = a.src /\ b.state = a.state /\ b.ended = a.ended /\ b.up = a.up
  <2>1. AmpSound(b)
    BY <1>2, <1>3, PlaceSound, Names DEF Calm
  <2> QED BY <1>2, <2>1 DEF Amps
<1>5. Ready(a, t) /\ Ready(b, t) /\ (Held(o) => Handy(b))
  BY <1>2, <1>4, CalmReady DEF Ready, Firm, Handy
<1>6. t[i].pos \in 1 .. Length(t, a0.list) /\ i \in TrackNbr(t, a0.list, t[i].pos - 1)
  <2>1. a0.list \in AllLists
    BY DEF Calm, AmpSound, Amps, AllLists
  <2>2. t[i].pos \in 1 .. Length(t, a0.list)
    BY <2>1, NbrInOrder DEF Typed, Ordered
  <2>3. t[i].pos - 1 \in Nat /\ t[i].pos - 1 + 1 = t[i].pos
    <3>1. t[i].pos \in Nat /\ t[i].pos >= 1
      BY <1>3, <2>2, RowTyped
    <3> QED BY <3>1
  <2>4. TrackNbr(t, a0.list, t[i].pos - 1) = {l \in InList(t, a0.list) : t[l].pos = t[i].pos - 1 + 1}
    BY <2>1, <2>3, NbrInOrder DEF Typed, Ordered
  <2> QED BY <2>2, <2>3, <2>4
<1>7. ASSUME a.list = Queue PROVE CanMove(t, Queue, i, 1)
  <2>1. i \in InList(t, Queue) /\ t[i].pos \in 1 .. Length(t, Queue)
    BY <1>2, <1>6, <1>7
  <2>2. Length(t, Queue) = MaxPos(t, Queue)
    BY NbrInOrder, Names DEF Typed, Ordered
  <2>3. MaxPos(t, Queue) \in Nat
    BY MaxPosType DEF Typed
  <2>4. 1 \in 1 .. MaxPos(t, Queue)
    BY <2>1, <2>2, <2>3
  <2> QED BY <2>1, <2>4 DEF CanMove
<1>8. \/ a.list = Queue /\ r = PlayNbr(b, v, b.list, 0, {})
      \/ a.list # Queue /\ r = PlayNbr(a, t, a.list, t[i].pos - 1, {})
  <2> HIDE DEF v
  <2>1. ChangeAbsolute(a0, t, i) =
          CASE a.list = Queue /\ ~CanMove(t, Queue, i, 1) -> Raised(b, t, {})
            [] a.list = Queue /\ CanMove(t, Queue, i, 1) -> PlayNbr(b, v, Queue, 0, {})
            [] a.list # Queue /\ i \in DOMAIN t -> PlayNbr(a, t, a.list, t[i].pos - 1, {})
            [] OTHER -> Done(a, t, {})
    BY DEF ChangeAbsolute, a, v
  <2> HIDE DEF b
  <2> QED BY <2>1, <1>2, <1>3, <1>4, <1>7
<1> HIDE DEF b
<1>9. CASE a.list = Queue /\ r = PlayNbr(b, v, b.list, 0, {})
  <2>1. Queue \in AllLists /\ 1 \in Nat /\ i \in InList(t, Queue) /\ CanMove(t, Queue, i, 1)
    BY <1>2, <1>7, <1>9, Names
  <2>2. Typed(v) /\ Elsewhere(v, t, Queue)
    BY <2>1, MoveKeeps
  <2> HIDE DEF v
  <2>3. Ready(b, v)
    BY <1>5, <2>2, FirmElsewhere DEF Ready, AmpSound
  <2>4. b.list = Queue
    BY <1>2, <1>4, <1>9
  <2> QED BY <1>5, <1>9, <2>2, <2>3, <2>4, PlayNbrPlayed
<1>10. CASE a.list # Queue /\ r = PlayNbr(a, t, a.list, t[i].pos - 1, {})
  <2>1. ~(t[i].pos - 1 < 0)
    <3>1. t[i].pos \in Nat /\ t[i].pos >= 1
      BY <1>3, <1>6, RowTyped
    <3> QED BY <3>1
  <2>2. TrackNbr(t, a.list, IF t[i].pos - 1 < 0 THEN 0 ELSE t[i].pos - 1) # {}
    BY <1>2, <1>6, <2>1
  <2>3. InList(t, a.list) # {}
    BY <1>2
  <2> QED BY <1>2, <1>5, <1>10, <2>2, <2>3, PlayNbrPlayed
<1> QED BY <1>8, <1>9, <1>10

LEMMA PlayTrackPlayed ==
    ASSUME playlists = Lists, NEW t, Typed(t), Ordered(t),
           NEW a, Steady(a, t), NEW p \in {NoList} \cup AllLists,
           NEW i \in InList(t, IF p = NoList THEN Queue ELSE p)
    PROVE  Played(PlayTrack(a, t, p, i), a)
<1> DEFINE b == IF p = NoList /\ a.list # Queue
                THEN [a EXCEPT !.fbList = a.list, !.fbRow = a.row] ELSE a
           q == IF p = NoList THEN Queue ELSE p
           c == [b EXCEPT !.list = q]
<1>1. q \in AllLists /\ i \in InList(t, q)
  BY Names
<1>2. PlayTrack(a, t, p, i) = ChangeAbsolute(c, t, i)
  BY DEF PlayTrack
<1>3. Calm(b, t) /\ b.row = a.row /\ b.up = a.up /\ b.src = a.src
  <2>1. CASE p = NoList /\ a.list # Queue
    <3>1. a \in Amps /\ a.list \in Lists /\ AmpSound(a)
      BY <2>1 DEF Steady, Calm, AmpSound, Amps
    <3>2. AmpSound(b)
      BY <2>1, <3>1, FallBackPlaceSound
    <3>3. /\ b.fbList = a.list /\ b.fbRow = a.row /\ b.row = a.row
          /\ b.src = a.src /\ b.state = a.state /\ b.ended = a.ended /\ b.up = a.up
      BY <2>1, <3>1 DEF Amps
    <3>4. a.row \in InList(t, a.list)
      <4>1. InList(t, Queue) # {}
        BY <1>1, <2>1
      <4> QED BY <2>1, <4>1 DEF Steady, AtHome, Placed, InList
    <3> HIDE DEF b
    <3> QED BY <3>2, <3>3, <3>4 DEF Steady, Calm, Firm
  <2>2. CASE ~(p = NoList /\ a.list # Queue)
    BY <2>2 DEF Steady
  <2> QED BY <2>1, <2>2
<1> HIDE DEF b, q
<1>4. /\ AmpSound(c) /\ c.list = q /\ c.row = b.row /\ c.fbList = b.fbList /\ c.fbRow = b.fbRow
      /\ c.src = b.src /\ c.state = b.state /\ c.ended = b.ended /\ c.up = b.up
  <2>1. AmpSound(c)
    BY <1>1, <1>3, PlaceSound, Names DEF Calm
  <2>2. b \in Amps
    BY <1>3 DEF Calm, AmpSound
  <2> QED BY <2>1, <2>2 DEF Amps
<1> HIDE DEF c
<1>5. Calm(c, t) /\ (Held(a) => Held(c))
  BY <1>3, <1>4 DEF Calm, Firm, Held
<1> QED BY <1>1, <1>2, <1>4, <1>5, ChangeAbsolutePlayed

\* A row that is played through the queue is the active one.
LEMMA PlayedOnTop ==
    ASSUME playlists = Lists, NEW t, Typed(t), Ordered(t),
           NEW a, AmpSound(a), NEW i \in InList(t, Queue)
    PROVE  PlayTrack(a, t, Queue, i).amp.row = i
<1> DEFINE c == [a EXCEPT !.list = Queue]
           d == Status(c, t, playlists)
           b == [d EXCEPT !.row = i]
           v == MoveTrack(t, Queue, i, 1)
<1>1. PlayTrack(a, t, Queue, i) = ChangeAbsolute(c, t, i)
  BY Names DEF PlayTrack
<1>2. AmpSound(c) /\ c.list = Queue
  <2>1. AmpSound(c)
    BY PlaceSound, Names
  <2> QED BY <2>1 DEF AmpSound, Amps
<1>3. AmpSound(d) /\ d.list = Queue
  <2> HIDE DEF c
  <2> QED BY <1>2, StatusSound, StatusFetches, FetchTrackPlace DEF AmpSound
<1> HIDE DEF d
<1>4. i \in Nat /\ i \in DOMAIN t
  BY RowTyped DEF InList
<1>5. AmpSound(b) /\ b.list = Queue
  <2>1. AmpSound(b)
    BY <1>3, <1>4, PlaceSound, Names
  <2> QED BY <1>3, <2>1 DEF AmpSound, Amps
<1>6. CanMove(t, Queue, i, 1)
  <2>1. t[i].pos \in 1 .. Length(t, Queue) /\ Length(t, Queue) = MaxPos(t, Queue)
    BY NbrInOrder, Names DEF Typed, Ordered
  <2>2. MaxPos(t, Queue) \in Nat
    BY MaxPosType DEF Typed
  <2>3. 1 \in 1 .. MaxPos(t, Queue)
    BY <2>1, <2>2
  <2> QED BY <2>3 DEF CanMove
<1>7. PlayTrack(a, t, Queue, i) = PlayNbr(b, v, Queue, 0, {})
  <2> HIDE DEF v, c
  <2>1. ChangeAbsolute(c, t, i) =
          CASE d.list = Queue /\ ~CanMove(t, Queue, i, 1) -> Raised(b, t, {})
            [] d.list = Queue /\ CanMove(t, Queue, i, 1) -> PlayNbr(b, v, Queue, 0, {})
            [] d.list # Queue /\ i \in DOMAIN t -> PlayNbr(d, t, d.list, t[i].pos - 1, {})
            [] OTHER -> Done(d, t, {})
    BY DEF ChangeAbsolute, d, v
  <2> HIDE DEF b
  <2> QED BY <2>1, <1>1, <1>3, <1>6
<1>8. Typed(v) /\ Ordered(v) /\ SameRows(v, t)
  <2>1. Queue \in AllLists /\ 1 \in Nat
    BY Names
  <2> QED BY <1>6, <2>1, MoveKeeps
<1>9. v[i].pos = 1
  <2>1. v = [j \in DOMAIN t |-> [t[j] EXCEPT !.pos = MovedPos(t, Queue, i, 1, j)]]
    BY MoveTrackRows, Names DEF Typed
  <2>2. MovedPos(t, Queue, i, 1, i) = 1
    BY DEF MovedPos
  <2>3. v[i] = [t[i] EXCEPT !.pos = 1]
    BY <1>4, <2>1, <2>2
  <2>4. t[i] \in [pl : AllLists, track : Tracks, pos : Nat, votes : Int]
    BY <1>4, RowTyped
  <2> QED BY <2>3, <2>4
<1>10. i \in InList(v, Queue)
  BY <1>8 DEF SameRows, InList
<1> HIDE DEF v, b
<1>11. TrackNbr(v, Queue, 0) = {j \in InList(v, Queue) : v[j].pos = 0 + 1}
  BY <1>8, NbrInOrder, Names DEF Typed, Ordered
<1>12. TrackNbr(v, Queue, 0) = {i}
  <2>1. i \in TrackNbr(v, Queue, 0)
    BY <1>9, <1>10, <1>11
  <2>2. PICK n \in Nat : IsOrder(v, Queue, n)
    BY <1>8, Names DEF Ordered, InOrder
  <2>3. \A j \in InList(v, Queue) : v[j].pos = v[i].pos => j = i
    BY <1>10, <2>2 DEF IsOrder
  <2> QED BY <1>9, <1>11, <2>1, <2>3
<1> DEFINE e == PlayNbr(b, v, Queue, 0, {}).amp
<1>13. e.row \in TrackNbr(v, Queue, 0)
  <2>1. \/ TrackNbr(v, Queue, 0) = {}
        \/ \E j \in TrackNbr(v, Queue, 0) : e.row = j
    <3>1. 0 = IF 0 < 0 THEN 0 ELSE 0
      OBVIOUS
    <3> HIDE DEF e
    <3> QED BY <1>5, <1>8, <3>1, PlayNbrPlays DEF e
  <2> QED BY <1>12, <2>1
<1> QED BY <1>7, <1>12, <1>13

\* The status asks for a push, or it was pushed.
LEMMA PushSteady ==
    ASSUME NEW t, NEW a, Steady(a, t), NEW b \in BOOLEAN, NEW o, Started(o, a, t)
    PROVE  Steady([a EXCEPT !.push = b], t) /\ Started(o, [a EXCEPT !.push = b], t)
<1> DEFINE c == [a EXCEPT !.push = b]
<1>1. AmpSound(c)
  BY FlagsSound DEF Steady, Calm
<1>2. /\ c.list = a.list /\ c.row = a.row /\ c.fbList = a.fbList /\ c.fbRow = a.fbRow
      /\ c.src = a.src /\ c.state = a.state /\ c.ended = a.ended /\ c.uri = a.uri
  BY DEF Steady, Calm, AmpSound, Amps
<1> HIDE DEF c
<1>3. Steady(c, t)
  BY <1>1, <1>2 DEF Steady, Calm, Firm, Placed, Back, AtHome
<1>4. Started(o, c, t)
  BY <1>2 DEF Started, Loaded
<1> QED BY <1>3, <1>4 DEF c

\* The push after a command, with the status it builds.
LEMMA PushedSteady ==
    ASSUME playlists = Lists, NEW t, Typed(t), Ordered(t), FirstsPlay(t),
           NEW a, Calm(a, t), Placed(a, t), a.list # Queue => InList(t, a.list) # {},
           a.push \/ AtHome(a, t), NEW o, Started(o, a, t)
    PROVE  Steady(Pushed(a, t, playlists), t) /\ Started(o, Pushed(a, t, playlists), t)
<1> DEFINE b == FetchTrack(a, t)
<1>1. Status(a, t, playlists) = b
  BY StatusFetches DEF Calm, AmpSound
<1>2. Pushed(a, t, playlists) = IF a.push THEN [b EXCEPT !.push = FALSE] ELSE a
  BY <1>1 DEF Pushed
<1> HIDE DEF b
<1>3. Steady(b, t) /\ Started(o, b, t)
  BY FetchTrackSteady, FetchedStarted DEF b
<1>4. Steady([b EXCEPT !.push = FALSE], t) /\ Started(o, [b EXCEPT !.push = FALSE], t)
  BY <1>3, PushSteady
<1>5. ~a.push => Steady(a, t)
  BY DEF Steady
<1> QED BY <1>2, <1>4, <1>5

LEMMA AnsweredPlayed ==
    ASSUME NEW t, FirstsPlay(t), NEW r, InPlace(r, t), NEW o, Played(r, o)
    PROVE  Played(Answered(r), o)
<1> DEFINE b == FetchTrack(r.amp, r.rows)
           s == [r EXCEPT !.amp = b]
<1>1. Typed(r.rows) /\ Ordered(r.rows) /\ FirstsPlay(r.rows)
  BY FirstsPlayElsewhere DEF InPlace
<1>2. Steady(r.amp, r.rows) /\ Started(o, r.amp, r.rows)
  BY DEF Played
<1>3. Steady(b, r.rows) /\ Started(o, b, r.rows)
  BY <1>1, <1>2, FetchTrackSteady, FetchedStarted DEF Steady, AtHome
<1>4. Answered(r) = r \/ Answered(r) = s
  BY DEF Answered
<1> HIDE DEF b
<1>5. s.amp = b /\ s.rows = r.rows
  BY DEF InPlace, IsCall
<1> HIDE DEF s
<1>6. Played(s, o)
  BY <1>3, <1>5 DEF Played
<1> QED BY <1>4, <1>6

\* The invariant of a listening session in which the first track of every playlist can
\* be played, and what its steps do.
SteadyInv ==
    /\ ListeningInv
    /\ Steady(amp, rows)
    /\ FirstsPlay(rows)

Settled == Steady(amp', rows') /\ FirstsPlay(rows') /\ Started(amp, amp', rows')

LEMMA CommandSettled ==
    ASSUME SteadyInv, NEW r, InPlace(r, rows), Played(r, amp), Command(r)
    PROVE  Settled
<1>1. amp' = Pushed(r.amp, r.rows, playlists) /\ rows' = r.rows /\ playlists = Lists
  BY DEF Command, SteadyInv, ListeningInv
<1>2. Typed(r.rows) /\ Ordered(r.rows) /\ FirstsPlay(r.rows)
  BY FirstsPlayElsewhere DEF InPlace, SteadyInv
<1>3. Steady(r.amp, r.rows) /\ Started(amp, r.amp, r.rows)
  BY DEF Played
<1>4. Steady(Pushed(r.amp, r.rows, playlists), r.rows)
      /\ Started(amp, Pushed(r.amp, r.rows, playlists), r.rows)
  BY <1>1, <1>2, <1>3, PushedSteady DEF Steady, AtHome
<1> QED BY <1>1, <1>2, <1>4 DEF Settled

LEMMA NextSettled ==
    ASSUME SteadyInv, NEW n \in {1, -1}, Command(Answered(ChangeRelative(amp, rows, n)))
    PROVE  Settled
<1> SUFFICES ASSUME NEW r, r = ChangeRelative(amp, rows, n), Command(Answered(r))
             PROVE  Settled
  OBVIOUS
<1>1. InPlace(r, rows) /\ Played(r, amp)
  BY ChangeRelativeInPlace, ChangeRelativePlayed DEF SteadyInv, ListeningInv, AmpInv, Safe
<1>2. InPlace(Answered(r), rows) /\ Played(Answered(r), amp)
  BY <1>1, AnsweredInPlace, AnsweredPlayed DEF SteadyInv
<1> QED BY <1>2, CommandSettled

LEMMA PlayTrackSettled ==
    ASSUME SteadyInv, NEW p \in {NoList} \cup AllLists,
           NEW i \in InList(rows, IF p = NoList THEN Queue ELSE p), PlayTrackOf(p, i)
    PROVE  Settled
<1> SUFFICES ASSUME NEW r, r = PlayTrack(amp, rows, p, i), Command(Answered(r))
             PROVE  Settled
  BY DEF PlayTrackOf
<1>1. InPlace(r, rows) /\ Played(r, amp)
  BY PlayTrackInPlace, PlayTrackPlayed DEF SteadyInv, ListeningInv, AmpInv, Safe
<1>2. InPlace(Answered(r), rows) /\ Played(Answered(r), amp)
  BY <1>1, AnsweredInPlace, AnsweredPlayed DEF SteadyInv
<1> QED BY <1>2, CommandSettled

\* set_state on an amp that has found its row.
LEMMA SetStateSteady ==
    ASSUME NEW t, NEW a, Steady(a, t), NEW s \in Targets, s = "playing" => a.row \in DOMAIN t
    PROVE  /\ Steady(SetState(a, s), t)
           /\ SetState(a, s).row = a.row /\ Loaded(SetState(a, s)) = Loaded(a)
<1> SUFFICES ASSUME NEW b, b = SetState(a, s)
             PROVE  Steady(b, t) /\ b.row = a.row /\ Loaded(b) = Loaded(a)
  OBVIOUS
<1>1. a \in Amps /\ AmpSound(a)
  BY DEF Steady, Calm, AmpSound
<1>2. AmpSound(b) /\ SamePlace(b, a)
  BY <1>1, SetStateSound, SetStatePlace
<1>3. /\ b.src = a.src /\ Loaded(b) = Loaded(a) /\ (b.ended => a.ended)
      /\ a.src = NoSrc => b = a
      /\ a.src # NoSrc /\ s = "null" => b.state = "null"
      /\ s # "null" => b.state \in {a.state, "ready", s}
  BY <1>1, SetStateFields
<1>4. ~b.ended
  BY <1>3 DEF Steady, Calm
<1>5. b.state = "playing" => b.src # NoSrc /\ b.row \in DOMAIN t
  <2>1. CASE a.src = NoSrc
    BY <1>3, <2>1 DEF Steady, Calm
  <2>2. CASE a.src # NoSrc
    BY <1>2, <1>3, <2>2 DEF Steady, Calm, SamePlace
  <2> QED BY <2>1, <2>2
<1>6. Steady(b, t)
  BY <1>2, <1>4, <1>5, SamePlaced DEF Steady, Calm, Firm, AtHome, SamePlace
<1> QED BY <1>2, <1>3, <1>6 DEF SamePlace

\* The commands that leave the rows alone.
LEMMA DoneSettled ==
    ASSUME SteadyInv, NEW a, Steady(a, rows), Started(amp, a, rows),
           Command(Done(a, rows, {}))
    PROVE  Settled
<1>1. InPlace(Done(a, rows, {}), rows)
  BY ElsewhereSelf, DoneInPlace DEF SteadyInv, ListeningInv, AmpInv, Safe, Steady, Calm
<1>2. Played(Done(a, rows, {}), amp)
  BY DoneFields DEF Played
<1> QED BY <1>1, <1>2, CommandSettled

\* play: the row is the active one already, or it was started and paused just now.
LEMMA PlaySettled ==
    ASSUME SteadyInv, Play
    PROVE  Settled
<1> DEFINE b == IF Found(Status(amp, rows, playlists), rows)
                THEN SetState(Status(amp, rows, playlists), "playing")
                ELSE Status(amp, rows, playlists)
<1> SUFFICES ASSUME NEW a, a = Status(amp, rows, playlists), Command(Done(b, rows, {}))
             PROVE  Settled
  BY DEF Play
<1>1. a = FetchTrack(amp, rows) /\ amp \in Amps /\ Typed(rows)
  BY StatusFetches DEF SteadyInv, ListeningInv, AmpInv, AmpSound, Safe
<1>2. Steady(a, rows) /\ Fetched(amp, a, rows)
  BY <1>1, FetchTrackSteady DEF SteadyInv, ListeningInv, Steady, AtHome
<1>3. Started(amp, a, rows)
  BY <1>2, FetchedStarted DEF Started
<1>4. Found(a, rows) => a.row \in DOMAIN rows
  BY <1>1, FoundRow
<1>5. CASE ~Found(a, rows)
  <2>1. b = a
    BY <1>5
  <2> HIDE DEF b
  <2> QED BY <1>2, <1>3, <2>1, DoneSettled
<1>6. CASE Found(a, rows)
  <2>1. b = SetState(a, "playing")
    BY <1>6
  <2> HIDE DEF b
  <2>2. Steady(b, rows) /\ b.row = a.row /\ Loaded(b) = Loaded(a)
    BY <1>2, <1>4, <1>6, <2>1, SetStateSteady DEF Targets
  <2>3. Started(amp, b, rows)
    BY <1>2, <1>4, <1>6, <2>2 DEF Started, Fetched
  <2> QED BY <2>2, <2>3, DoneSettled
<1> QED BY <1>5, <1>6

\* Pausing and stopping, by a client or by the loss of the play token.
LEMMA HaltSettled ==
    ASSUME SteadyInv, Pause \/ Stop \/ PlayTokenLost
    PROVE  Settled
<1>1. Steady(amp, rows)
  BY DEF SteadyInv
<1>2. ASSUME NEW s \in {"paused", "null"}
      PROVE  Steady(SetState(amp, s), rows) /\ Started(amp, SetState(amp, s), rows)
  <2>1. s \in Targets /\ s # "playing"
    BY DEF Targets
  <2> QED BY <1>1, <2>1, SetStateSteady DEF Started
<1>3. CASE Pause \/ Stop
  <2>1. PICK s \in {"paused", "null"} : Command(Done(SetState(amp, s), rows, {}))
    BY <1>3 DEF Pause, Stop
  <2> QED BY <1>2, <2>1, DoneSettled
<1>4. CASE PlayTokenLost
  BY <1>2, <1>4 DEF PlayTokenLost, Settled, SteadyInv
<1> QED BY <1>3, <1>4

LEMMA StatusSettled ==
    ASSUME SteadyInv, GetStatus \/ Seek
    PROVE  Settled
<1> DEFINE c == IF amp.src # NoSrc /\ amp.state # "null"
                THEN [amp EXCEPT !.ended = FALSE] ELSE amp
           d == IF Exists(c.list, playlists) THEN FetchTrack(c, rows) ELSE c
<1>1. /\ Typed(rows) /\ Ordered(rows) /\ FirstsPlay(rows) /\ Steady(amp, rows) /\ playlists = Lists
      /\ amp \in Amps
  BY DEF SteadyInv, ListeningInv, AmpInv, Safe, AmpSound
<1>2. c = amp
  BY <1>1 DEF Steady, Calm, Amps
<1>3. d = FetchTrack(amp, rows) /\ Status(amp, rows, playlists) = FetchTrack(amp, rows)
  <2>1. Exists(amp.list, playlists)
    BY <1>1 DEF Exists, Amps
  <2> QED BY <1>1, <1>2, <2>1, StatusFetches
<1>4. GetStatus \/ Seek => Command(Done(FetchTrack(amp, rows), rows, {}))
  BY <1>3 DEF GetStatus, Seek
<1> HIDE DEF d
<1>5. Steady(FetchTrack(amp, rows), rows) /\ Fetched(amp, FetchTrack(amp, rows), rows)
  BY <1>1, FetchTrackSteady DEF Steady, AtHome
<1>6. Started(amp, FetchTrack(amp, rows), rows)
  BY <1>5, FetchedStarted DEF Started
<1> QED BY <1>4, <1>5, <1>6, DoneSettled

LEMMA EndOfStreamSettled ==
    ASSUME SteadyInv, EndOfStream
    PROVE  Settled
<1> DEFINE a == [amp EXCEPT !.ended = TRUE]
<1> SUFFICES ASSUME NEW r, r = ChangeRelative(a, rows, 1), amp.state = "playing", amp.src # NoSrc,
                    amp' = [r.amp EXCEPT !.push = @ \/ r.ok], rows' = r.rows
             PROVE  Settled
  BY DEF EndOfStream
<1>1. /\ Typed(rows) /\ Ordered(rows) /\ FirstsPlay(rows) /\ playlists = Lists
      /\ Steady(amp, rows) /\ amp \in Amps /\ amp.row \in DOMAIN rows
  BY DEF SteadyInv, ListeningInv, AmpInv, Safe, AmpSound, Steady, Calm
<1>2. AmpSound(a) /\ SamePlace(a, amp) /\ a.src = amp.src /\ a.up = amp.up
  <2>1. AmpSound(a)
    BY <1>1, FlagsSound DEF Steady, Calm
  <2> QED BY <1>1, <2>1 DEF SamePlace, Amps
<1> HIDE DEF a
<1>3. Ready(a, rows) /\ Placed(a, rows) /\ a.row \in DOMAIN rows /\ (Held(amp) => Handy(a))
  BY <1>1, <1>2, SamePlaced DEF Steady, Calm, Ready, Firm, SamePlace, Held, Handy
<1>4. Played(r, amp) /\ InPlace(r, rows)
  BY <1>1, <1>2, <1>3, EndPlayed, ChangeRelativeInPlace
<1>5. Steady(r.amp, r.rows) /\ Started(amp, r.amp, r.rows) /\ FirstsPlay(r.rows)
  BY <1>1, <1>4, FirstsPlayElsewhere DEF Played, InPlace
<1>6. \E b \in BOOLEAN : amp' = [r.amp EXCEPT !.push = b]
  <2> DEFINE b == r.amp.push \/ r.ok
  <2>1. amp' = [r.amp EXCEPT !.push = b]
    OBVIOUS
  <2>2. b \in BOOLEAN
    OBVIOUS
  <2> HIDE DEF b
  <2> QED BY <2>1, <2>2
<1> QED BY <1>5, <1>6, PushSteady DEF Settled

\* The tracks that are queued and played at once: the one that is played stays when the
\* one that was on top goes.
LEMMA QueueAndPlaySettled ==
    ASSUME SteadyInv, NEW ks \in Albums, QueueAndPlay(ks)
    PROVE  Settled
<1> DEFINE onTop == IF amp.list = Queue /\ amp.state = "playing"
                    THEN TrackNbr(rows, Queue, 0) ELSE {}
           id == NewId(rows)
<1> SUFFICES ASSUME NEW t, t = AddTracks(rows, Queue, ks, 1),
                    NEW r, r = PlayTrack(amp, t, Queue, NewId(rows)),
                    IF onTop = {} THEN Command([r EXCEPT !.amp = [r.amp EXCEPT !.push = TRUE]])
                    ELSE LET i == CHOOSE i \in onTop : TRUE
                         IN Command(Done([r.amp EXCEPT !.push = TRUE],
                                         RemoveRow(r.rows, Queue, i), {rows[i].track}))
             PROVE  Settled
  BY DEF QueueAndPlay
<1>1. /\ Typed(t) /\ Ordered(t) /\ Elsewhere(t, rows, Queue) /\ Placed(amp, t)
      /\ id \in InList(t, Queue) /\ id \notin DOMAIN rows
      /\ DOMAIN rows \subseteq DOMAIN t
      /\ InPlace(r, t) /\ SameRows(r.rows, t) /\ Elsewhere(r.rows, rows, Queue)
      /\ InList(rows, Queue) \subseteq InList(r.rows, Queue)
  BY QueuedAndPlayed DEF SteadyInv
<1>2. /\ playlists = Lists /\ Steady(amp, rows) /\ AmpSound(amp) /\ amp \in Amps /\ Typed(rows)
  BY DEF SteadyInv, ListeningInv, Steady, Calm, AmpSound, AmpInv, Safe
<1>3. r.amp.row = id
  BY <1>1, <1>2, PlayedOnTop
<1> DEFINE c == [amp EXCEPT !.list = Queue]
<1>4. r = ChangeAbsolute(c, t, id)
  BY Names DEF PlayTrack
<1> HIDE DEF id
<1>5. Calm(c, t) /\ c.list = Queue /\ (Held(amp) => Held(c))
  <2>1. AmpSound(c)
    BY <1>2, PlaceSound, Names
  <2>2. /\ c.list = Queue /\ c.row = amp.row /\ c.fbList = amp.fbList /\ c.fbRow = amp.fbRow
        /\ c.src = amp.src /\ c.state = amp.state /\ c.ended = amp.ended /\ c.up = amp.up
    BY <1>2 DEF Amps
  <2> HIDE DEF c
  <2>3. Firm(amp, t)
    BY <1>1, <1>2, FirmElsewhere DEF Steady, Calm
  <2> QED BY <1>1, <1>2, <2>1, <2>2, <2>3 DEF Steady, Calm, Firm, Held
<1> HIDE DEF c
<1>6. Played(r, amp)
  BY <1>1, <1>2, <1>4, <1>5, ChangeAbsolutePlayed
<1>7. r.amp.list = Queue /\ id \in InList(r.rows, Queue)
  <2>1. id \in InList(r.rows, Queue)
    BY <1>1 DEF SameRows, InList
  <2>2. Placed(r.amp, r.rows)
    BY <1>1 DEF InPlace
  <2> QED BY <1>3, <2>1, <2>2 DEF Placed, InList
<1> DEFINE asked == [r.amp EXCEPT !.push = TRUE]
<1>8. Steady(asked, r.rows) /\ Started(amp, asked, r.rows)
  BY <1>6, PushSteady DEF Played
<1>9. asked.list = Queue /\ asked.row = id
  BY <1>3, <1>7, <1>6 DEF Played, Steady, Calm, AmpSound, Amps
<1>10. CASE onTop = {}
  <2> DEFINE s == [r EXCEPT !.amp = asked]
  <2>1. Command(s)
    BY <1>10
  <2> HIDE DEF asked
  <2>2. IsCall(s) /\ s.amp = asked /\ s.rows = r.rows
    BY <1>1 DEF InPlace, IsCall
  <2> HIDE DEF s
  <2>3. InPlace(s, rows)
    BY <1>1, <1>8, <2>2 DEF InPlace, Steady, Calm
  <2>4. Played(s, amp)
    BY <1>8, <2>2 DEF Played
  <2> QED BY <2>1, <2>3, <2>4, CommandSettled
<1>11. CASE onTop # {}
  <2> DEFINE i == CHOOSE i \in onTop : TRUE
             v == RemoveRow(r.rows, Queue, i)
             s == Done(asked, v, {rows[i].track})
  <2>1. i \in onTop
    BY <1>11
  <2>2. Command(s)
    BY <1>11
  <2> HIDE DEF i, asked
  <2>3. i \in InList(rows, Queue) /\ i \in DOMAIN rows
    BY <1>2, <2>1, NbrRow
  <2>4. i \in InList(r.rows, Queue) /\ i \in DOMAIN r.rows /\ i # id
    BY <2>3, <1>1 DEF InList
  <2>5. /\ Typed(v) /\ Ordered(v) /\ Elsewhere(v, r.rows, Queue)
        /\ WithoutRow(v, r.rows, Queue, i)
    BY <2>4, <1>1, RemoveRowKeeps, Names DEF InPlace
  <2> HIDE DEF v
  <2>6. id \in DOMAIN v /\ v[id].track = r.rows[id].track
    BY <1>7, <2>4, <2>5 DEF WithoutRow, InList
  <2>7. AmpSound(asked) /\ asked \in Amps /\ Placed(asked, r.rows) /\ Firm(asked, r.rows)
    BY <1>8 DEF Steady, Calm, AmpSound
  <2>8. Placed(asked, v) /\ Firm(asked, v)
    BY <2>5, <2>7, <1>1, PlacedElsewhere, FirmElsewhere DEF InPlace
  <2>9. Steady(asked, v)
    BY <1>8, <1>9, <2>6, <2>7, <2>8 DEF Steady, Calm, AtHome
  <2>10. Started(amp, asked, v)
    BY <1>7, <1>8, <1>9, <2>6 DEF Started, InList
  <2>11. Elsewhere(v, rows, Queue)
    BY <2>5, <1>1, ElsewhereTwice
  <2>12. InPlace(s, rows)
    BY <2>5, <2>7, <2>8, <2>11, DoneInPlace
  <2>13. Played(s, amp)
    BY <2>9, <2>10, DoneFields DEF Played
  <2> HIDE DEF s
  <2> QED BY <2>2, <2>12, <2>13, CommandSettled
<1> QED BY <1>10, <1>11

\* Voting and queueing keep every row.
LEMMA QueueingGrows ==
    ASSUME ListeningInv, Queueing
    PROVE  DOMAIN rows \subseteq DOMAIN rows'
<1> USE DEF ListeningInv, AmpInv, Safe
<1>1. ASSUME NEW u \in Users, NEW k \in Tracks, AddVote(u, k)
      PROVE  DOMAIN rows \subseteq DOMAIN rows'
  <2>1. CASE HasTrack(rows, Queue, k)
    <3> DEFINE r == FirstRow(rows, Queue, k)
               moved == MovedUp(r)
    <3>1. rows' = Revote(moved, RowsOf(moved, Queue, k), 1)
      BY <1>1, <2>1 DEF AddVote
    <3>2. r \in InList(rows, Queue)
      BY <2>1, FirstRowOf
    <3> HIDE DEF r
    <3>3. Typed(moved) /\ SameRows(moved, rows)
      BY <3>2, MovedUpKeeps
    <3> HIDE DEF moved
    <3>4. SameRows(rows', moved)
      BY <3>1, <3>3, RevoteKeeps
    <3> QED BY <3>3, <3>4 DEF SameRows
  <2>2. CASE ~HasTrack(rows, Queue, k)
    <3>1. rows' = AddTrack(rows, Queue, k, 1)
      BY <1>1, <2>2 DEF AddVote
    <3> QED BY <3>1 DEF AddTrack
  <2> QED BY <2>1, <2>2
<1>2. ASSUME NEW ks \in Albums, QueueTracks(ks)
      PROVE  DOMAIN rows \subseteq DOMAIN rows'
  BY <1>2 DEF QueueTracks, AddTracks
<1> QED BY <1>1, <1>2 DEF Queueing, Asking

LEMMA QueueingSettled ==
    ASSUME SteadyInv, Queueing
    PROVE  Settled
<1> DEFINE b == [amp EXCEPT !.push = TRUE]
<1>1. /\ playlists = Lists /\ Steady(amp, rows) /\ FirstsPlay(rows) /\ Typed(rows)
      /\ AmpSound(amp) /\ amp \in Amps
  BY DEF SteadyInv, ListeningInv, AmpInv, Safe, AmpSound
<1>2. Kept /\ OnlyOn(Queue) /\ UNCHANGED playlists
      /\ amp' = Pushed([amp EXCEPT !.push = TRUE], rows', playlists')
  <2>1. ASSUME NEW u \in Users, NEW k \in Tracks, AddVote(u, k)
        PROVE  Kept /\ OnlyOn(Queue) /\ UNCHANGED playlists
    BY <2>1, AddVoteStep DEF AddVote, SteadyInv, ListeningInv, AmpInv
  <2>2. ASSUME NEW ks \in Albums, QueueTracks(ks)
        PROVE  Kept /\ OnlyOn(Queue) /\ UNCHANGED playlists
    BY <2>2, AddTracksStep, Names DEF QueueTracks, SteadyInv, ListeningInv, AmpInv
  <2> QED BY <2>1, <2>2 DEF Queueing, Asking
<1>3. /\ Typed(rows') /\ Ordered(rows') /\ Elsewhere(rows', rows, Queue)
      /\ DOMAIN rows \subseteq DOMAIN rows'
  BY <1>2, QueueingGrows DEF Kept, Sound, Safe, OnlyOn, SteadyInv, ListeningInv
<1>4. AmpSound(b) /\ SamePlace(b, amp) /\ b.push
      /\ b.src = amp.src /\ b.state = amp.state /\ b.ended = amp.ended
  <2>1. AmpSound(b)
    BY <1>1, FlagsSound
  <2> QED BY <1>1, <2>1 DEF Amps, SamePlace
<1>5. amp' = Pushed(b, rows', playlists)
  BY <1>2
<1> HIDE DEF b
<1>6. Placed(amp, rows') /\ Firm(amp, rows')
  BY <1>1, <1>3, PlacedElsewhere, FirmElsewhere DEF Steady, Calm
<1>7. Placed(b, rows')
  BY <1>4, <1>6, SamePlaced
<1>8. Calm(b, rows')
  BY <1>1, <1>3, <1>4, <1>6 DEF Steady, Calm, Firm, SamePlace
<1>9. b.list # Queue => InList(rows', b.list) # {}
  <2>1. b.list # Queue => b.list \in AllLists \ {Queue} /\ InList(rows, b.list) # {}
    BY <1>1, <1>4 DEF Amps, AllLists, Steady, AtHome, SamePlace
  <2> QED BY <2>1, <1>3 DEF Elsewhere, SameList
<1>10. Started(amp, b, rows')
  BY <1>4 DEF Started, SamePlace
<1>11. FirstsPlay(rows')
  BY <1>1, <1>3, FirstsPlayElsewhere
<1>12. Steady(Pushed(b, rows', playlists), rows')
       /\ Started(amp, Pushed(b, rows', playlists), rows')
  BY <1>1, <1>3, <1>4, <1>7, <1>8, <1>9, <1>10, <1>11, PushedSteady
<1> QED BY <1>5, <1>11, <1>12 DEF Settled

LEMMA SteadyStep ==
    ASSUME SteadyInv, PlaylistPlay \/ QueuePlay \/ Queueing
    PROVE  Settled
<1>1. CASE PlaylistPlay
  <2>1. CASE NextTrack \/ PreviousTrack
    BY <2>1, NextSettled DEF NextTrack, PreviousTrack
  <2>2. CASE Play
    BY <2>2, PlaySettled
  <2>3. CASE Pause \/ Stop \/ PlayTokenLost
    BY <2>3, HaltSettled
  <2>4. CASE GetStatus \/ Seek
    BY <2>4, StatusSettled
  <2>5. CASE EndOfStream
    BY <2>5, EndOfStreamSettled
  <2>6. ASSUME NEW p \in playlists, NEW i \in InList(rows, p), PlayTrackOf(p, i)
        PROVE  Settled
    <3>1. p \in AllLists /\ p # NoList
      BY Names DEF AllLists, SteadyInv, ListeningInv
    <3> QED BY <2>6, <3>1, PlayTrackSettled
  <2> QED BY <1>1, <2>1, <2>2, <2>3, <2>4, <2>5, <2>6 DEF PlaylistPlay
<1>2. CASE QueuePlay
  BY <1>2, QueueAndPlaySettled, PlayTrackSettled DEF QueuePlay
<1>3. CASE Queueing
  BY <1>3, QueueingSettled
<1> QED BY <1>1, <1>2, <1>3

LEMMA SteadyStutter ==
    ASSUME SteadyInv, UNCHANGED ampVars
    PROVE  Settled
BY DEF SteadyInv, ampVars, Settled, Started

LEMMA SteadyNext ==
    ASSUME VoteQueueAssumption, SteadyInv, [PlaylistPlay \/ QueuePlay \/ Queueing]_ampVars
    PROVE  SteadyInv' /\ Settled
<1>1. ListeningInv'
  BY ListeningNext DEF SteadyInv
<1>2. Settled
  BY SteadyStep, SteadyStutter
<1> QED BY <1>1, <1>2 DEF SteadyInv, Settled

\* The track that a listening session's playlist begins with can be played.
FirstPlays == Saved # <<>> => Saved[1] \notin Unplayable

LEMMA SteadyStart ==
    ASSUME VoteQueueAssumption, AmpAssumption, FirstPlays, ListeningInit
    PROVE  SteadyInv
<1>1. ListeningInv
  BY ListeningStart
<1>2. amp = Silent /\ AmpSound(amp)
  BY SilentSound DEF ListeningInit
<1>3. Steady(amp, rows)
  BY <1>1, <1>2 DEF Silent, ListeningInv, Steady, Calm, Firm, AtHome
<1>4. FirstsPlay(rows)
  <2> SUFFICES ASSUME NEW p \in Lists, NEW i \in InList(rows, p), rows[i].pos = 1
               PROVE  rows[i].track \notin Unplayable
    BY DEF FirstsPlay
  <2>1. i \in 1 .. Len(Saved) /\ rows[i].pos = i /\ rows[i].track = Saved[i]
    BY DEF ListeningInit, InList
  <2>2. Saved \in Seq(Tracks)
    BY DEF AmpAssumption
  <2>3. i = 1 /\ Saved # <<>>
    BY <2>1, <2>2
  <2> QED BY <2>1, <2>3 DEF FirstPlays
<1> QED BY <1>1, <1>3, <1>4 DEF SteadyInv

\* The active playlist has rows and keeps one of them active, nothing plays without a
\* source and a row, and no stream ends without another that is started or a stop.
THEOREM SteadyInvariance == FirstPlays => (ListeningSpec => []SteadyInv)
<1> SUFFICES ASSUME FirstPlays PROVE ListeningSpec => []SteadyInv
  OBVIOUS
<1>1. ListeningInit => SteadyInv
  BY VoteQueueAssumption, AmpAssumption, SteadyStart
<1>2. SteadyInv /\ [PlaylistPlay \/ QueuePlay \/ Queueing]_ampVars => SteadyInv'
  BY VoteQueueAssumption, SteadyNext
<1> QED BY <1>1, <1>2, PTL DEF ListeningSpec

\* While nobody takes rows away and the playlist begins with a track that can be played,
\* a row that becomes active and plays is what the source plays (start_track), also when
\* the spotify element is given another track: change_track has stopped it by then.
THEOREM ActiveStarted == FirstPlays => (ListeningSpec => StartsActive)
<1> SUFFICES ASSUME FirstPlays PROVE ListeningSpec => StartsActive
  OBVIOUS
<1>1. SteadyInv /\ [PlaylistPlay \/ QueuePlay \/ Queueing]_ampVars
        => [InHand /\ amp'.row # amp.row /\ amp'.state = "playing"
              => Loaded(amp') = rows'[amp'.row].track]_ampVars
  BY VoteQueueAssumption, SteadyNext DEF Settled, Started, Held, InHand
<1>2. ListeningSpec => []SteadyInv
  BY SteadyInvariance
<1> QED BY <1>1, <1>2, PTL DEF ListeningSpec, StartsActive

-------------------------------------------------------------------------------
(* The end of a stream.  What is next, as change_track finds it.                *)

\* The first row of a playlist in order.
LEMMA FirstNbr ==
    ASSUME NEW t, Typed(t), Ordered(t), NEW p \in AllLists
    PROVE  TrackNbr(t, p, 0) = {j \in InList(t, p) : \A l \in InList(t, p) : t[j].pos <= t[l].pos}
<1>1. /\ TrackNbr(t, p, 0) = {j \in InList(t, p) : t[j].pos = 0 + 1}
      /\ \A j \in InList(t, p) : t[j].pos \in 1 .. Length(t, p)
      /\ \A k \in 1 .. Length(t, p) : \E j \in InList(t, p) : t[j].pos = k
  BY NbrInOrder DEF Typed, Ordered
<1>2. Length(t, p) \in Nat
  BY LengthType DEF Typed
<1>3. \A j \in InList(t, p) : t[j].pos \in Nat /\ t[j].pos >= 1 /\ 1 \in 1 .. Length(t, p)
  BY <1>1, <1>2
<1>4. ASSUME NEW j \in InList(t, p), \A l \in InList(t, p) : t[j].pos <= t[l].pos
      PROVE  t[j].pos = 1
  <2>1. PICK l \in InList(t, p) : t[l].pos = 1
    BY <1>1, <1>3
  <2>2. t[j].pos <= 1
    BY <1>4, <2>1
  <2> QED BY <1>3, <2>2
<1> QED BY <1>1, <1>3, <1>4

\* No two rows of a playlist in order are at the same position.
LEMMA OneNbr ==
    ASSUME NEW t, Typed(t), Ordered(t), NEW p \in AllLists, NEW n \in Nat,
           NEW i \in TrackNbr(t, p, n), NEW j \in TrackNbr(t, p, n)
    PROVE  i = j
<1>1. TrackNbr(t, p, n) = {l \in InList(t, p) : t[l].pos = n + 1}
  BY NbrInOrder DEF Typed, Ordered
<1>2. PICK k \in Nat : IsOrder(t, p, k)
  BY DEF Ordered, InOrder
<1> QED BY <1>1, <1>2 DEF IsOrder

\* Taking a row out of the queue leaves the others in their order.
LEMMA RestFirst ==
    ASSUME NEW t, Typed(t), Ordered(t), NEW i \in InList(t, Queue), NEW s, s = RemoveRow(t, Queue, i)
    PROVE  /\ InList(s, Queue) = InList(t, Queue) \ {i}
           /\ TrackNbr(s, Queue, 0) = {j \in InList(t, Queue) \ {i} :
                 \A l \in InList(t, Queue) \ {i} : t[j].pos <= t[l].pos}
<1>1. i \in DOMAIN t /\ t[i].pos \in Nat
  BY RowTyped DEF InList
<1>2. Typed(s) /\ Ordered(s) /\ WithoutRow(s, t, Queue, i)
  BY <1>1, RemoveRowKeeps, Names
<1>3. InList(s, Queue) = InList(t, Queue) \ {i}
  BY <1>2 DEF WithoutRow, InList
<1>4. TrackNbr(s, Queue, 0) = {j \in InList(s, Queue) : \A l \in InList(s, Queue) : s[j].pos <= s[l].pos}
  BY <1>2, FirstNbr, Names
<1>5. ASSUME NEW j \in InList(t, Queue) \ {i}
      PROVE  /\ t[j].pos \in Nat /\ t[j].pos # t[i].pos
             /\ s[j].pos = IF t[j].pos > t[i].pos THEN t[j].pos - 1 ELSE t[j].pos
  <2>1. j \in DOMAIN t /\ t[j].pl = Queue /\ t[j].pos \in Nat
    BY RowTyped DEF InList
  <2>2. PICK n \in Nat : IsOrder(t, Queue, n)
    BY Names DEF Ordered, InOrder
  <2>3. t[j].pos # t[i].pos
    BY <2>2 DEF IsOrder
  <2> QED BY <1>2, <2>1, <2>3 DEF WithoutRow
<1>6. ASSUME NEW j \in InList(t, Queue) \ {i}, NEW l \in InList(t, Queue) \ {i}
      PROVE  s[j].pos <= s[l].pos <=> t[j].pos <= t[l].pos
  <2>1. /\ t[j].pos \in Nat /\ t[j].pos # t[i].pos
        /\ s[j].pos = IF t[j].pos > t[i].pos THEN t[j].pos - 1 ELSE t[j].pos
    BY <1>5
  <2>2. /\ t[l].pos \in Nat /\ t[l].pos # t[i].pos
        /\ s[l].pos = IF t[l].pos > t[i].pos THEN t[l].pos - 1 ELSE t[l].pos
    BY <1>5
  <2> QED BY <1>1, <2>1, <2>2
<1> QED BY <1>3, <1>4, <1>6

\* The rows directly behind a row.
LEMMA NbrBehind ==
    ASSUME NEW t, Typed(t), Ordered(t), NEW p \in AllLists, NEW i \in InList(t, p)
    PROVE  /\ t[i].pos \in Nat
           /\ TrackNbr(t, p, t[i].pos) = {j \in InList(t, p) : t[j].pos = t[i].pos + 1}
           /\ t[i].pos >= Length(t, p) => TrackNbr(t, p, t[i].pos) = {}
<1>1. t[i].pos \in Nat
  BY RowTyped DEF InList
<1>2. TrackNbr(t, p, t[i].pos) = {j \in InList(t, p) : t[j].pos = t[i].pos + 1}
  BY <1>1, NbrInOrder DEF Typed, Ordered
<1>3. \A j \in InList(t, p) : t[j].pos \in 1 .. Length(t, p)
  BY NbrInOrder DEF Typed, Ordered
<1>4. Length(t, p) \in Nat
  BY LengthType DEF Typed
<1>5. ASSUME t[i].pos >= Length(t, p), NEW j \in InList(t, p), t[j].pos = t[i].pos + 1
      PROVE  FALSE
  <2>1. t[j].pos <= Length(t, p)
    BY <1>3, <1>4
  <2> QED BY <1>1, <1>4, <1>5, <2>1
<1> QED BY <1>1, <1>2, <1>5

\* The end of a stream, whose outcome is r, stops the amp b or has it play what is next;
\* back in a playlist, what is next is behind the row that was saved.
Ends(b, r) ==
    /\ Ready(b, r.rows) /\ b.src # NoSrc /\ (InHand => Handy(b))
    /\ \/ Upcoming = {} /\ r.amp = SetState(b, "null")
       \/ \E n \in Nat, K \in SUBSET Tracks :
             /\ r.amp = PlayNbr(b, r.rows, b.list, n, K).amp
             /\ TrackNbr(r.rows, b.list, n) = Upcoming
    /\ amp.list = Queue /\ b.list # Queue =>
          /\ b.list = amp.fbList /\ amp.fbRow \in InList(r.rows, b.list)
          /\ Upcoming = {j \in InList(r.rows, b.list) :
                            r.rows[j].pos = r.rows[amp.fbRow].pos + 1}
    /\ \A j \in Upcoming : r.rows[j].track = rows[j].track

\* The stream of a row of the queue ends.
LEMMA QueueEnds ==
    ASSUME SteadyInv, amp.list = Queue, amp.row \in DOMAIN rows,
           NEW a, Ready(a, rows), Placed(a, rows), SamePlace(a, amp), a.src # NoSrc,
           InHand => Handy(a), NEW r, r = NextInQueue(a, rows)
    PROVE  \E b : Ends(b, r)
<1> DEFINE s == RemoveRow(rows, Queue, a.row)
           K == {rows[a.row].track}
           queued == InList(rows, Queue) \ {amp.row}
<1>1. /\ Typed(rows) /\ Ordered(rows) /\ playlists = Lists /\ AmpSound(a) /\ a \in Amps
      /\ a.list = Queue /\ a.row = amp.row /\ a.fbList = amp.fbList /\ a.fbRow = amp.fbRow
  BY DEF SteadyInv, ListeningInv, AmpInv, Safe, Ready, AmpSound, SamePlace
<1>2. amp.row \in InList(rows, Queue) /\ K \in SUBSET Tracks
  BY <1>1, RowTyped DEF Placed, InList
<1>3. /\ Typed(s) /\ Ordered(s) /\ Elsewhere(s, rows, Queue) /\ WithoutRow(s, rows, Queue, amp.row)
  BY <1>1, RemoveRowKeeps, <1>2, Names
<1>4. InList(s, Queue) = queued /\ TrackNbr(s, Queue, 0) = FirstOf(queued)
  BY <1>1, <1>2, RestFirst DEF FirstOf
<1>5. r = IF Length(s, Queue) = 0 THEN FallBack(a, s, K) ELSE PlayNbr(a, s, Queue, 0, K)
  BY DEF NextInQueue
<1>6. Length(s, Queue) = 0 <=> queued = {}
  BY <1>3, <1>4, LengthType DEF Typed
<1>7. \A j \in queued : s[j].track = rows[j].track
  BY <1>3 DEF WithoutRow, InList
<1> HIDE DEF s, K
<1>8. Ready(a, s)
  BY <1>1, <1>3, FirmElsewhere DEF Ready
<1>9. CASE queued # {}
  <2>1. Upcoming = FirstOf(queued) /\ FirstOf(queued) \subseteq queued
    BY <1>9 DEF Upcoming, FirstOf
  <2>2. r = PlayNbr(a, s, Queue, 0, K)
    BY <1>5, <1>6, <1>9
  <2>3. r.rows = s
    BY <1>1, <1>3, <2>2, PlayNbrSound
  <2> HIDE DEF queued
  <2>4. Ends(a, r)
    BY <1>1, <1>2, <1>4, <1>7, <1>8, <2>1, <2>2, <2>3 DEF Ends
  <2> QED BY <2>4
<1>10. CASE queued = {} /\ amp.fbList = NoList
  <2>1. Upcoming = {}
    BY <1>10 DEF Upcoming
  <2>2. r = Done(SetState(a, "null"), s, K)
    BY <1>1, <1>5, <1>6, <1>10 DEF FallBack
  <2>3. r.rows = s /\ r.amp = SetState(a, "null")
    BY <2>2, DoneFields
  <2>4. Ends(a, r)
    BY <1>1, <1>8, <2>1, <2>3 DEF Ends
  <2> QED BY <2>4
<1>11. CASE queued = {} /\ amp.fbList # NoList
  <2> DEFINE b == [a EXCEPT !.list = a.fbList, !.row = a.fbRow]
             i == amp.fbRow
             p == amp.fbList
  <2>1. p \in Lists /\ p \in AllLists \ {Queue} /\ i \in Nat \cup {NoRow}
    BY <1>1, <1>11, VoteQueueAssumption DEF Amps, AllLists, VoteQueueAssumption
  <2>2. AmpSound(b)
    BY <1>1, <2>1, PlaceSound
  <2>3. /\ b.list = p /\ b.row = i /\ b.fbList = p /\ b.fbRow = i
        /\ b.src = a.src /\ b.state = a.state /\ b.ended = a.ended /\ b.up = a.up
    BY <1>1 DEF Amps
  <2>4. r = FallBack(a, s, K)
    BY <1>5, <1>6, <1>11
  <2>5. r = IF ~Exists(b.list, playlists) \/ b.row \notin DOMAIN s THEN Raised(b, s, K)
            ELSE IF s[b.row].pos >= Length(s, b.list) THEN Done(SetState(b, "null"), s, K)
            ELSE PlayNbr(b, s, b.list, s[b.row].pos, K)
    BY <1>1, <1>11, <2>4 DEF FallBack
  <2> HIDE DEF b
  <2>6. i \in InList(s, p) /\ i \in InList(rows, p) /\ i \in DOMAIN s
    BY <1>1, <1>3, <1>8, <1>11, <2>1 DEF Ready, Firm, Elsewhere, SameList, InList
  <2>7. Ready(b, s) /\ (InHand => Handy(b)) /\ b.src # NoSrc
    BY <1>8, <2>2, <2>3, <2>6 DEF Ready, Firm, Handy
  <2>8. Upcoming = Behind(p, i)
    BY <1>11, VoteQueueAssumption DEF Upcoming
  <2>9. /\ Behind(p, i) = {j \in InList(s, p) : s[j].pos = s[i].pos + 1}
        /\ \A j \in Behind(p, i) : s[j].track = rows[j].track
    BY <1>3, <2>1, <2>6 DEF Behind, Elsewhere, SameList
  <2>10. /\ s[i].pos \in Nat /\ TrackNbr(s, p, s[i].pos) = Behind(p, i)
         /\ s[i].pos >= Length(s, p) => Behind(p, i) = {}
    BY <1>3, <2>1, <2>6, <2>9, NbrBehind
  <2>11. Exists(b.list, playlists)
    BY <1>1, <2>1, <2>3 DEF Exists
  <2>12. CASE s[i].pos >= Length(s, p)
    <3>1. r = Done(SetState(b, "null"), s, K)
      BY <2>3, <2>5, <2>6, <2>11, <2>12
    <3>2. r.rows = s /\ r.amp = SetState(b, "null")
      BY <3>1, DoneFields
    <3>3. Ends(b, r)
      BY <2>3, <2>6, <2>7, <2>8, <2>9, <2>10, <2>12, <3>2 DEF Ends
    <3> QED BY <3>3
  <2>13. CASE ~(s[i].pos >= Length(s, p))
    <3>1. r = PlayNbr(b, s, b.list, s[i].pos, K)
      BY <2>3, <2>5, <2>6, <2>11, <2>13
    <3>2. r.rows = s
      BY <1>3, <2>2, <3>1, PlayNbrSound
    <3>3. Ends(b, r)
      BY <1>2, <2>3, <2>6, <2>7, <2>8, <2>9, <2>10, <3>1, <3>2 DEF Ends, K
    <3> QED BY <3>3
  <2> QED BY <2>12, <2>13
<1> QED BY <1>9, <1>10, <1>11

\* The stream of a row of an ordinary playlist ends.
LEMMA PlaylistEnds ==
    ASSUME SteadyInv, amp.list # Queue, amp.row \in DOMAIN rows,
           NEW a, Ready(a, rows), Placed(a, rows), SamePlace(a, amp), a.src # NoSrc,
           InHand => Handy(a), NEW r,
           \/ InList(rows, Queue) # {} /\ r = EnterQueue(a, rows)
           \/ InList(rows, Queue) = {} /\ r = PlayNbr(a, rows, a.list, rows[a.row].pos - 1 + 1, {})
    PROVE  \E b : Ends(b, r)
<1>1. /\ Typed(rows) /\ Ordered(rows) /\ AmpSound(a) /\ a \in Amps
      /\ a.list = amp.list /\ a.row = amp.row /\ a.list \in Lists /\ a.list \in AllLists
  BY DEF SteadyInv, ListeningInv, AmpInv, Safe, Ready, AmpSound, SamePlace, Amps, AllLists
<1>2. amp.row \in InList(rows, amp.list) /\ amp.row \notin InList(rows, Queue)
  BY <1>1 DEF Placed, InList
<1>3. CASE InList(rows, Queue) # {} /\ r = EnterQueue(a, rows)
  <2> DEFINE b == [a EXCEPT !.list = Queue, !.fbList = a.list, !.fbRow = a.row]
  <2>1. AmpSound(b)
    BY <1>1, FallBackPlaceSound
  <2>2. r = PlayNbr(b, rows, Queue, 0, {})
    BY <1>3 DEF EnterQueue
  <2>3. /\ b.list = Queue /\ b.fbList = a.list /\ b.fbRow = a.row
        /\ b.src = a.src /\ b.state = a.state /\ b.ended = a.ended /\ b.up = a.up
    BY <1>1 DEF Amps
  <2> HIDE DEF b
  <2>4. Ready(b, rows) /\ (InHand => Handy(b))
    BY <1>1, <1>2, <2>1, <2>3 DEF Ready, Firm, Handy
  <2>5. Upcoming = TrackNbr(rows, Queue, 0)
    <3>1. InList(rows, Queue) \ {amp.row} = InList(rows, Queue)
      BY <1>2
    <3>2. TrackNbr(rows, Queue, 0) = FirstOf(InList(rows, Queue))
      BY <1>1, FirstNbr, Names DEF FirstOf
    <3> QED BY <1>3, <3>1, <3>2 DEF Upcoming
  <2>6. r.rows = rows
    BY <1>1, <2>1, <2>2, PlayNbrSound
  <2>7. Ends(b, r)
    BY <2>2, <2>3, <2>4, <2>5, <2>6 DEF Ends
  <2> QED BY <2>7
<1>4. CASE InList(rows, Queue) = {} /\ r = PlayNbr(a, rows, a.list, rows[a.row].pos - 1 + 1, {})
  <2>1. /\ rows[amp.row].pos \in Nat
        /\ TrackNbr(rows, amp.list, rows[amp.row].pos) = Behind(amp.list, amp.row)
    BY <1>1, <1>2, NbrBehind DEF Behind
  <2>2. rows[amp.row].pos - 1 + 1 = rows[amp.row].pos
    BY <2>1
  <2>3. r = PlayNbr(a, rows, a.list, rows[amp.row].pos, {})
    BY <1>1, <1>4, <2>2
  <2>4. Upcoming = Behind(amp.list, amp.row)
    BY <1>4 DEF Upcoming
  <2>5. r.rows = rows
    BY <1>1, <2>3, PlayNbrSound
  <2>6. Ends(a, r)
    BY <1>1, <2>1, <2>3, <2>4, <2>5 DEF Ends
  <2> QED BY <2>6
<1> QED BY <1>3, <1>4

LEMMA EndOfStreamEnds ==
    ASSUME SteadyInv, EndOfStream
    PROVE  \E r : /\ \E b : Ends(b, r)
                  /\ rows' = r.rows /\ AmpSound(r.amp)
                  /\ Typed(r.rows) /\ Ordered(r.rows)
                  /\ amp' = [r.amp EXCEPT !.push = r.amp.push \/ r.ok]
<1> DEFINE a == [amp EXCEPT !.ended = TRUE]
<1> SUFFICES ASSUME NEW r, r = ChangeRelative(a, rows, 1), amp.state = "playing", amp.src # NoSrc,
                    amp' = [r.amp EXCEPT !.push = r.amp.push \/ r.ok], rows' = r.rows
             PROVE  /\ \E b : Ends(b, r)
                    /\ AmpSound(r.amp) /\ Typed(r.rows) /\ Ordered(r.rows)
  BY DEF EndOfStream
<1>1. /\ Typed(rows) /\ Ordered(rows) /\ playlists = Lists
      /\ Steady(amp, rows) /\ amp \in Amps /\ amp.row \in DOMAIN rows
  BY DEF SteadyInv, ListeningInv, AmpInv, Safe, AmpSound, Steady, Calm
<1>2. AmpSound(a) /\ SamePlace(a, amp) /\ a.src = amp.src /\ a.up = amp.up
  <2>1. AmpSound(a)
    BY <1>1, FlagsSound DEF Steady, Calm
  <2> QED BY <1>1, <2>1 DEF SamePlace, Amps
<1> HIDE DEF a
<1>3. Ready(a, rows) /\ Placed(a, rows) /\ a.row \in DOMAIN rows /\ (InHand => Handy(a))
  BY <1>1, <1>2, SamePlaced DEF Steady, Calm, Ready, Firm, SamePlace, InHand, Handy
<1>4. InPlace(r, rows)
  BY <1>1, <1>2, <1>3, ChangeRelativeInPlace
<1>5. a = Status(a, rows, playlists)
  <2>1. a = FetchTrack(a, rows)
    BY <1>3 DEF FetchTrack
  <2> QED BY <1>1, <1>2, <2>1, StatusFetches DEF AmpSound
<1>6. Found(a, rows) /\ (Length(rows, Queue) > 0 <=> InList(rows, Queue) # {})
  <2>1. a.row \in InList(rows, a.list) /\ a.row # NoRow
    BY <1>1, <1>3, NoRowNowhere DEF Placed, InList
  <2>2. \A p : Length(rows, p) \in Nat /\ (Length(rows, p) = 0 <=> InList(rows, p) = {})
    BY <1>1, LengthType DEF Typed
  <2>3. Length(rows, a.list) > 0
    BY <2>1, <2>2
  <2>4. Length(rows, Queue) > 0 <=> InList(rows, Queue) # {}
    BY <2>2
  <2> QED BY <2>1, <2>3, <2>4 DEF Found
<1>7. ChangeRelative(a, rows, 1) =
        CASE ~Found(a, rows) -> Done(a, rows, {})
          [] Found(a, rows) /\ a.list = Queue /\ 1 = 1 -> NextInQueue(a, rows)
          [] Found(a, rows) /\ a.list = Queue /\ 1 = -1 -> Done(a, rows, {})
          [] Found(a, rows) /\ a.list # Queue /\ Length(rows, Queue) > 0 -> EnterQueue(a, rows)
          [] OTHER -> PlayNbr(a, rows, a.list, rows[a.row].pos - 1 + 1, {})
  BY <1>5 DEF ChangeRelative
<1>8. CASE a.list = Queue
  <2>1. r = NextInQueue(a, rows)
    BY <1>6, <1>7, <1>8
  <2>2. amp.list = Queue /\ amp.row \in DOMAIN rows
    BY <1>1, <1>2, <1>8 DEF SamePlace
  <2>3. \E b : Ends(b, r)
    BY <1>2, <1>3, <2>1, <2>2, QueueEnds
  <2> QED BY <1>4, <2>3 DEF InPlace
<1>9. CASE a.list # Queue
  <2>1. \/ InList(rows, Queue) # {} /\ r = EnterQueue(a, rows)
        \/ InList(rows, Queue) = {} /\ r = PlayNbr(a, rows, a.list, rows[a.row].pos - 1 + 1, {})
    BY <1>6, <1>7, <1>9
  <2>2. amp.list # Queue /\ amp.row \in DOMAIN rows
    BY <1>1, <1>2, <1>9 DEF SamePlace
  <2>3. \E b : Ends(b, r)
    BY <1>2, <1>3, <2>1, <2>2, PlaylistEnds
  <2> QED BY <1>4, <2>3 DEF InPlace
<1> QED BY <1>8, <1>9

\* The outcome that change_track promises when a stream ends.
LEMMA EndsNext ==
    ASSUME NEW b, NEW r, Ends(b, r), AmpSound(r.amp), Typed(r.rows), Ordered(r.rows),
           NEW c, c = r.amp
    PROVE  /\ ~c.ended /\ c.list = b.list
           /\ c.state = "playing" => c.row \in Upcoming
           /\ InHand /\ (\E j \in Upcoming : rows[j].track \notin Unplayable \cup Broken) =>
                c.row \in Upcoming /\ Loaded(c) = rows[c.row].track /\ c.state = "playing"
           /\ InHand /\ ~(\E j \in Upcoming : rows[j].track \notin Unplayable \cup Broken) =>
                c.state # "playing"
<1> DEFINE t == r.rows
<1>1. Ready(b, t) /\ b.src # NoSrc /\ (InHand => Handy(b)) /\ AmpSound(b) /\ b \in Amps
  BY DEF Ends, Ready, AmpSound
<1>2. CASE Upcoming = {} /\ c = SetState(b, "null")
  <2>1. c.state # "playing" /\ ~c.ended
    BY <1>1, <1>2, Stopped
  <2>2. c.list = b.list
    BY <1>1, <1>2, SetStatePlace DEF SamePlace
  <2> QED BY <1>2, <2>1, <2>2
<1>3. ASSUME NEW n \in Nat, NEW K \in SUBSET Tracks,
             c = PlayNbr(b, t, b.list, n, K).amp, TrackNbr(t, b.list, n) = Upcoming
      PROVE  /\ ~c.ended /\ c.list = b.list
             /\ c.state = "playing" => c.row \in Upcoming
             /\ InHand /\ (\E j \in Upcoming : rows[j].track \notin Unplayable \cup Broken) =>
                  c.row \in Upcoming /\ Loaded(c) = rows[c.row].track /\ c.state = "playing"
             /\ InHand /\ ~(\E j \in Upcoming : rows[j].track \notin Unplayable \cup Broken) =>
                  c.state # "playing"
  <2>1. n = IF n < 0 THEN 0 ELSE n
    BY <1>3
  <2>2. /\ c.ended => b.ended /\ b.src = NoSrc
        /\ \/ /\ TrackNbr(t, b.list, n) = {} /\ c.row = NoRow
              /\ c.state = "playing" => b.src = NoSrc /\ b.state = "playing"
           \/ \E i \in TrackNbr(t, b.list, n) :
                 /\ c.row = i
                 /\ t[i].track \in Unplayable /\ c.state = "playing" =>
                       b.src = NoSrc /\ b.state = "playing"
                 /\ Handy(b) /\ t[i].track \notin Unplayable =>
                       /\ Loaded(c) = t[i].track
                       /\ t[i].track \notin Broken => c.state = "playing"
                       /\ t[i].track \in Broken /\ c.state = "playing" =>
                             b.src = NoSrc /\ b.state = "playing"
    BY <1>1, <1>3, <2>1, PlayNbrPlays
  <2>3. c.list = b.list
    BY <1>1, <1>3, <2>1, PlayNbrPlace
  <2>4. CASE TrackNbr(t, b.list, n) = {} /\ (c.state = "playing" => b.src = NoSrc /\ b.state = "playing")
    BY <1>1, <1>3, <2>2, <2>3, <2>4
  <2>5. ASSUME NEW i \in Upcoming, c.row = i,
               t[i].track \in Unplayable /\ c.state = "playing" => b.src = NoSrc,
               Handy(b) /\ t[i].track \notin Unplayable =>
                  /\ Loaded(c) = t[i].track
                  /\ t[i].track \notin Broken => c.state = "playing"
                  /\ t[i].track \in Broken /\ c.state = "playing" => b.src = NoSrc
        PROVE  /\ c.row \in Upcoming
               /\ InHand /\ (\E j \in Upcoming : rows[j].track \notin Unplayable \cup Broken) =>
                    c.row \in Upcoming /\ Loaded(c) = rows[c.row].track /\ c.state = "playing"
               /\ InHand /\ ~(\E j \in Upcoming : rows[j].track \notin Unplayable \cup Broken) =>
                    c.state # "playing"
    <3>1. t[i].track = rows[i].track
      BY DEF Ends
    <3>2. b.list \in AllLists
      BY <1>1 DEF Amps, AllLists
    <3>3. \A j \in Upcoming : j = i
      BY <1>3, <3>2, OneNbr
    <3>4. CASE InHand /\ rows[i].track \notin Unplayable \cup Broken
      BY <1>1, <2>5, <3>1, <3>4
    <3>5. CASE InHand /\ rows[i].track \in Unplayable \cup Broken
      BY <1>1, <2>5, <3>1, <3>3, <3>5
    <3> QED BY <2>5, <3>3, <3>4, <3>5
  <2> QED BY <1>1, <1>3, <2>2, <2>3, <2>4, <2>5
<1> QED BY <1>2, <1>3 DEF Ends

\* The step that ends a stream, for the amp that it leaves.
LEMMA EndOfStreamNext ==
    ASSUME SteadyInv, EndOfStream
    PROVE  /\ ~amp'.ended
           /\ InHand /\ (\E j \in Upcoming : rows[j].track \notin Unplayable \cup Broken) =>
                /\ amp'.row \in Upcoming /\ Loaded(amp') = rows[amp'.row].track
                /\ amp'.state = "playing"
           /\ InHand /\ ~(\E j \in Upcoming : rows[j].track \notin Unplayable \cup Broken) =>
                amp'.state # "playing"
           /\ amp.list = Queue /\ amp'.list # Queue =>
                /\ amp'.list = amp.fbList
                /\ amp'.state = "playing" => rows'[amp'.row].pos = rows'[amp.fbRow].pos + 1
<1>1. PICK r : /\ \E b : Ends(b, r)
               /\ rows' = r.rows /\ AmpSound(r.amp)
               /\ Typed(r.rows) /\ Ordered(r.rows)
               /\ amp' = [r.amp EXCEPT !.push = r.amp.push \/ r.ok]
  BY EndOfStreamEnds
<1>2. PICK b : Ends(b, r)
  BY <1>1
<1>3. PICK c : c = r.amp
  OBVIOUS
<1>4. /\ amp'.ended = c.ended /\ amp'.list = c.list /\ amp'.state = c.state
      /\ amp'.row = c.row /\ Loaded(amp') = Loaded(c)
  <2>1. /\ amp'.ended = c.ended /\ amp'.list = c.list /\ amp'.state = c.state
        /\ amp'.row = c.row /\ amp'.src = c.src /\ amp'.uri = c.uri
    BY <1>1, <1>3 DEF AmpSound, Amps
  <2> QED BY <2>1 DEF Loaded
<1>5. /\ ~c.ended /\ c.list = b.list
      /\ c.state = "playing" => c.row \in Upcoming
      /\ InHand /\ (\E j \in Upcoming : rows[j].track \notin Unplayable \cup Broken) =>
           c.row \in Upcoming /\ Loaded(c) = rows[c.row].track /\ c.state = "playing"
      /\ InHand /\ ~(\E j \in Upcoming : rows[j].track \notin Unplayable \cup Broken) =>
           c.state # "playing"
  BY <1>1, <1>2, <1>3, EndsNext
<1>6. amp.list = Queue /\ amp'.list # Queue =>
         /\ amp'.list = amp.fbList
         /\ amp'.state = "playing" => rows'[amp'.row].pos = rows'[amp.fbRow].pos + 1
  BY <1>1, <1>2, <1>4, <1>5 DEF Ends
<1> QED BY <1>4, <1>5, <1>6

\* While nobody takes rows away and the playlist begins with a track that can be played,
\* the end of a stream starts the track that is next (pipeline_message, change_track),
\* whether that is in the queue, in the playlist or behind the row that the amp left; if
\* it cannot be played, nothing plays.
THEOREM EndStartsNext == FirstPlays => (ListeningSpec => EndPlaysNext)
<1> SUFFICES ASSUME FirstPlays PROVE ListeningSpec => EndPlaysNext
  OBVIOUS
<1>1. SteadyInv /\ [PlaylistPlay \/ QueuePlay \/ Queueing]_ampVars
        => [EndOfStream /\ InHand =>
              IF \E j \in Upcoming : rows[j].track \notin Unplayable \cup Broken
              THEN /\ amp'.row \in Upcoming /\ Loaded(amp') = rows[amp'.row].track
                   /\ amp'.state = "playing" /\ ~amp'.ended
              ELSE amp'.state # "playing"]_ampVars
  BY EndOfStreamNext
<1>2. ListeningSpec => []SteadyInv
  BY SteadyInvariance
<1> QED BY <1>1, <1>2, PTL DEF ListeningSpec, EndPlaysNext

-------------------------------------------------------------------------------
(* Leaving a playlist for the queue, and coming back.                           *)

\* From amp a to amp b: nothing is saved, or the playlist that is left for the queue is.
Stays(b, a) ==
    /\ b.fbList = a.fbList /\ b.fbRow = a.fbRow
    /\ a.list # Queue => b.list # Queue
Saves(b, a) ==
    /\ a.list # Queue /\ b.list = Queue
    /\ b.fbList = a.list /\ (a.row # NoRow => b.fbRow = a.row)
Switched(b, a) == Stays(b, a) \/ Saves(b, a)

LEMMA SwitchedSame ==
    ASSUME NEW a, NEW b, Switched(b, a), NEW c,
           c.list = b.list, c.fbList = b.fbList, c.fbRow = b.fbRow
    PROVE  Switched(c, a)
BY DEF Switched, Stays, Saves

LEMMA PushedPlace ==
    ASSUME playlists = Lists, NEW t, Typed(t), NEW b, AmpSound(b)
    PROVE  /\ Pushed(b, t, playlists).list = b.list
           /\ Pushed(b, t, playlists).fbList = b.fbList
           /\ Pushed(b, t, playlists).fbRow = b.fbRow
<1> DEFINE c == FetchTrack(b, t)
<1>1. Status(b, t, playlists) = c
  BY StatusFetches DEF AmpSound
<1>2. Pushed(b, t, playlists) = b \/ Pushed(b, t, playlists) = [c EXCEPT !.push = FALSE]
  BY <1>1 DEF Pushed
<1>3. AmpSound(c) /\ c.list = b.list /\ c.fbList = b.fbList /\ c.fbRow = b.fbRow
  BY FetchTrackSound, FetchTrackPlace
<1> HIDE DEF c
<1>4. SamePlace([c EXCEPT !.push = FALSE], c)
  BY <1>3, FlagsPlace DEF AmpSound
<1> QED BY <1>2, <1>3, <1>4 DEF SamePlace

LEMMA PushedSwitched ==
    ASSUME playlists = Lists, NEW t, Typed(t), NEW b, AmpSound(b), NEW a, Switched(b, a)
    PROVE  Switched(Pushed(b, t, playlists), a)
BY PushedPlace, SwitchedSame

LEMMA AnsweredSwitched ==
    ASSUME NEW t, NEW r, InPlace(r, t), NEW a, Switched(r.amp, a)
    PROVE  Switched(Answered(r).amp, a)
<1> DEFINE c == FetchTrack(r.amp, r.rows)
<1>1. c.list = r.amp.list /\ c.fbList = r.amp.fbList /\ c.fbRow = r.amp.fbRow
  BY FetchTrackPlace DEF InPlace
<1>2. Answered(r) = r \/ Answered(r) = [r EXCEPT !.amp = c]
  BY DEF Answered
<1> HIDE DEF c
<1>3. [r EXCEPT !.amp = c].amp = c
  BY DEF InPlace, IsCall
<1> QED BY <1>1, <1>2, <1>3, SwitchedSame

LEMMA PlayNbrSwitched ==
    ASSUME NEW t, Typed(t), NEW b, AmpSound(b), NEW p, NEW n, NEW K, NEW a, Switched(b, a)
    PROVE  Switched(PlayNbr(b, t, p, n, K).amp, a)
<1> SUFFICES ASSUME NEW c, c = PlayNbr(b, t, p, n, K).amp PROVE Switched(c, a)
  OBVIOUS
<1>1. c.list = b.list /\ c.fbList = b.fbList /\ c.fbRow = b.fbRow
  BY PlayNbrPlace
<1> QED BY <1>1, SwitchedSame

LEMMA FallBackSwitched ==
    ASSUME NEW t, Typed(t), NEW a, AmpSound(a), a.list = Queue, NEW K
    PROVE  Switched(FallBack(a, t, K).amp, a)
<1> DEFINE b == [a EXCEPT !.list = a.fbList, !.row = a.fbRow]
<1>1. a \in Amps
  BY DEF AmpSound
<1>2. CASE a.fbList = NoList
  <2>1. FallBack(a, t, K).amp = SetState(a, "null")
    BY <1>2, DoneFields DEF FallBack
  <2>2. SamePlace(SetState(a, "null"), a)
    BY <1>1, SetStatePlace
  <2> QED BY <2>1, <2>2 DEF SamePlace, Switched, Stays
<1>3. CASE a.fbList # NoList
  <2>1. a.fbList \in AllLists /\ a.fbRow \in Nat \cup {NoRow}
    BY <1>1, <1>3 DEF Amps, AllLists
  <2>2. AmpSound(b) /\ b.fbList = a.fbList /\ b.fbRow = a.fbRow
    <3>1. AmpSound(b)
      BY <2>1, PlaceSound
    <3> QED BY <1>1, <2>1, <3>1, PlaceFields
  <2>3. \/ FallBack(a, t, K) = Raised(b, t, K)
        \/ FallBack(a, t, K) = Done(SetState(b, "null"), t, K)
        \/ FallBack(a, t, K) = PlayNbr(b, t, b.list, t[b.row].pos, K)
    BY <1>3 DEF FallBack
  <2> HIDE DEF b
  <2>4. Switched(b, a)
    BY <2>2 DEF Switched, Stays
  <2>5. SamePlace(SetState(b, "null"), b)
    BY <2>2, SetStatePlace DEF AmpSound
  <2>6. Switched(SetState(b, "null"), a)
    BY <2>4, <2>5, SwitchedSame DEF SamePlace
  <2> QED BY <2>2, <2>3, <2>4, <2>6, DoneFields, PlayNbrSwitched
<1> QED BY <1>2, <1>3

LEMMA ChangeRelativeSwitched ==
    ASSUME playlists = Lists, NEW t, Typed(t), Ordered(t), NEW a0, AmpSound(a0), Placed(a0, t),
           NEW n \in {1, -1}
    PROVE  Switched(ChangeRelative(a0, t, n).amp, a0)
<1> SUFFICES ASSUME NEW a, a = Status(a0, t, playlists), NEW r, r = ChangeRelative(a0, t, n)
             PROVE  Switched(r.amp, a0)
  OBVIOUS
<1>1. a = FetchTrack(a0, t)
  BY StatusFetches DEF AmpSound
<1>2. AmpSound(a) /\ a.list = a0.list /\ a.fbList = a0.fbList /\ a.fbRow = a0.fbRow /\ Placed(a, t)
  BY <1>1, FetchTrackSound, FetchTrackPlace, FetchTrackPlaced
<1>3. Switched(a, a0)
  BY <1>2 DEF Switched, Stays
<1>4. a0.list # Queue /\ a0.row # NoRow => a.row = a0.row
  <2>1. a0.list # Queue /\ a0.row # NoRow => a0.row \in DOMAIN t
    BY DEF Placed
  <2>2. a0.row \in DOMAIN t => FetchTrack(a0, t) = a0
    BY DEF FetchTrack
  <2> QED BY <1>1, <2>1, <2>2
<1>5. \/ r = Done(a, t, {}) /\ (~Found(a, t) \/ (n = -1 /\ a.list = Queue))
      \/ /\ Found(a, t) /\ a.row \in DOMAIN t
         /\ \/ a.list = Queue /\ r = NextInQueue(a, t)
            \/ a.list # Queue /\ r = EnterQueue(a, t)
            \/ /\ a.list # Queue /\ InList(t, Queue) = {}
               /\ r = PlayNbr(a, t, a.list, t[a.row].pos - 1 + n, {})
  BY ChangeRelativeCases
<1>6. CASE r = Done(a, t, {})
  BY <1>3, <1>6, DoneFields
<1>7. CASE a.row \in DOMAIN t /\ a.list = Queue /\ r = NextInQueue(a, t)
  <2> DEFINE s == RemoveRow(t, Queue, a.row)
             K == {t[a.row].track}
  <2>1. Typed(s)
    BY <1>2, <1>7, RestInPlace
  <2>2. r = FallBack(a, s, K) \/ r = PlayNbr(a, s, Queue, 0, K)
    BY <1>7 DEF NextInQueue
  <2> HIDE DEF s, K
  <2>3. Switched(r.amp, a)
    <3>1. Switched(a, a)
      BY DEF Switched, Stays
    <3> QED BY <1>2, <1>7, <2>1, <2>2, <3>1, FallBackSwitched, PlayNbrSwitched
  <2> QED BY <1>2, <1>7, <2>3 DEF Switched, Stays, Saves
<1>8. CASE a.list # Queue /\ r = EnterQueue(a, t)
  <2> DEFINE b == [a EXCEPT !.list = Queue, !.fbList = a.list, !.fbRow = a.row]
  <2>1. AmpSound(b)
    <3>1. a.list \in Lists
      BY <1>2, <1>8 DEF AmpSound, Amps
    <3> QED BY <1>2, <3>1, FallBackPlaceSound
  <2>2. b.list = Queue /\ b.fbList = a.list /\ b.fbRow = a.row
    BY <1>2 DEF AmpSound, Amps
  <2>3. r = PlayNbr(b, t, Queue, 0, {})
    BY <1>8 DEF EnterQueue
  <2> HIDE DEF b
  <2>4. Switched(b, a0)
    BY <1>2, <1>4, <1>8, <2>2 DEF Switched, Saves
  <2> QED BY <2>1, <2>3, <2>4, PlayNbrSwitched
<1>9. CASE r = PlayNbr(a, t, a.list, t[a.row].pos - 1 + n, {})
  BY <1>2, <1>3, <1>9, PlayNbrSwitched
<1> QED BY <1>5, <1>6, <1>7, <1>8, <1>9

\* playTrack plays in the playlist that it has made the active one.
LEMMA ChangeAbsolutePlace ==
    ASSUME playlists = Lists, NEW t, Typed(t), NEW a0, AmpSound(a0),
           NEW i \in InList(t, a0.list), NEW c, c = ChangeAbsolute(a0, t, i).amp
    PROVE  c.list = a0.list /\ c.fbList = a0.fbList /\ c.fbRow = a0.fbRow
<1> SUFFICES ASSUME NEW a, a = Status(a0, t, playlists), a.list = a0.list,
                    NEW r, r = ChangeAbsolute(a0, t, i)
             PROVE  r.amp.list = a.list /\ r.amp.fbList = a.fbList /\ r.amp.fbRow = a.fbRow
  BY StatusFetches, FetchTrackPlace DEF AmpSound
<1> DEFINE b == [a EXCEPT !.row = i]
           v == MoveTrack(t, Queue, i, 1)
<1>1. AmpSound(a) /\ a \in Amps
  BY StatusSound DEF AmpSound
<1>2. i \in Nat /\ a.list \in AllLists
  BY <1>1, RowTyped DEF InList, Amps, AllLists
<1>3. AmpSound(b) /\ b.list = a.list /\ b.fbList = a.fbList /\ b.fbRow = a.fbRow
  <2>1. AmpSound(b)
    BY <1>1, <1>2, PlaceSound
  <2> QED BY <1>1, <1>2, <2>1, PlaceFields
<1>4. a.list = Queue => Typed(v)
  BY MoveKeeps, Names
<1>5. \/ r = Raised(b, t, {}) \/ r = Done(a, t, {})
      \/ a.list = Queue /\ r = PlayNbr(b, v, Queue, 0, {})
      \/ r = PlayNbr(a, t, a.list, t[i].pos - 1, {})
  <2> HIDE DEF b, v
  <2>1. ChangeAbsolute(a0, t, i) =
          CASE a.list = Queue /\ ~CanMove(t, Queue, i, 1) -> Raised(b, t, {})
            [] a.list = Queue /\ CanMove(t, Queue, i, 1) -> PlayNbr(b, v, Queue, 0, {})
            [] a.list # Queue /\ i \in DOMAIN t -> PlayNbr(a, t, a.list, t[i].pos - 1, {})
            [] OTHER -> Done(a, t, {})
    BY DEF ChangeAbsolute, b, v
  <2> QED BY <2>1
<1> HIDE DEF b, v
<1>6. CASE r = Raised(b, t, {}) \/ r = Done(a, t, {})
  BY <1>3, <1>6, DoneFields
<1>7. CASE a.list = Queue /\ r = PlayNbr(b, v, Queue, 0, {})
  BY <1>3, <1>4, <1>7, PlayNbrPlace
<1>8. CASE r = PlayNbr(a, t, a.list, t[i].pos - 1, {})
  BY <1>1, <1>8, PlayNbrPlace
<1> QED BY <1>5, <1>6, <1>7, <1>8

LEMMA PlayTrackSwitched ==
    ASSUME playlists = Lists, NEW t, Typed(t), NEW a, AmpSound(a),
           NEW p \in {NoList} \cup AllLists,
           NEW i \in InList(t, IF p = NoList THEN Queue ELSE p),
           NEW d, d = PlayTrack(a, t, p, i).amp
    PROVE  /\ p # Queue => Switched(d, a)
           /\ p = Queue => d.list = Queue /\ d.fbList = a.fbList /\ d.fbRow = a.fbRow
<1> DEFINE b == IF p = NoList /\ a.list # Queue
                THEN [a EXCEPT !.fbList = a.list, !.fbRow = a.row] ELSE a
           q == IF p = NoList THEN Queue ELSE p
           c == [b EXCEPT !.list = q]
<1>1. AmpSound(b)
  <2>1. CASE p = NoList /\ a.list # Queue
    <3>1. a.list \in Lists
      BY <2>1 DEF AmpSound, Amps
    <3> QED BY <2>1, <3>1, FallBackPlaceSound
  <2>2. CASE ~(p = NoList /\ a.list # Queue)
    BY <2>2
  <2> QED BY <2>1, <2>2
<1>2. q \in AllLists
  BY Names
<1>3. PlayTrack(a, t, p, i) = ChangeAbsolute(c, t, i)
  BY DEF PlayTrack
<1>4. IF p = NoList /\ a.list # Queue THEN b.fbList = a.list /\ b.fbRow = a.row ELSE b = a
  BY DEF AmpSound, Amps
<1>5. q = IF p = NoList THEN Queue ELSE p
  OBVIOUS
<1>9. i \in InList(t, q)
  OBVIOUS
<1> HIDE DEF b, q
<1>6. AmpSound(c) /\ c.list = q /\ c.fbList = b.fbList /\ c.fbRow = b.fbRow
  <2>1. AmpSound(c)
    BY <1>1, <1>2, PlaceSound, Names
  <2>2. b \in Amps
    BY <1>1 DEF AmpSound
  <2> QED BY <1>2, <2>1, <2>2, PlaceFields, Names
<1> HIDE DEF c
<1>7. d.list = c.list /\ d.fbList = c.fbList /\ d.fbRow = c.fbRow
  BY <1>3, <1>6, <1>9, ChangeAbsolutePlace
<1>8. Queue # NoList
  BY Names
<1> QED BY <1>4, <1>5, <1>6, <1>7, <1>8 DEF Switched, Stays, Saves

\* A step of a listening session, but for queueAndPlay, which saves nothing.
Rested ==
    /\ (\E ks \in Albums : QueueAndPlay(ks)) \/ Switched(amp', amp)
    /\ ~Leaving => Stays(amp', amp)

LEMMA CommandSwitched ==
    ASSUME ListeningInv, NEW r, InPlace(r, rows), Switched(r.amp, amp), Command(r)
    PROVE  Switched(amp', amp)
<1>1. amp' = Pushed(r.amp, r.rows, playlists) /\ playlists = Lists
  BY DEF Command, ListeningInv
<1> QED BY <1>1, PushedSwitched DEF InPlace

LEMMA SwitchedRested ==
    ASSUME Switched(amp', amp) PROVE Rested
BY DEF Rested, Switched, Saves, Stays, Leaving

LEMMA DoneSwitched ==
    ASSUME ListeningInv, NEW a, AmpSound(a), Placed(a, rows),
           a.list = amp.list, a.fbList = amp.fbList, a.fbRow = amp.fbRow,
           Command(Done(a, rows, {}))
    PROVE  Switched(amp', amp)
<1>1. InPlace(Done(a, rows, {}), rows)
  BY ElsewhereSelf, DoneInPlace DEF ListeningInv, AmpInv, Safe
<1>2. Switched(Done(a, rows, {}).amp, amp)
  BY DoneFields DEF Switched, Stays
<1> QED BY <1>1, <1>2, CommandSwitched

\* The switch between playlist and queue, one action at a time.
LEMMA NextSwitched ==
    ASSUME ListeningInv, NEW n \in {1, -1}, Command(Answered(ChangeRelative(amp, rows, n)))
    PROVE  Switched(amp', amp)
<1> SUFFICES ASSUME NEW r, r = ChangeRelative(amp, rows, n), Command(Answered(r))
             PROVE  Switched(amp', amp)
  OBVIOUS
<1>1. InPlace(r, rows) /\ Switched(r.amp, amp)
  BY ChangeRelativeInPlace, ChangeRelativeSwitched DEF ListeningInv, AmpInv, Safe
<1>2. InPlace(Answered(r), rows) /\ Switched(Answered(r).amp, amp)
  BY <1>1, AnsweredInPlace, AnsweredSwitched
<1> QED BY <1>2, CommandSwitched

LEMMA PlayTrackOfSwitched ==
    ASSUME ListeningInv, NEW p \in {NoList} \cup AllLists, p # Queue,
           NEW i \in InList(rows, IF p = NoList THEN Queue ELSE p), PlayTrackOf(p, i)
    PROVE  Switched(amp', amp)
<1> SUFFICES ASSUME NEW r, r = PlayTrack(amp, rows, p, i), Command(Answered(r))
             PROVE  Switched(amp', amp)
  BY DEF PlayTrackOf
<1>1. InPlace(r, rows) /\ Switched(r.amp, amp)
  BY PlayTrackInPlace, PlayTrackSwitched DEF ListeningInv, AmpInv, Safe
<1>2. InPlace(Answered(r), rows) /\ Switched(Answered(r).amp, amp)
  BY <1>1, AnsweredInPlace, AnsweredSwitched
<1> QED BY <1>2, CommandSwitched

LEMMA StatusSwitched ==
    ASSUME ListeningInv, Play \/ Pause \/ Stop \/ GetStatus \/ Seek
    PROVE  Switched(amp', amp)
<1>1. AmpSound(amp) /\ amp \in Amps /\ Placed(amp, rows) /\ Typed(rows) /\ playlists = Lists
  BY DEF ListeningInv, AmpInv, Safe, AmpSound
<1>2. ASSUME NEW b, AmpSound(b), Placed(b, rows),
             b.list = amp.list, b.fbList = amp.fbList, b.fbRow = amp.fbRow,
             NEW s \in Targets
      PROVE  /\ AmpSound(SetState(b, s)) /\ Placed(SetState(b, s), rows)
             /\ SetState(b, s).list = amp.list /\ SetState(b, s).fbList = amp.fbList
             /\ SetState(b, s).fbRow = amp.fbRow
  <2>1. AmpSound(SetState(b, s)) /\ SamePlace(SetState(b, s), b)
    BY <1>2, SetStateSound, SetStatePlace DEF AmpSound
  <2> QED BY <1>2, <2>1, SamePlaced DEF SamePlace
<1>3. ASSUME NEW b, AmpSound(b), Placed(b, rows),
             b.list = amp.list, b.fbList = amp.fbList, b.fbRow = amp.fbRow
      PROVE  /\ AmpSound(FetchTrack(b, rows)) /\ Placed(FetchTrack(b, rows), rows)
             /\ FetchTrack(b, rows).list = amp.list /\ FetchTrack(b, rows).fbList = amp.fbList
             /\ FetchTrack(b, rows).fbRow = amp.fbRow
  BY <1>1, <1>3, FetchTrackSound, FetchTrackPlace, FetchTrackPlaced
<1>4. CASE Pause \/ Stop
  <2>1. PICK s \in {"paused", "null"} : Command(Done(SetState(amp, s), rows, {}))
    BY <1>4 DEF Pause, Stop
  <2>2. s \in Targets
    BY DEF Targets
  <2> QED BY <1>1, <1>2, <2>1, <2>2, DoneSwitched
<1>5. CASE Play \/ GetStatus
  <2>1. PICK a : a = FetchTrack(amp, rows)
    OBVIOUS
  <2>2. Status(amp, rows, playlists) = a
    BY <1>1, <2>1, StatusFetches
  <2>3. Command(Done(a, rows, {})) \/ Command(Done(SetState(a, "playing"), rows, {}))
    BY <1>5, <2>2 DEF Play, GetStatus
  <2>4. AmpSound(a) /\ Placed(a, rows)
        /\ a.list = amp.list /\ a.fbList = amp.fbList /\ a.fbRow = amp.fbRow
    BY <1>1, <1>3, <2>1
  <2>5. "playing" \in Targets
    BY DEF Targets
  <2> QED BY <1>2, <2>3, <2>4, <2>5, DoneSwitched
<1>6. CASE Seek
  <2> DEFINE a == IF amp.src # NoSrc /\ amp.state # "null"
                  THEN [amp EXCEPT !.ended = FALSE] ELSE amp
  <2>1. AmpSound(a) /\ SamePlace(a, amp)
    <3>1. AmpSound([amp EXCEPT !.ended = FALSE]) /\ SamePlace([amp EXCEPT !.ended = FALSE], amp)
      BY <1>1, FlagsSound, FlagsPlace
    <3>2. SamePlace(amp, amp)
      BY DEF SamePlace
    <3> QED BY <1>1, <3>1, <3>2
  <2>2. \/ Command(Done(FetchTrack(a, rows), rows, {}))
        \/ Command(Done(a, rows, {}))
    BY <1>6 DEF Seek
  <2> HIDE DEF a
  <2>3. Placed(a, rows) /\ a.list = amp.list /\ a.fbList = amp.fbList /\ a.fbRow = amp.fbRow
    BY <1>1, <2>1, SamePlaced DEF SamePlace
  <2> QED BY <1>3, <2>1, <2>2, <2>3, DoneSwitched
<1> QED BY <1>4, <1>5, <1>6

LEMMA EndOfStreamSwitched ==
    ASSUME ListeningInv, EndOfStream
    PROVE  Switched(amp', amp)
<1> DEFINE a == [amp EXCEPT !.ended = TRUE]
<1>1. AmpSound(amp) /\ amp \in Amps /\ Placed(amp, rows) /\ Typed(rows) /\ Ordered(rows)
      /\ playlists = Lists
  BY DEF ListeningInv, AmpInv, Safe, AmpSound
<1>2. AmpSound(a) /\ SamePlace(a, amp)
  BY <1>1, FlagsSound, FlagsPlace
<1>3. PICK r : r = ChangeRelative(a, rows, 1)
  OBVIOUS
<1>4. amp' = [r.amp EXCEPT !.push = @ \/ r.ok]
  BY <1>3 DEF EndOfStream
<1> HIDE DEF a
<1>5. Placed(a, rows)
  BY <1>1, <1>2, SamePlaced DEF SamePlace
<1>6. Switched(r.amp, a) /\ InPlace(r, rows)
  BY <1>1, <1>2, <1>3, <1>5, ChangeRelativeSwitched, ChangeRelativeInPlace
<1>7. Switched(r.amp, amp)
  BY <1>2, <1>6 DEF Switched, Stays, Saves, SamePlace
<1>8. amp'.list = r.amp.list /\ amp'.fbList = r.amp.fbList /\ amp'.fbRow = r.amp.fbRow
  BY <1>4, <1>6 DEF InPlace, AmpSound, Amps
<1> QED BY <1>7, <1>8, SwitchedSame

LEMMA PlayTokenLostSwitched ==
    ASSUME ListeningInv, PlayTokenLost
    PROVE  Switched(amp', amp)
<1>1. amp \in Amps /\ amp' = SetState(amp, "paused")
  BY DEF PlayTokenLost, ListeningInv, AmpInv, AmpSound
<1> QED BY <1>1, SetStatePlace DEF SamePlace, Switched, Stays

\* Votes and queued tracks reach the amp only through the push.
LEMMA QueueingSwitched ==
    ASSUME ListeningInv, Typed(rows)', playlists' = playlists,
           amp' = Pushed([amp EXCEPT !.push = TRUE], rows', playlists')
    PROVE  Switched(amp', amp)
<1> DEFINE a == [amp EXCEPT !.push = TRUE]
<1>1. AmpSound(a) /\ SamePlace(a, amp)
  BY FlagsSound, FlagsPlace DEF ListeningInv, AmpInv, AmpSound
<1>2. PICK t : t = rows' /\ Typed(t)
  <2>1. Typed(rows')
    BY DEF Typed, IsTable
  <2> QED BY <2>1
<1>3. amp' = Pushed(a, t, playlists) /\ playlists = Lists
  BY <1>2 DEF ListeningInv
<1> HIDE DEF a
<1>4. Switched(a, amp)
  BY <1>1 DEF SamePlace, Switched, Stays
<1> QED BY <1>1, <1>2, <1>3, <1>4, PushedSwitched

\* queueAndPlay saves nothing, and ends in the queue.
LEMMA QueueAndPlayRested ==
    ASSUME ListeningInv, NEW ks \in Albums, QueueAndPlay(ks)
    PROVE  Rested
<1> DEFINE onTop == IF amp.list = Queue /\ amp.state = "playing"
                    THEN TrackNbr(rows, Queue, 0) ELSE {}
<1> SUFFICES ASSUME NEW t, t = AddTracks(rows, Queue, ks, 1),
                    NEW r, r = PlayTrack(amp, t, Queue, NewId(rows)),
                    IF onTop = {} THEN Command([r EXCEPT !.amp = [r.amp EXCEPT !.push = TRUE]])
                    ELSE LET i == CHOOSE i \in onTop : TRUE
                         IN Command(Done([r.amp EXCEPT !.push = TRUE],
                                         RemoveRow(r.rows, Queue, i), {rows[i].track}))
             PROVE  Rested
  BY DEF QueueAndPlay
<1>1. /\ InPlace(r, t) /\ SameRows(r.rows, t) /\ Typed(t) /\ NewId(rows) \in InList(t, Queue)
      /\ InList(rows, Queue) \subseteq InList(r.rows, Queue)
      /\ Typed(rows) /\ AmpSound(amp) /\ playlists = Lists
  BY QueuedAndPlayed DEF ListeningInv, AmpInv, Safe
<1> DEFINE asked == [r.amp EXCEPT !.push = TRUE]
<1>2. r.amp.list = Queue /\ r.amp.fbList = amp.fbList /\ r.amp.fbRow = amp.fbRow
  BY <1>1, PlayTrackSwitched, Names
<1>3. AmpSound(asked) /\ asked.list = Queue
      /\ asked.fbList = amp.fbList /\ asked.fbRow = amp.fbRow
  <2>1. AmpSound(r.amp) /\ r.amp \in Amps
    BY <1>1 DEF InPlace, AmpSound
  <2> QED BY <1>2, <2>1, FlagsSound, FlagsPlace DEF SamePlace
<1>4. \E s : Typed(s) /\ amp' = Pushed(asked, s, playlists)
  <2>1. CASE onTop = {}
    <3> DEFINE s == [r EXCEPT !.amp = asked]
    <3>1. Command(s)
      BY <2>1
    <3> HIDE DEF asked
    <3>2. s.amp = asked /\ s.rows = r.rows
      BY <1>1 DEF InPlace, IsCall
    <3> HIDE DEF s
    <3> QED BY <1>1, <3>1, <3>2 DEF Command, InPlace
  <2>2. CASE onTop # {}
    <3> DEFINE i == CHOOSE i \in onTop : TRUE
               v == RemoveRow(r.rows, Queue, i)
    <3>1. i \in onTop
      BY <2>2
    <3>2. Command(Done(asked, v, {rows[i].track}))
      BY <2>2
    <3> HIDE DEF i, asked
    <3>3. i \in DOMAIN r.rows
      BY <1>1, <3>1, NbrRow DEF InList
    <3>4. Typed(v)
      BY <1>1, <3>3, RemoveRowKeeps, Names DEF InPlace
    <3> HIDE DEF v
    <3> QED BY <3>2, <3>4, DoneFields DEF Command
  <2> QED BY <2>1, <2>2
<1>5. PICK s : Typed(s) /\ amp' = Pushed(asked, s, playlists)
  BY <1>4
<1> HIDE DEF asked
<1>6. amp'.list = Queue /\ amp'.fbList = amp.fbList /\ amp'.fbRow = amp.fbRow
  BY <1>1, <1>3, <1>5, PushedPlace
<1>7. \E l \in Albums : QueueAndPlay(l)
  OBVIOUS
<1> QED BY <1>6, <1>7 DEF Rested, Leaving, Stays

LEMMA RestedStep ==
    ASSUME ListeningInv, VoteQueueAssumption, PlaylistPlay \/ QueuePlay \/ Queueing
    PROVE  Rested
<1>1. CASE PlaylistPlay
  <2>1. CASE NextTrack \/ PreviousTrack
    BY <2>1, NextSwitched, SwitchedRested DEF NextTrack, PreviousTrack
  <2>2. CASE Play \/ Pause \/ Stop \/ GetStatus \/ Seek
    BY <2>2, StatusSwitched, SwitchedRested
  <2>3. CASE EndOfStream
    BY <2>3, EndOfStreamSwitched, SwitchedRested
  <2>4. CASE PlayTokenLost
    BY <2>4, PlayTokenLostSwitched, SwitchedRested
  <2>5. ASSUME NEW p \in playlists, NEW i \in InList(rows, p), PlayTrackOf(p, i)
        PROVE  Rested
    <3>1. p \in AllLists /\ p # NoList /\ p # Queue
      BY Names, VoteQueueAssumption DEF AllLists, ListeningInv, VoteQueueAssumption
    <3> QED BY <2>5, <3>1, PlayTrackOfSwitched, SwitchedRested
  <2> QED BY <1>1, <2>1, <2>2, <2>3, <2>4, <2>5 DEF PlaylistPlay
<1>2. CASE QueuePlay
  <2>1. ASSUME NEW i \in InList(rows, Queue), PlayTrackOf(NoList, i)
        PROVE  Rested
    BY <2>1, Names, PlayTrackOfSwitched, SwitchedRested
  <2> QED BY <1>2, <2>1, QueueAndPlayRested DEF QueuePlay
<1>3. CASE Queueing
  <2>1. /\ UNCHANGED playlists
        /\ amp' = Pushed([amp EXCEPT !.push = TRUE], rows', playlists')
    BY <1>3 DEF Queueing, Asking, AddVote, QueueTracks
  <2>2. Typed(rows')
    BY <1>3, VoteQueueAssumption, ListeningNext DEF ListeningInv, AmpInv, Safe
  <2> QED BY <2>1, <2>2, QueueingSwitched, SwitchedRested
<1> QED BY <1>1, <1>2, <1>3

\* While nobody takes rows away and the playlist begins with a track that can be played,
\* the amp goes back behind the track that it left: whatever leaves a playlist for the
\* queue, but queueAndPlay, saves its active row, nothing else touches what is saved, and
\* the end of a stream that goes back plays the row behind the saved one.
THEOREM ResumedBehind == FirstPlays => (ListeningSpec => ResumesBehind)
<1> SUFFICES ASSUME FirstPlays PROVE ListeningSpec => ResumesBehind
  OBVIOUS
<1>1. SteadyInv /\ [PlaylistPlay \/ QueuePlay \/ Queueing]_ampVars
        => [/\ Leaving /\ ~(\E ks \in Albums : QueueAndPlay(ks)) =>
                 amp'.fbList = amp.list /\ (amp.row # NoRow => amp'.fbRow = amp.row)
            /\ ~Leaving => amp'.fbList = amp.fbList /\ amp'.fbRow = amp.fbRow
            /\ EndOfStream /\ amp.list = Queue /\ amp'.list # Queue =>
                 /\ amp'.list = amp.fbList
                 /\ amp'.state = "playing" =>
                       rows'[amp'.row].pos = rows'[amp.fbRow].pos + 1]_ampVars
  <2> SUFFICES ASSUME SteadyInv, PlaylistPlay \/ QueuePlay \/ Queueing
               PROVE  /\ Leaving /\ ~(\E ks \in Albums : QueueAndPlay(ks)) =>
                           amp'.fbList = amp.list /\ (amp.row # NoRow => amp'.fbRow = amp.row)
                      /\ ~Leaving => amp'.fbList = amp.fbList /\ amp'.fbRow = amp.fbRow
                      /\ EndOfStream /\ amp.list = Queue /\ amp'.list # Queue =>
                           /\ amp'.list = amp.fbList
                           /\ amp'.state = "playing" =>
                                 rows'[amp'.row].pos = rows'[amp.fbRow].pos + 1
    OBVIOUS
  <2>1. Rested
    BY VoteQueueAssumption, RestedStep DEF SteadyInv
  <2>2. Leaving /\ Switched(amp', amp) => Saves(amp', amp)
    BY DEF Leaving, Switched, Stays
  <2> QED BY <2>1, <2>2, EndOfStreamNext DEF Rested, Saves, Stays
<1>2. ListeningSpec => []SteadyInv
  BY SteadyInvariance
<1> QED BY <1>1, <1>2, PTL DEF ListeningSpec, ResumesBehind

================================================================================
