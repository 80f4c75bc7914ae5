----------------------------- MODULE PlaylistRows -----------------------------
(***************************************************************************)
(* The table playlist_tracks of the dog's database (database.py) and the   *)
(* statements that Playlist (playlist.py) runs on it, as operators on the  *)
(* value of the table.                                                     *)
(*                                                                         *)
(* A table t is a function from the ids of its rows to the rows; a row has *)
(* the fields pl (playlist_id), track (track_id), pos (position) and votes.*)
(* One operator is one method of Playlist: all the statements the method   *)
(* runs, in their order.  A position counts from 1.                        *)
(***************************************************************************)
EXTENDS Integers, Sequences, FiniteSets, FiniteSetsExt

\* The rows of playlist p, and those of track k in it.
InList(t, p) == {i \in DOMAIN t : t[i].pl = p}
RowsOf(t, p, k) == {i \in InList(t, p) : t[i].track = k}

\* select max(position): 0 stands for the NULL of an empty playlist.
MaxPos(t, p) == Max({0} \cup {t[i].pos : i \in InList(t, p)})

\* Playlist.length()
Length(t, p) == Cardinality(InList(t, p))

\* An INTEGER PRIMARY KEY without AUTOINCREMENT: one more than the largest id
\* in use, so the id of a deleted last row is given out again.
NewId(t) == Max({0} \cup DOMAIN t) + 1

\* update playlist_tracks set position = position + d where id in S
Shift(t, S, d) ==
    [i \in DOMAIN t |-> IF i \in S THEN [t[i] EXCEPT !.pos = @ + d] ELSE t[i]]

\* update playlist_tracks set votes = votes + d where id in S
Revote(t, S, d) ==
    [i \in DOMAIN t |-> IF i \in S THEN [t[i] EXCEPT !.votes = @ + d] ELSE t[i]]

\* Playlist.has_track, and the row that "select ... LIMIT 1" finds: a scan of
\* the table in the order of the ids.
HasTrack(t, p, k) == RowsOf(t, p, k) # {}
FirstRow(t, p, k) == Min(RowsOf(t, p, k))

\* Playlist.move_track raises ValueError unless this holds.
CanMove(t, p, i, pos) == i \in InList(t, p) /\ pos \in 1 .. MaxPos(t, p)

\* Variant of MoveTrack for the checks: moving up, the rows close up from one
\* position too early.
MoveTrackEarly(t, p, i, pos) ==
    LET old == t[i].pos
        Between(lo, hi, s) == {j \in InList(s, p) : lo < s[j].pos /\ s[j].pos <= hi}
        From(lo, s) == {j \in InList(s, p) : s[j].pos >= lo}
        Land(s) == [s EXCEPT ![i].pos = pos]
    IN IF pos > old
       THEN Land(Shift(t, Between(old, pos, t), -1))
       ELSE LET landed == Land(Shift(t, From(pos, t), 1))
            IN Shift(landed, From(old, landed), -1)

\* Playlist.move_track: down, the rows that are passed close up before the row
\* lands; up, all rows from the target on make room, the row lands, and the
\* rows beyond the place it left close up again.
MoveTrack(t, p, i, pos) ==
    LET old == t[i].pos
        Between(lo, hi, s) == {j \in InList(s, p) : lo < s[j].pos /\ s[j].pos <= hi}
        From(lo, s) == {j \in InList(s, p) : s[j].pos >= lo}
        Land(s) == [s EXCEPT ![i].pos = pos]
    IN IF pos > old
       THEN Land(Shift(t, Between(old, pos, t), -1))
       ELSE LET landed == Land(Shift(t, From(pos, t), 1))
            IN Shift(landed, From(old + 1, landed), -1)

\* Variant of AddTrack for the checks: the row goes to the position of the last one.
AddTrackOnLast(t, p, k, v) ==
    [i \in DOMAIN t \cup {NewId(t)} |->
        IF i \in DOMAIN t THEN t[i]
        ELSE [pl |-> p, track |-> k, pos |-> MaxPos(t, p), votes |-> v]]

\* Playlist.add_track: the row goes behind the last one.
AddTrack(t, p, k, v) ==
    [i \in DOMAIN t \cup {NewId(t)} |->
        IF i \in DOMAIN t THEN t[i]
        ELSE [pl |-> p, track |-> k, pos |-> MaxPos(t, p) + 1, votes |-> v]]

\* Playlist.add_tracks: where the tracks go, and what the method does.  The new
\* rows get consecutive ids and no votes; the first id is returned.
AddPosition(t, p, pos) ==
    IF InList(t, p) = {} THEN 1
    ELSE IF pos > MaxPos(t, p) + 1 \/ pos < 0 THEN MaxPos(t, p) + 1 ELSE pos

AddTracks(t, p, ks, pos) ==
    LET at == AddPosition(t, p, pos)
        id == NewId(t)
        s  == Shift(t, {i \in InList(t, p) : t[i].pos >= at}, Len(ks))
    IN [i \in DOMAIN t \cup (id .. id + Len(ks) - 1) |->
            IF i \in DOMAIN t THEN s[i]
            ELSE [pl |-> p, track |-> ks[i - id + 1], pos |-> at + (i - id), votes |-> 0]]

\* Playlist.remove_playlist_tracks_id called on playlist p: the row is looked up
\* by its id alone, but the rows that close up are those of p.
RemoveRow(t, p, i) ==
    LET rest == [j \in DOMAIN t \ {i} |-> t[j]]
    IN Shift(rest, {j \in InList(rest, p) : rest[j].pos > t[i].pos}, -1)

\* Playlist.remove: the playlist takes its rows with it.
RemoveList(t, p) == [i \in DOMAIN t \ InList(t, p) |-> t[i]]

\* Playlist.get_track_nbr(n), n from 0: "order by position limit n,1"; rows with
\* one position come in the order of their ids.  {} when there is no such row.
RowsBefore(t, p, i) ==
    {j \in InList(t, p) : t[j].pos < t[i].pos \/ (t[j].pos = t[i].pos /\ j < i)}
TrackNbr(t, p, n) == {i \in InList(t, p) : Cardinality(RowsBefore(t, p, i)) = n}

-------------------------------------------------------------------------------
\* What callers of Playlist rely on: the positions of a playlist of n rows are
\* 1, ..., n, each taken once.
IsOrder(t, p, n) ==
    /\ \A i \in InList(t, p) : t[i].pos \in 1 .. n
    /\ \A k \in 1 .. n : \E i \in InList(t, p) : t[i].pos = k
    /\ \A i, j \in InList(t, p) : t[i].pos = t[j].pos => i = j

Contiguous(t, p) == IsOrder(t, p, MaxPos(t, p))
===============================================================================
