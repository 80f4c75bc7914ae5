---------------------------- MODULE MCPlaylistPage ----------------------------
(* An instance of PlaylistPage for TLC. *)
EXTENDS PlaylistPage, TLC

\* The ids of playlists are alike.
MCSymmetry == Permutations(Lists)

===============================================================================
