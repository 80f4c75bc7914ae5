------------------------------ MODULE MCVotePage ------------------------------
(* An instance of VotePage for TLC. *)
EXTENDS VotePage, TLC

\* Tracks are alike.
MCSymmetry == Permutations(Tracks)

===============================================================================
