------------------------------ MODULE MCVoteQueue ------------------------------
(* Instances of VoteQueue for TLC. *)
EXTENDS VoteQueue, TLC

CONSTANTS u1, u2, u3, k1, k2, k3, k4

MCUsers == {u1, u2}
MCTracks == {k1, k2}
MCTracks4 == {k1, k2, k3, k4}
MCUsers3 == {u1, u2, u3}
MCLists == {2}
Symmetry == Permutations(MCUsers) \cup Permutations(MCTracks)
VotingSymmetry == Permutations(MCUsers3) \cup Permutations(MCTracks4)
===============================================================================
