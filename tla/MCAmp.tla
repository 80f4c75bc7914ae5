--------------------------------- MODULE MCAmp ---------------------------------
(* Instances of Amp for TLC. *)
EXTENDS Amp, TLC

CONSTANTS u1, k1, k2, k3, k4

MCUsers == {u1}
MCTracks == {k1, k2}
MCTracks4 == {k1, k2, k3, k4}
MCSpotify == {k1}
MCSpotify4 == {k1, k4}
MCUnplayable == {k3}
MCBroken == {k4}
MCBrokenFile == {k2}
MCLists == {2}
MCNone == <<>>
MCSaved == <<k1, k2>>
===============================================================================
