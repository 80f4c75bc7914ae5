------------------------------ MODULE MCSpotWork ------------------------------
(* Instances of SpotWork for TLC. *)
EXTENDS SpotWork, TLC

CONSTANTS c1, c2, c3

MCCallers == {c1, c2, c3}
===============================================================================
