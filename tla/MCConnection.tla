----------------------------- MODULE MCConnection -----------------------------
(* An instance of ClientConnection for TLC. *)
EXTENDS ClientConnection

\* Commands go on for two failures behind the last attempt.
MCLowest == -2

===============================================================================
