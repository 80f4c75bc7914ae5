------------------------------ MODULE VotingBooth ------------------------------
(***************************************************************************)
(* What voting on the queue promises to a listener, without votes on rows, *)
(* positions and lists: a user places at most InitialVotes votes, one per  *)
(* track, and a vote puts its track into the queue.  A vote is retracted   *)
(* by its owner, or all votes on a track are given back together: always   *)
(* when a row with the track leaves the queue, perhaps when one leaves an  *)
(* ordinary playlist (the playlist, removed as a whole, gives none back),  *)
(* and for no other reason.                                                *)
(***************************************************************************)
EXTENDS Naturals, FiniteSets, Functions

CONSTANTS Users, Tracks, InitialVotes

VARIABLES
    ballot,     \* the tracks that each user has a vote on
    queue,      \* the track of each row of the queue
    saved       \* the track of each row of the ordinary playlists

vars == <<ballot, queue, saved>>

Init ==
    /\ ballot = [u \in Users |-> {}]
    /\ queue = [i \in {} |-> {}]
    /\ saved = [i \in {} |-> {}]

\* Rows of table t that are in table s, too, have their tracks; the tracks of rows
\* that are not.
Lasting(s, t) == \A i \in DOMAIN s \cap DOMAIN t : s[i] = t[i]
Gone(s, t) == {t[i] : i \in DOMAIN t \ DOMAIN s}

Place(u, k) ==
    /\ Cardinality(ballot[u]) < InitialVotes
    /\ k \notin ballot[u]
    /\ ballot' = [ballot EXCEPT ![u] = @ \cup {k}]
    /\ Lasting(queue', queue)
    /\ Gone(queue', queue) = {}
    /\ k \in Range(queue')
    /\ UNCHANGED saved

Retract(u, k) ==
    /\ k \in ballot[u]
    /\ ballot' = [ballot EXCEPT ![u] = @ \ {k}]
    /\ UNCHANGED <<queue, saved>>

\* Rows come and go, and the votes on the tracks in K are given back.
Change(K) ==
    /\ Lasting(queue', queue)
    /\ Lasting(saved', saved)
    /\ Gone(queue', queue) \subseteq K
    /\ K \subseteq Gone(queue', queue) \cup Gone(saved', saved)
    /\ ballot' = [u \in Users |-> ballot[u] \ K]

Next ==
    \/ \E u \in Users, k \in Tracks : Place(u, k) \/ Retract(u, k)
    \/ \E K \in SUBSET Tracks : Change(K)

Spec == Init /\ [][Next]_vars
===============================================================================
