---------------------------- MODULE VoteQueueProofs ----------------------------
(***************************************************************************)
(* Theorems about VoteQueue for any users, tracks, playlists and bounds:   *)
(* the tables keep their types and the playlists their order, no vote is   *)
(* lost or made up, every vote is for a track in the queue, and the votes  *)
(* implement VotingBooth.  While listeners only vote, the queue is ordered *)
(* by votes and its votes are those of its voters.                         *)
(*                                                                         *)
(* First come lemmas about the statements of Playlist: the types of the    *)
(* tables that they return, and that they keep the positions of every      *)
(* playlist in order.                                                      *)
(***************************************************************************)
EXTENDS VoteQueue, FiniteSetTheorems, TLAPS

-------------------------------------------------------------------------------
(* The statements of Playlist *)

\* A nonempty set of naturals has a least element.
LEMMA LeastNat ==
    ASSUME NEW S \in SUBSET Nat, S # {}
    PROVE  \E x \in S : \A y \in S : x <= y
<1>1. IsWellFoundedOn(OpToRel(<, Nat), Nat)
  BY NatLessThanWellFounded
<1>2. PICK x \in S : \A y \in S : ~(<<y, x>> \in OpToRel(<, Nat))
  BY <1>1, WFMin
<1>3. ASSUME NEW y \in S PROVE x <= y
  <2>1. ~(<<y, x>> \in {p \in Nat \X Nat : p[1] < p[2]})
    BY <1>2 DEF OpToRel
  <2> QED BY <2>1
<1> QED BY <1>3

\* The minimum of a nonempty set of naturals.
LEMMA MinNat ==
    ASSUME NEW S \in SUBSET Nat, S # {}
    PROVE  Min(S) \in S /\ \A y \in S : Min(S) <= y
BY LeastNat DEF Min

\* A nonempty finite set of integers has a greatest element: a smallest set without
\* one loses an element, and the greatest of the rest bounds it.
LEMMA GreatestInt ==
    ASSUME NEW S \in SUBSET Int, IsFiniteSet(S), S # {}
    PROVE  \E x \in S : \A y \in S : x >= y
<1> DEFINE HasMax(U) == \E x \in U : \A y \in U : x >= y
           Bad(n) == \E U \in SUBSET Int : /\ IsFiniteSet(U) /\ U # {}
                                           /\ Cardinality(U) = n /\ ~HasMax(U)
           Sizes == {n \in Nat : Bad(n)}
<1>1. ASSUME Sizes # {} PROVE FALSE
  <2>1. PICK n \in Sizes : \A m \in Sizes : n <= m
    BY <1>1, LeastNat
  <2>2. PICK U \in SUBSET Int : /\ IsFiniteSet(U) /\ U # {}
                                /\ Cardinality(U) = n /\ ~HasMax(U)
    BY <2>1
  <2>3. PICK u \in U : TRUE
    BY <2>2
  <2> DEFINE V == U \ {u}
  <2>4. IsFiniteSet(V) /\ Cardinality(V) = n - 1 /\ V \in SUBSET Int
    BY <2>2, FS_RemoveElement
  <2>5. n - 1 \in Nat /\ n - 1 < n
    BY <2>1, <2>4, FS_CardinalityType
  <2>6. CASE V = {}
    <3>1. \A y \in U : y = u
      BY <2>6
    <3>2. HasMax(U)
      BY <3>1
    <3> QED BY <3>2, <2>2
  <2>7. CASE V # {}
    <3>1. HasMax(V)
      <4>1. SUFFICES ASSUME ~HasMax(V) PROVE FALSE
        OBVIOUS
      <4>2. Bad(n - 1)
        BY <2>4, <2>7, <4>1
      <4>3. n - 1 \in Sizes
        BY <4>2, <2>5
      <4> QED BY <4>3, <2>1, <2>5
    <3>2. PICK v \in V : \A y \in V : v >= y
      BY <3>1
    <3>3. CASE u >= v
      <4>1. \A y \in U : u >= y
        BY <3>2, <3>3
      <4> QED BY <4>1, <2>2
    <3>4. CASE ~(u >= v)
      <4>1. \A y \in U : v >= y
        BY <3>2, <3>4
      <4> QED BY <4>1, <3>2, <2>2
    <3> QED BY <3>3, <3>4
  <2> QED BY <2>6, <2>7
<1>2. SUFFICES ASSUME ~HasMax(S) PROVE FALSE
  OBVIOUS
<1>3. Cardinality(S) \in Nat
  BY FS_CardinalityType
<1>4. Bad(Cardinality(S))
  BY <1>2
<1> QED BY <1>1, <1>3, <1>4

\* The maximum of a nonempty finite set of integers.
LEMMA MaxInt ==
    ASSUME NEW S \in SUBSET Int, IsFiniteSet(S), S # {}
    PROVE  Max(S) \in S /\ \A y \in S : Max(S) >= y
BY GreatestInt DEF Max

-------------------------------------------------------------------------------
\* A table of rows of playlists in P with tracks in K.
IsTable(t, P, K) ==
    /\ DOMAIN t \in SUBSET (Nat \ {0})
    /\ IsFiniteSet(DOMAIN t)
    /\ t \in [DOMAIN t -> [pl : P, track : K, pos : Nat, votes : Int]]

\* The positions of playlist p are in order.
InOrder(t, p) == \E n \in Nat : IsOrder(t, p, n)

\* A new id is larger than all others.
LEMMA NewIdFresh ==
    ASSUME NEW P, NEW K, NEW t, IsTable(t, P, K)
    PROVE  NewId(t) \in Nat \ {0} /\ \A i \in DOMAIN t : i < NewId(t)
<1> DEFINE S == {0} \cup DOMAIN t
<1>1. S \in SUBSET Int /\ S # {} /\ 0 \in S /\ S \in SUBSET Nat
  BY DEF IsTable
<1>2. IsFiniteSet(S)
  <2>1. S = DOMAIN t \cup {0}
    OBVIOUS
  <2> QED BY <2>1, FS_AddElement DEF IsTable
<1>3. Max(S) \in S /\ \A y \in S : Max(S) >= y
  BY <1>1, <1>2, MaxInt
<1> QED BY <1>1, <1>3 DEF NewId

\* The rows of a playlist are finitely many, and the last position is a number.
LEMMA MaxPosType ==
    ASSUME NEW P, NEW K, NEW t, IsTable(t, P, K), NEW p
    PROVE  /\ IsFiniteSet(InList(t, p))
           /\ MaxPos(t, p) \in Nat
           /\ \A i \in InList(t, p) : t[i].pos <= MaxPos(t, p)
<1> DEFINE T == {t[i].pos : i \in InList(t, p)}
           S == {0} \cup T
<1>1. IsFiniteSet(InList(t, p))
  BY FS_Subset DEF IsTable, InList
<1>2. IsFiniteSet(T)
  <2> DEFINE f == [i \in InList(t, p) |-> t[i].pos]
  <2>1. f \in Surjection(InList(t, p), T)
    BY DEF Surjection
  <2> QED BY <1>1, <2>1, FS_Surjection
<1>3. T \in SUBSET Nat
  BY DEF IsTable, InList
<1>4. S = T \cup {0}
  OBVIOUS
<1> HIDE DEF T
<1>5. IsFiniteSet(S)
  BY <1>2, <1>4, FS_AddElement
<1>6. S \in SUBSET Int /\ S # {}
  BY <1>3
<1>7. Max(S) \in S /\ \A y \in S : Max(S) >= y
  BY <1>5, <1>6, MaxInt
<1>8. Max(S) \in Nat
  <2>1. 0 \in S /\ S \in SUBSET Nat
    BY <1>3, <1>4
  <2> QED BY <2>1, <1>7
<1>9. \A x \in T : x <= Max(S)
  BY <1>3, <1>7, <1>8
<1>10. MaxPos(t, p) = Max(S)
  BY DEF T, MaxPos
<1> QED BY <1>1, <1>8, <1>9, <1>10 DEF T

\* In order, the last position is the number of the rows.
LEMMA MaxPosOfOrder ==
    ASSUME NEW P, NEW K, NEW t, IsTable(t, P, K), NEW p, NEW n \in Nat, IsOrder(t, p, n)
    PROVE  MaxPos(t, p) = n
<1> DEFINE S == {0} \cup {t[i].pos : i \in InList(t, p)}
<1>1. S = 0 .. n
  <2>1. ASSUME NEW x \in S PROVE x \in 0 .. n
    BY DEF IsOrder
  <2>2. ASSUME NEW x \in 0 .. n PROVE x \in S
    BY DEF IsOrder
  <2> QED BY <2>1, <2>2
<1> HIDE DEF S
<1>2. S \in SUBSET Int /\ S # {} /\ IsFiniteSet(S)
  <2>1. IsFiniteSet(0 .. n)
    BY FS_Interval
  <2>2. 0 .. n \in SUBSET Int /\ 0 .. n # {}
    OBVIOUS
  <2> QED BY <1>1, <2>1, <2>2
<1>3. Max(S) \in S /\ \A y \in S : Max(S) >= y
  BY <1>2, MaxInt
<1>4. Max(S) = n
  BY <1>1, <1>3
<1> QED BY <1>4 DEF S, MaxPos

\* Being in order is what Contiguous says.
LEMMA ContiguousIsInOrder ==
    ASSUME NEW P, NEW K, NEW t, IsTable(t, P, K), NEW p, InOrder(t, p)
    PROVE  Contiguous(t, p)
<1>1. PICK n \in Nat : IsOrder(t, p, n)
  BY DEF InOrder
<1> QED BY <1>1, MaxPosOfOrder DEF Contiguous

\* Tables that agree on playlist p, up to the ids of its rows, are both in order.
LEMMA SamePositions ==
    ASSUME NEW t, NEW s, NEW p, InOrder(t, p),
           InList(s, p) = InList(t, p),
           \A i \in InList(t, p) : s[i].pos = t[i].pos
    PROVE  InOrder(s, p)
BY DEF InOrder, IsOrder

\* Where move_track puts row j when it moves row i to pos: the rows between the
\* old place and the new one shift by one towards the old place.
MovedPos(t, p, i, pos, j) ==
    IF j = i THEN pos
    ELSE IF t[j].pl = p /\ t[i].pos < t[j].pos /\ t[j].pos <= pos THEN t[j].pos - 1
    ELSE IF t[j].pl = p /\ pos <= t[j].pos /\ t[j].pos < t[i].pos THEN t[j].pos + 1
    ELSE t[j].pos

LEMMA MoveTrackRows ==
    ASSUME NEW P, NEW K, NEW t, IsTable(t, P, K), NEW p,
           NEW i \in InList(t, p), NEW pos \in Nat
    PROVE  MoveTrack(t, p, i, pos) =
              [j \in DOMAIN t |-> [t[j] EXCEPT !.pos = MovedPos(t, p, i, pos, j)]]
<1> DEFINE old == t[i].pos
           Between(lo, hi, s) == {j \in InList(s, p) : lo < s[j].pos /\ s[j].pos <= hi}
           From(lo, s) == {j \in InList(s, p) : s[j].pos >= lo}
           Land(s) == [s EXCEPT ![i].pos = pos]
           down == Land(Shift(t, Between(old, pos, t), -1))
           landed == Land(Shift(t, From(pos, t), 1))
           up == Shift(landed, From(old + 1, landed), -1)
<1>1. MoveTrack(t, p, i, pos) = IF pos > old THEN down ELSE up
  BY DEF MoveTrack
<1>2. i \in DOMAIN t /\ t[i].pl = p /\ old \in Nat
  BY DEF InList, IsTable
<1>3. \A j \in DOMAIN t : t[j] \in [pl : P, track : K, pos : Nat, votes : Int]
  BY DEF IsTable
<1>4. CASE pos > old
  <2> DEFINE shifted == Shift(t, Between(old, pos, t), -1)
  <2>1. DOMAIN shifted = DOMAIN t /\ \A j \in DOMAIN t :
          shifted[j] = IF t[j].pl = p /\ old < t[j].pos /\ t[j].pos <= pos
                       THEN [t[j] EXCEPT !.pos = t[j].pos - 1] ELSE t[j]
    BY <1>3 DEF Shift, InList
  <2>2. down = [shifted EXCEPT ![i].pos = pos]
    OBVIOUS
  <2> HIDE DEF shifted
  <2>3. DOMAIN down = DOMAIN t /\ down[i] = [shifted[i] EXCEPT !.pos = pos]
        /\ \A j \in DOMAIN t : j # i => down[j] = shifted[j]
    BY <2>1, <2>2, <1>2
  <2>fun. down = [j \in DOMAIN down |-> down[j]]
    BY <2>2
  <2>4. shifted[i] = t[i]
    BY <2>1, <1>2
  <2> HIDE DEF down
  <2>5. ASSUME NEW j \in DOMAIN t
        PROVE  down[j] = [t[j] EXCEPT !.pos = MovedPos(t, p, i, pos, j)]
    <3>1. CASE j = i
      BY <3>1, <2>3, <2>4 DEF MovedPos
    <3>2. CASE j # i
      BY <3>2, <2>1, <2>3, <1>2, <1>3, <1>4 DEF MovedPos
    <3> QED BY <3>1, <3>2
  <2> QED BY <1>1, <1>4, <2>3, <2>fun, <2>5
<1>5. CASE ~(pos > old)
  <2> DEFINE shifted == Shift(t, From(pos, t), 1)
  <2>1. DOMAIN shifted = DOMAIN t /\ \A j \in DOMAIN t :
          shifted[j] = IF t[j].pl = p /\ t[j].pos >= pos
                       THEN [t[j] EXCEPT !.pos = t[j].pos + 1] ELSE t[j]
    BY <1>3 DEF Shift, InList
  <2>2. landed = [shifted EXCEPT ![i].pos = pos]
    OBVIOUS
  <2> HIDE DEF shifted
  <2>3. DOMAIN landed = DOMAIN t /\ landed[i] = [shifted[i] EXCEPT !.pos = pos]
        /\ \A j \in DOMAIN t : j # i => landed[j] = shifted[j]
    BY <2>1, <2>2, <1>2
  <2> HIDE DEF landed
  <2>4. DOMAIN up = DOMAIN t /\ \A j \in DOMAIN t :
          up[j] = IF landed[j].pl = p /\ landed[j].pos >= old + 1
                  THEN [landed[j] EXCEPT !.pos = landed[j].pos - 1] ELSE landed[j]
    BY <2>3 DEF Shift, InList
  <2>fun. up = [j \in DOMAIN up |-> up[j]]
    BY DEF Shift
  <2>5. landed[i] = [t[i] EXCEPT !.pos = pos]
    BY <2>1, <2>3, <1>2, <1>3
  <2> HIDE DEF up
  <2>6. ASSUME NEW j \in DOMAIN t
        PROVE  up[j] = [t[j] EXCEPT !.pos = MovedPos(t, p, i, pos, j)]
    <3>1. CASE j = i
      BY <3>1, <2>4, <2>5, <1>2, <1>3, <1>5 DEF MovedPos
    <3>2. CASE j # i
      <4>1. landed[j] = IF t[j].pl = p /\ t[j].pos >= pos
                        THEN [t[j] EXCEPT !.pos = t[j].pos + 1] ELSE t[j]
        BY <3>2, <2>1, <2>3
      <4> QED BY <3>2, <4>1, <2>4, <1>2, <1>3, <1>5 DEF MovedPos
    <3> QED BY <3>1, <3>2
  <2> QED BY <1>1, <1>5, <2>4, <2>fun, <2>6
<1> QED BY <1>4, <1>5

\* move_track keeps the type of the table.
LEMMA MoveTrackTable ==
    ASSUME NEW P, NEW K, NEW t, IsTable(t, P, K), NEW p,
           NEW i \in InList(t, p), NEW pos \in Nat
    PROVE  IsTable(MoveTrack(t, p, i, pos), P, K)
<1> DEFINE s == MoveTrack(t, p, i, pos)
<1>1. DOMAIN s = DOMAIN t /\ \A j \in DOMAIN t :
        s[j] = [t[j] EXCEPT !.pos = MovedPos(t, p, i, pos, j)]
  BY MoveTrackRows
<1>2. \A j \in DOMAIN t : t[j] \in [pl : P, track : K, pos : Nat, votes : Int]
  BY DEF IsTable
<1>3. i \in DOMAIN t /\ t[i].pos \in Nat
  BY <1>2 DEF InList
<1>4. \A j \in DOMAIN t : MovedPos(t, p, i, pos, j) \in Nat
  BY <1>2, <1>3 DEF MovedPos
<1>5. s = [j \in DOMAIN s |-> s[j]]
  <2> HIDE DEF MovedPos, s
  <2>1. s = [j \in DOMAIN t |-> [t[j] EXCEPT !.pos = MovedPos(t, p, i, pos, j)]]
    BY MoveTrackRows DEF s
  <2> QED BY <2>1
<1> HIDE DEF s
<1>6. \A j \in DOMAIN s : s[j] \in [pl : P, track : K, pos : Nat, votes : Int]
  BY <1>1, <1>2, <1>4
<1>7. s \in [DOMAIN s -> [pl : P, track : K, pos : Nat, votes : Int]]
  BY <1>5, <1>6
<1>8. IsTable(s, P, K)
  BY <1>1, <1>7 DEF IsTable
<1> QED BY <1>8 DEF s

\* move_track to a position of the playlist keeps every playlist in order.
LEMMA MoveTrackOrder ==
    ASSUME NEW P, NEW K, NEW t, IsTable(t, P, K), NEW p, NEW q, NEW i, NEW pos,
           CanMove(t, p, i, pos), InOrder(t, p), InOrder(t, q)
    PROVE  InOrder(MoveTrack(t, p, i, pos), q)
<1> DEFINE s == MoveTrack(t, p, i, pos)
<1>1. PICK n \in Nat : IsOrder(t, p, n)
  BY DEF InOrder
<1>2. i \in InList(t, p) /\ pos \in 1 .. n /\ pos \in Nat
  BY <1>1, MaxPosOfOrder DEF CanMove
<1>3. DOMAIN s = DOMAIN t /\ \A j \in DOMAIN t :
        s[j] = [t[j] EXCEPT !.pos = MovedPos(t, p, i, pos, j)]
  BY <1>2, MoveTrackRows
<1>4. \A j \in DOMAIN t : t[j] \in [pl : P, track : K, pos : Nat, votes : Int]
  BY DEF IsTable
<1> HIDE DEF s
<1>5. \A j \in DOMAIN t : s[j].pl = t[j].pl /\ s[j].pos = MovedPos(t, p, i, pos, j)
  BY <1>3, <1>4
<1>6. \A r : InList(s, r) = InList(t, r)
  BY <1>3, <1>5 DEF InList
<1>7. CASE q = p
  <2>1. i \in DOMAIN t /\ t[i].pos \in 1 .. n
    BY <1>1, <1>2 DEF InList, IsOrder
  <2>2. \A j \in InList(t, p) :
          /\ j \in DOMAIN t /\ t[j].pl = p /\ t[j].pos \in 1 .. n
          /\ s[j].pos = MovedPos(t, p, i, pos, j)
    BY <1>1, <1>5 DEF InList, IsOrder
  <2>3. ASSUME NEW j \in InList(t, p) PROVE s[j].pos \in 1 .. n
    BY <2>1, <2>2, <1>2 DEF MovedPos
  <2>4. ASSUME NEW k \in 1 .. n PROVE \E j \in InList(t, p) : s[j].pos = k
    <3>1. CASE k = pos
      BY <3>1, <1>2, <2>2 DEF MovedPos
    <3>2. CASE k # pos
      <4> DEFINE m == IF t[i].pos <= k /\ k < pos THEN k + 1
                      ELSE IF pos < k /\ k <= t[i].pos THEN k - 1 ELSE k
      <4>1. m \in 1 .. n /\ m # t[i].pos
        BY <3>2, <2>1, <1>2
      <4>2. PICK j \in InList(t, p) : t[j].pos = m
        BY <4>1, <1>1 DEF IsOrder
      <4>3. s[j].pos = k
        BY <4>1, <4>2, <2>1, <2>2, <3>2, <1>2 DEF MovedPos
      <4> QED BY <4>3
    <3> QED BY <3>1, <3>2
  <2>5. ASSUME NEW j \in InList(t, p), NEW l \in InList(t, p), s[j].pos = s[l].pos
        PROVE  j = l
    <3>1. t[j].pos = t[l].pos => j = l
      BY <1>1 DEF IsOrder
    <3>2. t[j].pos = t[i].pos => j = i
      BY <1>1, <1>2 DEF IsOrder
    <3>3. t[l].pos = t[i].pos => l = i
      BY <1>1, <1>2 DEF IsOrder
    <3> QED BY <2>1, <2>2, <2>5, <3>1, <3>2, <3>3, <1>2 DEF MovedPos
  <2>6. IsOrder(s, p, n)
    BY <2>3, <2>4, <2>5, <1>6 DEF IsOrder
  <2>7. InOrder(s, q)
    BY <2>6, <1>7 DEF InOrder
  <2> QED BY <2>7 DEF s
<1>8. CASE q # p
  <2>1. \A j \in InList(t, q) : s[j].pos = t[j].pos
    <3>1. ASSUME NEW j \in InList(t, q) PROVE s[j].pos = t[j].pos
      <4>1. j \in DOMAIN t /\ t[j].pl = q /\ j # i
        BY <1>2, <1>8 DEF InList
      <4> QED BY <4>1, <1>5, <1>8 DEF MovedPos
    <3> QED BY <3>1
  <2>2. InOrder(s, q)
    BY <1>6, <2>1, SamePositions
  <2> QED BY <2>2 DEF s
<1> QED BY <1>7, <1>8

-------------------------------------------------------------------------------
\* A change of votes keeps the type, the positions and the tracks of all rows.
LEMMA RevoteRows ==
    ASSUME NEW P, NEW K, NEW t, IsTable(t, P, K), NEW S, NEW d \in Int
    PROVE  /\ IsTable(Revote(t, S, d), P, K)
           /\ DOMAIN Revote(t, S, d) = DOMAIN t
           /\ \A j \in DOMAIN t : /\ Revote(t, S, d)[j].pl = t[j].pl
                                  /\ Revote(t, S, d)[j].track = t[j].track
                                  /\ Revote(t, S, d)[j].pos = t[j].pos
                                  /\ Revote(t, S, d)[j].votes =
                                        IF j \in S THEN t[j].votes + d ELSE t[j].votes
<1> DEFINE s == Revote(t, S, d)
<1>1. \A j \in DOMAIN t : t[j] \in [pl : P, track : K, pos : Nat, votes : Int]
  BY DEF IsTable
<1>2. s = [j \in DOMAIN t |->
              IF j \in S THEN [t[j] EXCEPT !.votes = t[j].votes + d] ELSE t[j]]
  BY DEF Revote
<1> HIDE DEF s
<1>3. DOMAIN s = DOMAIN t
  BY <1>2
<1>4. ASSUME NEW j \in DOMAIN t
      PROVE  /\ s[j] \in [pl : P, track : K, pos : Nat, votes : Int]
             /\ s[j].pl = t[j].pl /\ s[j].track = t[j].track /\ s[j].pos = t[j].pos
             /\ s[j].votes = IF j \in S THEN t[j].votes + d ELSE t[j].votes
  <2>1. s[j] = IF j \in S THEN [t[j] EXCEPT !.votes = t[j].votes + d] ELSE t[j]
    BY <1>2
  <2> QED BY <2>1, <1>1
<1>5. s \in [DOMAIN s -> [pl : P, track : K, pos : Nat, votes : Int]]
  BY <1>2, <1>3, <1>4
<1>6. IsTable(s, P, K)
  BY <1>3, <1>5 DEF IsTable
<1> QED BY <1>3, <1>4, <1>6 DEF s

LEMMA RevoteOrder ==
    ASSUME NEW P, NEW K, NEW t, IsTable(t, P, K), NEW S, NEW d \in Int,
           NEW q, InOrder(t, q)
    PROVE  InOrder(Revote(t, S, d), q)
<1> DEFINE s == Revote(t, S, d)
<1>1. DOMAIN s = DOMAIN t /\ \A j \in DOMAIN t : s[j].pl = t[j].pl /\ s[j].pos = t[j].pos
  BY RevoteRows
<1> HIDE DEF s
<1>2. InList(s, q) = InList(t, q) /\ \A j \in InList(t, q) : s[j].pos = t[j].pos
  BY <1>1 DEF InList
<1>3. InOrder(s, q)
  BY <1>2, SamePositions
<1> QED BY <1>3 DEF s

-------------------------------------------------------------------------------
\* Table s is t with a new row for track k, behind the others of playlist p.
WithTrack(s, t, p, k, v) ==
    /\ NewId(t) \notin DOMAIN t
    /\ DOMAIN s = DOMAIN t \cup {NewId(t)}
    /\ \A j \in DOMAIN t : s[j] = t[j]
    /\ s[NewId(t)] = [pl |-> p, track |-> k, pos |-> MaxPos(t, p) + 1, votes |-> v]

\* That is what add_track does, and it keeps the type of the table.
LEMMA AddTrackTable ==
    ASSUME NEW P, NEW K, NEW t, IsTable(t, P, K), NEW p \in P, NEW k \in K,
           NEW v \in Int
    PROVE  /\ IsTable(AddTrack(t, p, k, v), P, K)
           /\ WithTrack(AddTrack(t, p, k, v), t, p, k, v)
<1> DEFINE s == AddTrack(t, p, k, v)
           id == NewId(t)
           new == [pl |-> p, track |-> k, pos |-> MaxPos(t, p) + 1, votes |-> v]
<1>1. id \in Nat \ {0} /\ id \notin DOMAIN t
  <2>1. id \in Nat \ {0} /\ \A i \in DOMAIN t : i < id
    BY NewIdFresh
  <2>2. DOMAIN t \in SUBSET Nat
    BY DEF IsTable
  <2> QED BY <2>1, <2>2
<1>2. MaxPos(t, p) \in Nat
  BY MaxPosType
<1>3. s = [i \in DOMAIN t \cup {id} |-> IF i \in DOMAIN t THEN t[i] ELSE new]
  BY DEF AddTrack
<1>4. new \in [pl : P, track : K, pos : Nat, votes : Int]
  BY <1>2
<1> HIDE DEF s, id, new
<1>5. DOMAIN s = DOMAIN t \cup {id} /\ s[id] = new /\ \A j \in DOMAIN t : s[j] = t[j]
  BY <1>1, <1>3
<1>6. s \in [DOMAIN s -> [pl : P, track : K, pos : Nat, votes : Int]]
  BY <1>3, <1>4, <1>5 DEF IsTable
<1>7. IsFiniteSet(DOMAIN s) /\ DOMAIN s \in SUBSET (Nat \ {0})
  BY <1>5, <1>1, FS_AddElement DEF IsTable
<1>8. IsTable(s, P, K)
  BY <1>6, <1>7 DEF IsTable
<1>9. WithTrack(s, t, p, k, v)
  BY <1>1, <1>5 DEF WithTrack, id, new
<1> QED BY <1>8, <1>9 DEF s

LEMMA AddTrackOrder ==
    ASSUME NEW P, NEW K, NEW t, IsTable(t, P, K), NEW p \in P, NEW k \in K,
           NEW v \in Int, InOrder(t, p), NEW q, InOrder(t, q)
    PROVE  InOrder(AddTrack(t, p, k, v), q)
<1> DEFINE s == AddTrack(t, p, k, v)
           id == NewId(t)
<1>1. PICK n \in Nat : IsOrder(t, p, n)
  BY DEF InOrder
<1>2. /\ DOMAIN s = DOMAIN t \cup {id} /\ id \notin DOMAIN t
      /\ \A j \in DOMAIN t : s[j] = t[j]
      /\ s[id].pl = p /\ s[id].pos = n + 1
  <2>1. MaxPos(t, p) = n
    BY <1>1, MaxPosOfOrder
  <2>2. WithTrack(s, t, p, k, v)
    BY AddTrackTable
  <2> HIDE DEF s
  <2> QED BY <2>1, <2>2 DEF WithTrack
<1> HIDE DEF s, id
<1>3. CASE q = p
  <2>1. InList(s, p) = InList(t, p) \cup {id} /\ id \notin InList(t, p)
    BY <1>2 DEF InList
  <2>2. \A j \in InList(t, p) : s[j].pos = t[j].pos /\ t[j].pos \in 1 .. n
    BY <1>1, <1>2 DEF InList, IsOrder
  <2>3. \A j \in InList(s, p) : s[j].pos \in 1 .. n + 1
    BY <2>1, <2>2, <1>2
  <2>4. ASSUME NEW m \in 1 .. n + 1 PROVE \E j \in InList(s, p) : s[j].pos = m
    <3>1. CASE m = n + 1
      BY <3>1, <2>1, <1>2
    <3>2. CASE m # n + 1
      <4>1. m \in 1 .. n
        BY <3>2
      <4> QED BY <4>1, <2>1, <2>2, <1>1 DEF IsOrder
    <3> QED BY <3>1, <3>2
  <2>5. ASSUME NEW j \in InList(s, p), NEW l \in InList(s, p), s[j].pos = s[l].pos
        PROVE  j = l
    <3>1. \A a \in InList(t, p) : \A b \in InList(t, p) : t[a].pos = t[b].pos => a = b
      BY <1>1 DEF IsOrder
    <3> QED BY <3>1, <2>1, <2>2, <2>5, <1>2
  <2>6. IsOrder(s, p, n + 1)
    BY <2>3, <2>4, <2>5 DEF IsOrder
  <2>7. InOrder(s, q)
    BY <2>6, <1>3 DEF InOrder
  <2> QED BY <2>7 DEF s
<1>4. CASE q # p
  <2>1. InList(s, q) = InList(t, q) /\ \A j \in InList(t, q) : s[j].pos = t[j].pos
    BY <1>2, <1>4 DEF InList
  <2>2. InOrder(s, q)
    BY <2>1, SamePositions
  <2> QED BY <2>2 DEF s
<1> QED BY <1>3, <1>4

-------------------------------------------------------------------------------
\* Table s is t without row i: the other rows keep their playlist, track and votes,
\* and those of playlist p behind row i close up.
WithoutRow(s, t, p, i) ==
    /\ DOMAIN s = DOMAIN t \ {i}
    /\ \A j \in DOMAIN t \ {i} :
        /\ s[j].pl = t[j].pl
        /\ s[j].track = t[j].track
        /\ s[j].votes = t[j].votes
        /\ s[j].pos = IF t[j].pl = p /\ t[j].pos > t[i].pos THEN t[j].pos - 1 ELSE t[j].pos

\* Deleting a row through playlist p does that and keeps the type, also when the row
\* is one of another playlist.
LEMMA RemoveRowTable ==
    ASSUME NEW P, NEW K, NEW t, IsTable(t, P, K), NEW p, NEW i \in DOMAIN t
    PROVE  IsTable(RemoveRow(t, p, i), P, K) /\ WithoutRow(RemoveRow(t, p, i), t, p, i)
<1> DEFINE rest == [j \in DOMAIN t \ {i} |-> t[j]]
           behind == {j \in InList(rest, p) : rest[j].pos > t[i].pos}
           s == RemoveRow(t, p, i)
           R == [pl : P, track : K, pos : Nat, votes : Int]
<1>1. \A j \in DOMAIN t : t[j] \in R /\ t[j].pos \in Nat
  BY DEF IsTable
<1>2. i \in DOMAIN t /\ t[i].pos \in Nat
  BY <1>1
<1>3. s = [j \in DOMAIN rest |->
             IF j \in behind THEN [rest[j] EXCEPT !.pos = rest[j].pos + -1] ELSE rest[j]]
  BY DEF RemoveRow, Shift
<1>4. DOMAIN rest = DOMAIN t \ {i} /\ \A j \in DOMAIN t \ {i} : rest[j] = t[j]
  OBVIOUS
<1>5. \A j \in DOMAIN t \ {i} : j \in behind <=> t[j].pl = p /\ t[j].pos > t[i].pos
  BY <1>4 DEF InList
<1> HIDE DEF rest, behind, s
<1>6. DOMAIN s = DOMAIN t \ {i}
  BY <1>3, <1>4
<1>7. ASSUME NEW j \in DOMAIN t \ {i}
      PROVE  /\ s[j] \in R
             /\ s[j].pl = t[j].pl /\ s[j].track = t[j].track /\ s[j].votes = t[j].votes
             /\ s[j].pos = IF t[j].pl = p /\ t[j].pos > t[i].pos
                           THEN t[j].pos - 1 ELSE t[j].pos
  <2>1. s[j] = IF t[j].pl = p /\ t[j].pos > t[i].pos
               THEN [t[j] EXCEPT !.pos = t[j].pos + -1] ELSE t[j]
    BY <1>3, <1>4, <1>5
  <2> QED BY <2>1, <1>1, <1>2
<1>8. s \in [DOMAIN s -> R]
  BY <1>3, <1>6, <1>7
<1>9. IsFiniteSet(DOMAIN s) /\ DOMAIN s \in SUBSET (Nat \ {0})
  BY <1>6, FS_Subset DEF IsTable
<1>10. IsTable(s, P, K)
  BY <1>8, <1>9 DEF IsTable
<1>11. WithoutRow(s, t, p, i)
  BY <1>6, <1>7 DEF WithoutRow
<1> QED BY <1>10, <1>11 DEF s

\* Deleting a row of a playlist keeps every playlist in order.
LEMMA RemoveRowOrder ==
    ASSUME NEW P, NEW K, NEW t, IsTable(t, P, K), NEW p, NEW i \in InList(t, p),
           InOrder(t, p), NEW q, InOrder(t, q)
    PROVE  InOrder(RemoveRow(t, p, i), q)
<1> DEFINE s == RemoveRow(t, p, i)
<1>1. PICK n \in Nat : IsOrder(t, p, n)
  BY DEF InOrder
<1>2. i \in DOMAIN t /\ t[i].pl = p /\ t[i].pos \in 1 .. n
  BY <1>1 DEF InList, IsOrder
<1>3. WithoutRow(s, t, p, i)
  BY <1>2, RemoveRowTable
<1> HIDE DEF s
<1>4. \A j \in DOMAIN t \ {i} :
        /\ s[j].pl = t[j].pl
        /\ s[j].pos = IF t[j].pl = p /\ t[j].pos > t[i].pos THEN t[j].pos - 1 ELSE t[j].pos
  BY <1>3 DEF WithoutRow
<1>5. InList(s, q) = InList(t, q) \ {i}
  BY <1>3, <1>4 DEF InList, WithoutRow
<1>6. CASE q = p
  <2>1. \A j \in InList(t, p) : t[j].pos \in 1 .. n
    BY <1>1 DEF IsOrder
  <2>2. \A j \in InList(t, p) : \A l \in InList(t, p) : t[j].pos = t[l].pos => j = l
    BY <1>1 DEF IsOrder
  <2>3. \A j \in InList(s, p) :
          /\ j \in InList(t, p) /\ t[j].pos # t[i].pos
          /\ s[j].pos = IF t[j].pos > t[i].pos THEN t[j].pos - 1 ELSE t[j].pos
    <3>1. ASSUME NEW j \in InList(s, p)
          PROVE  /\ j \in InList(t, p) /\ t[j].pos # t[i].pos
                 /\ s[j].pos = IF t[j].pos > t[i].pos THEN t[j].pos - 1 ELSE t[j].pos
      <4>1. j \in InList(t, p) /\ j # i
        BY <1>5, <1>6
      <4>2. j \in DOMAIN t \ {i} /\ t[j].pl = p
        BY <4>1 DEF InList
      <4> QED BY <4>1, <4>2, <2>2, <1>4
    <3> QED BY <3>1
  <2>4. ASSUME NEW j \in InList(s, p) PROVE s[j].pos \in 1 .. n - 1
    BY <2>1, <2>3, <1>2
  <2>5. ASSUME NEW m \in 1 .. n - 1 PROVE \E j \in InList(s, p) : s[j].pos = m
    <3> DEFINE was == IF m < t[i].pos THEN m ELSE m + 1
    <3>1. was \in 1 .. n /\ was # t[i].pos
      BY <1>2
    <3>2. PICK j \in InList(t, p) : t[j].pos = was
      BY <3>1, <1>1 DEF IsOrder
    <3>3. j \in InList(s, p)
      BY <3>1, <3>2, <1>5, <1>6
    <3> QED BY <3>1, <3>2, <3>3, <2>3, <1>2
  <2>6. ASSUME NEW j \in InList(s, p), NEW l \in InList(s, p), s[j].pos = s[l].pos
        PROVE  j = l
    <3>1. t[j].pos = t[l].pos
      BY <2>1, <2>3, <2>6, <1>2
    <3> QED BY <3>1, <2>2, <2>3
  <2>7. IsOrder(s, p, n - 1) /\ n - 1 \in Nat
    BY <2>4, <2>5, <2>6, <1>2 DEF IsOrder
  <2>8. InOrder(s, q)
    BY <2>7, <1>6 DEF InOrder
  <2> QED BY <2>8 DEF s
<1>7. CASE q # p
  <2>1. InList(s, q) = InList(t, q)
    BY <1>2, <1>5, <1>7 DEF InList
  <2>2. \A j \in InList(t, q) : s[j].pos = t[j].pos
    BY <1>2, <1>4, <1>7 DEF InList
  <2>3. InOrder(s, q)
    BY <2>1, <2>2, SamePositions
  <2> QED BY <2>3 DEF s
<1> QED BY <1>6, <1>7

-------------------------------------------------------------------------------
\* Removing a playlist keeps the type and every playlist in order.
LEMMA RemoveListTable ==
    ASSUME NEW P, NEW K, NEW t, IsTable(t, P, K), NEW p
    PROVE  /\ IsTable(RemoveList(t, p), P, K)
           /\ DOMAIN RemoveList(t, p) = DOMAIN t \ InList(t, p)
           /\ \A j \in DOMAIN t \ InList(t, p) : RemoveList(t, p)[j] = t[j]
<1> DEFINE s == RemoveList(t, p)
<1>1. DOMAIN s = DOMAIN t \ InList(t, p) /\ \A j \in DOMAIN t \ InList(t, p) : s[j] = t[j]
  BY DEF RemoveList
<1>2. s \in [DOMAIN s -> [pl : P, track : K, pos : Nat, votes : Int]]
  BY DEF RemoveList, IsTable
<1>3. IsFiniteSet(DOMAIN s) /\ DOMAIN s \in SUBSET (Nat \ {0})
  BY <1>1, FS_Subset DEF IsTable
<1> QED BY <1>1, <1>2, <1>3 DEF IsTable

LEMMA RemoveListOrder ==
    ASSUME NEW P, NEW K, NEW t, IsTable(t, P, K), NEW p, NEW q, InOrder(t, q)
    PROVE  InOrder(RemoveList(t, p), q)
<1> DEFINE s == RemoveList(t, p)
<1>1. DOMAIN s = DOMAIN t \ InList(t, p) /\ \A j \in DOMAIN t \ InList(t, p) : s[j] = t[j]
  BY RemoveListTable
<1> HIDE DEF s
<1>2. CASE q = p
  <2>1. InList(s, q) = {}
    BY <1>1, <1>2 DEF InList
  <2>2. IsOrder(s, q, 0)
    BY <2>1 DEF IsOrder
  <2>3. InOrder(s, q)
    BY <2>2 DEF InOrder
  <2> QED BY <2>3 DEF s
<1>3. CASE q # p
  <2>1. InList(s, q) = InList(t, q) /\ \A j \in InList(t, q) : s[j].pos = t[j].pos
    BY <1>1, <1>3 DEF InList
  <2>2. InOrder(s, q)
    BY <2>1, SamePositions
  <2> QED BY <2>2 DEF s
<1> QED BY <1>2, <1>3

-------------------------------------------------------------------------------
\* Table s is t with l new rows at position at of playlist p.
WithTracks(s, t, p, l, at) ==
    /\ DOMAIN s = DOMAIN t \cup (NewId(t) .. NewId(t) + l - 1)
    /\ \A j \in DOMAIN t :
        /\ j < NewId(t)
        /\ s[j].pl = t[j].pl
        /\ s[j].track = t[j].track
        /\ s[j].pos = IF t[j].pl = p /\ t[j].pos >= at THEN t[j].pos + l ELSE t[j].pos
    /\ \A j \in NewId(t) .. NewId(t) + l - 1 : s[j].pl = p /\ s[j].pos = at + (j - NewId(t))

\* Where add_tracks inserts: next to a row of the playlist or behind the last.
LEMMA AddPositionRange ==
    ASSUME NEW P, NEW K, NEW t, IsTable(t, P, K), NEW p, NEW n \in Nat, IsOrder(t, p, n),
           NEW pos \in Int \ {0}
    PROVE  AddPosition(t, p, pos) \in 1 .. n + 1
<1>1. MaxPos(t, p) = n
  BY MaxPosOfOrder
<1>2. CASE InList(t, p) = {}
  BY <1>2 DEF AddPosition
<1>3. CASE InList(t, p) # {}
  BY <1>1, <1>3 DEF AddPosition
<1> QED BY <1>2, <1>3

\* That is what add_tracks does, and it keeps the type of the table.
LEMMA AddTracksTable ==
    ASSUME NEW P, NEW K, NEW t, IsTable(t, P, K), NEW p \in P,
           NEW ks \in Seq(K), NEW pos \in Int \ {0}
    PROVE  /\ IsTable(AddTracks(t, p, ks, pos), P, K)
           /\ WithTracks(AddTracks(t, p, ks, pos), t, p, Len(ks), AddPosition(t, p, pos))
<1> DEFINE s == AddTracks(t, p, ks, pos)
           id == NewId(t)
           at == AddPosition(t, p, pos)
           l == Len(ks)
           ids == id .. id + l - 1
           shifted == Shift(t, {i \in InList(t, p) : t[i].pos >= at}, l)
           new(i) == [pl |-> p, track |-> ks[i - id + 1], pos |-> at + (i - id), votes |-> 0]
           R == [pl : P, track : K, pos : Nat, votes : Int]
<1>1. id \in Nat \ {0} /\ \A i \in DOMAIN t : i < id
  BY NewIdFresh
<1>2. at \in Nat
  <2>1. MaxPos(t, p) \in Nat
    BY MaxPosType
  <2> QED BY <2>1 DEF AddPosition
<1>3. l \in Nat /\ \A m \in 1 .. l : ks[m] \in K
  OBVIOUS
<1>4. \A j \in DOMAIN t : j \in Nat /\ t[j] \in R
  BY DEF IsTable
<1>5. s = [i \in DOMAIN t \cup ids |-> IF i \in DOMAIN t THEN shifted[i] ELSE new(i)]
  BY DEF AddTracks
<1>6. \A j \in DOMAIN t :
        shifted[j] = IF t[j].pl = p /\ t[j].pos >= at
                     THEN [t[j] EXCEPT !.pos = t[j].pos + l] ELSE t[j]
  BY DEF Shift, InList
<1> HIDE DEF shifted, at, id, l, s
<1>7. \A j \in ids : new(j) \in R /\ j \notin DOMAIN t /\ j \in Nat \ {0}
  <2>1. ASSUME NEW j \in ids PROVE new(j) \in R /\ j \notin DOMAIN t /\ j \in Nat \ {0}
    <3>1. j - id \in Nat /\ j - id + 1 \in 1 .. l
      BY <1>1, <1>3
    <3>2. ks[j - id + 1] \in K
      BY <3>1, <1>3
    <3>3. new(j) \in R
      BY <3>1, <3>2, <1>2
    <3> QED BY <3>3, <1>1, <1>3
  <2> QED BY <2>1
<1> HIDE DEF new
<1>8. ASSUME NEW j \in DOMAIN t
      PROVE  /\ s[j] \in R
             /\ s[j].pl = t[j].pl /\ s[j].track = t[j].track
             /\ s[j].pos = IF t[j].pl = p /\ t[j].pos >= at THEN t[j].pos + l ELSE t[j].pos
  <2>1. s[j] = IF t[j].pl = p /\ t[j].pos >= at
               THEN [t[j] EXCEPT !.pos = t[j].pos + l] ELSE t[j]
    BY <1>5, <1>6
  <2> QED BY <2>1, <1>2, <1>3, <1>4
<1>9. \A j \in ids : s[j] = new(j)
  BY <1>5, <1>7
<1>10. DOMAIN s = DOMAIN t \cup ids
  BY <1>5
<1>11. s \in [DOMAIN s -> R]
  BY <1>5, <1>7, <1>8, <1>9, <1>10
<1>12. IsFiniteSet(DOMAIN s) /\ DOMAIN s \in SUBSET (Nat \ {0})
  <2>1. IsFiniteSet(ids)
    BY <1>1, <1>3, FS_Interval
  <2>2. IsFiniteSet(DOMAIN t \cup ids)
    BY <2>1, FS_Union DEF IsTable
  <2>3. DOMAIN t \in SUBSET (Nat \ {0})
    BY DEF IsTable
  <2> QED BY <2>2, <2>3, <1>7, <1>10
<1>13. IsTable(s, P, K)
  BY <1>11, <1>12 DEF IsTable
<1>14. \A j \in ids : s[j].pl = p /\ s[j].pos = at + (j - id)
  <2>1. ASSUME NEW j \in ids PROVE s[j].pl = p /\ s[j].pos = at + (j - id)
    <3>1. s[j] = new(j)
      BY <1>9
    <3>2. new(j).pl = p /\ new(j).pos = at + (j - id)
      BY DEF new
    <3> QED BY <3>1, <3>2
  <2> QED BY <2>1
<1>15. WithTracks(s, t, p, l, at)
  BY <1>1, <1>8, <1>10, <1>14 DEF WithTracks, id
<1> QED BY <1>13, <1>15 DEF s, l, at

LEMMA AddTracksOrder ==
    ASSUME NEW P, NEW K, NEW t, IsTable(t, P, K), NEW p \in P, InOrder(t, p),
           NEW ks \in Seq(K), NEW pos \in Int \ {0}, NEW q, InOrder(t, q)
    PROVE  InOrder(AddTracks(t, p, ks, pos), q)
<1> DEFINE s == AddTracks(t, p, ks, pos)
           id == NewId(t)
           at == AddPosition(t, p, pos)
           l == Len(ks)
           ids == id .. id + l - 1
<1>1. PICK n \in Nat : IsOrder(t, p, n)
  BY DEF InOrder
<1>2. at \in 1 .. n + 1 /\ l \in Nat /\ id \in Nat
  BY <1>1, AddPositionRange, NewIdFresh
<1>3. WithTracks(s, t, p, l, at)
  BY AddTracksTable
<1> HIDE DEF s, at, l
<1>4. /\ DOMAIN s = DOMAIN t \cup ids
      /\ \A j \in DOMAIN t :
            /\ j < id
            /\ s[j].pl = t[j].pl
            /\ s[j].pos = IF t[j].pl = p /\ t[j].pos >= at THEN t[j].pos + l ELSE t[j].pos
      /\ \A j \in ids : s[j].pl = p /\ s[j].pos = at + (j - id)
  BY <1>3 DEF WithTracks
<1> HIDE DEF id
<1>5. \A j \in ids : j \notin DOMAIN t
  BY <1>2, <1>4
<1>6. CASE q = p
  <2>1. InList(s, p) = InList(t, p) \cup ids
    BY <1>4, <1>5 DEF InList
  <2>2. \A j \in InList(t, p) :
          /\ t[j].pos \in 1 .. n
          /\ s[j].pos = IF t[j].pos >= at THEN t[j].pos + l ELSE t[j].pos
    BY <1>1, <1>4 DEF InList, IsOrder
  <2>3. \A j \in ids : j \in Int /\ s[j].pos = at + (j - id) /\ s[j].pos \in at .. at + l - 1
    BY <1>2, <1>4
  <2>4. \A j \in InList(s, p) : s[j].pos \in 1 .. n + l
    BY <2>1, <2>2, <2>3, <1>2
  <2>5. ASSUME NEW m \in 1 .. n + l PROVE \E j \in InList(s, p) : s[j].pos = m
    <3>1. CASE m < at
      <4>1. PICK j \in InList(t, p) : t[j].pos = m
        BY <3>1, <1>1, <1>2 DEF IsOrder
      <4> QED BY <4>1, <3>1, <2>1, <2>2, <1>2
    <3>2. CASE m \in at .. at + l - 1
      <4>1. id + (m - at) \in ids
        BY <3>2, <1>2
      <4>2. s[id + (m - at)].pos = m
        BY <4>1, <2>3, <1>2
      <4> QED BY <4>1, <4>2, <2>1
    <3>3. CASE m >= at + l
      <4>1. m - l \in 1 .. n
        BY <3>3, <1>2
      <4>2. PICK j \in InList(t, p) : t[j].pos = m - l
        BY <4>1, <1>1 DEF IsOrder
      <4>3. s[j].pos = m
        BY <4>2, <3>3, <2>2, <1>2
      <4> QED BY <4>2, <4>3, <2>1
    <3> QED BY <3>1, <3>2, <3>3, <1>2
  <2>6. ASSUME NEW j \in InList(s, p), NEW m \in InList(s, p), s[j].pos = s[m].pos
        PROVE  j = m
    <3>1. CASE j \in ids /\ m \in ids
      BY <3>1, <2>3, <2>6, <1>2
    <3>2. CASE j \in InList(t, p) /\ m \in InList(t, p)
      <4>1. t[j].pos = t[m].pos
        BY <3>2, <2>2, <2>6, <1>2
      <4> QED BY <4>1, <3>2, <1>1 DEF IsOrder
    <3>3. ASSUME NEW a \in ids, NEW b \in InList(t, p) PROVE s[a].pos # s[b].pos
      <4>1. s[a].pos \in at .. at + l - 1
        BY <2>3
      <4>2. /\ t[b].pos \in 1 .. n
            /\ s[b].pos = IF t[b].pos >= at THEN t[b].pos + l ELSE t[b].pos
        BY <2>2
      <4>3. CASE t[b].pos >= at
        BY <4>1, <4>2, <4>3, <1>2
      <4>4. CASE ~(t[b].pos >= at)
        BY <4>1, <4>2, <4>4, <1>2
      <4> QED BY <4>3, <4>4
    <3>4. ~(j \in ids /\ m \in InList(t, p)) /\ ~(m \in ids /\ j \in InList(t, p))
      BY <3>3, <2>6
    <3> QED BY <3>1, <3>2, <3>4, <2>1
  <2>7. IsOrder(s, p, n + l) /\ n + l \in Nat
    BY <2>4, <2>5, <2>6, <1>2 DEF IsOrder
  <2>8. InOrder(s, q)
    BY <2>7, <1>6 DEF InOrder
  <2> QED BY <2>8 DEF s
<1>7. CASE q # p
  <2>1. InList(s, q) = InList(t, q) /\ \A j \in InList(t, q) : s[j].pos = t[j].pos
    BY <1>4, <1>5, <1>7 DEF InList
  <2>2. InOrder(s, q)
    BY <2>1, SamePositions
  <2> QED BY <2>2 DEF s
<1> QED BY <1>6, <1>7

-------------------------------------------------------------------------------
\* The length of a playlist counts its rows.
LEMMA LengthType ==
    ASSUME NEW P, NEW K, NEW t, IsTable(t, P, K), NEW p
    PROVE  /\ Length(t, p) \in Nat
           /\ Length(t, p) = 0 <=> InList(t, p) = {}
<1>1. IsFiniteSet(InList(t, p))
  BY MaxPosType
<1> QED BY <1>1, FS_CardinalityType, FS_EmptySet DEF Length

\* A playlist that has rows has a first one, whatever their positions are.
LEMMA FirstExists ==
    ASSUME NEW P, NEW K, NEW t, IsTable(t, P, K), NEW p, InList(t, p) # {}
    PROVE  TrackNbr(t, p, 0) # {}
<1> DEFINE S == {t[j].pos : j \in InList(t, p)}
<1>1. \A j \in InList(t, p) : j \in Nat /\ t[j].pos \in Nat
  BY DEF IsTable, InList
<1>2. S \in SUBSET Nat /\ S # {}
  BY <1>1
<1>3. PICK m \in S : \A y \in S : m <= y
  <2> HIDE DEF S
  <2> QED BY <1>2, LeastNat
<1> DEFINE T == {j \in InList(t, p) : t[j].pos = m}
<1>4. T \in SUBSET Nat /\ T # {}
  BY <1>1, <1>3
<1>5. PICK i \in T : \A j \in T : i <= j
  <2> HIDE DEF T
  <2> QED BY <1>4, LeastNat
<1>6. i \in InList(t, p) /\ t[i].pos = m
  BY <1>5
<1>7. ASSUME NEW j \in RowsBefore(t, p, i) PROVE FALSE
  <2>1. j \in InList(t, p) /\ (t[j].pos < m \/ (t[j].pos = m /\ j < i))
    BY <1>6, <1>7 DEF RowsBefore
  <2>2. m <= t[j].pos /\ m \in Nat /\ t[j].pos \in Nat
    BY <1>1, <1>3, <2>1
  <2>3. t[j].pos = m /\ j < i
    BY <2>1, <2>2
  <2>4. i <= j /\ i \in Nat /\ j \in Nat
    BY <1>1, <1>5, <1>6, <2>1, <2>3
  <2> QED BY <2>3, <2>4
<1>8. Cardinality(RowsBefore(t, p, i)) = 0
  BY <1>7, FS_EmptySet
<1> QED BY <1>6, <1>8 DEF TrackNbr

\* In order, as many rows are at the positions up to m as there are positions.
LEMMA RowsUpTo ==
    ASSUME NEW P, NEW K, NEW t, IsTable(t, P, K), NEW p, NEW n \in Nat, IsOrder(t, p, n),
           NEW m \in 0 .. n
    PROVE  Cardinality({j \in InList(t, p) : t[j].pos <= m}) = m
<1> DEFINE S == {j \in InList(t, p) : t[j].pos <= m}
           f == [k \in 1 .. m |-> CHOOSE j \in InList(t, p) : t[j].pos = k]
<1>1. \A k \in 1 .. m : f[k] \in InList(t, p) /\ t[f[k]].pos = k
  <2>1. ASSUME NEW k \in 1 .. m PROVE f[k] \in InList(t, p) /\ t[f[k]].pos = k
    <3>1. k \in 1 .. n
      OBVIOUS
    <3>2. \E j \in InList(t, p) : t[j].pos = k
      BY <3>1 DEF IsOrder
    <3> QED BY <3>2
  <2> QED BY <2>1
<1>2. f \in [1 .. m -> S]
  BY <1>1
<1>3. \A j \in S : t[j].pos \in 1 .. m
  BY DEF IsOrder
<1>4. \A j \in S : f[t[j].pos] = j
  <2>1. \A i, j \in InList(t, p) : t[i].pos = t[j].pos => i = j
    BY DEF IsOrder
  <2> HIDE DEF f
  <2> QED BY <1>1, <1>3, <2>1
<1> HIDE DEF f
<1>5. f \in Surjection(1 .. m, S)
  BY <1>2, <1>3, <1>4 DEF Surjection
<1>6. f \in Injection(1 .. m, S)
  <2>1. \A k, l \in 1 .. m : f[k] = f[l] => k = l
    BY <1>1
  <2> QED BY <1>2, <2>1 DEF Injection, IsInjective
<1>7. ExistsBijection(1 .. m, S)
  BY <1>5, <1>6 DEF ExistsBijection, Bijection
<1> QED BY <1>7, FS_CountingElements

\* In order, the n-th row, from 0, is the one at position n + 1, and the length of the
\* playlist is its last position.
LEMMA NbrInOrder ==
    ASSUME NEW P, NEW K, NEW t, IsTable(t, P, K), NEW p, InOrder(t, p)
    PROVE  /\ Length(t, p) = MaxPos(t, p)
           /\ \A i \in InList(t, p) : t[i].pos \in 1 .. Length(t, p)
           /\ \A k \in 1 .. Length(t, p) : \E i \in InList(t, p) : t[i].pos = k
           /\ \A n \in Nat : TrackNbr(t, p, n) = {i \in InList(t, p) : t[i].pos = n + 1}
<1>1. PICK n \in Nat : IsOrder(t, p, n)
  BY DEF InOrder
<1>2. InList(t, p) = {j \in InList(t, p) : t[j].pos <= n}
  BY <1>1 DEF IsOrder
<1>3. Length(t, p) = n
  BY <1>1, <1>2, RowsUpTo DEF Length
<1>4. ASSUME NEW i \in InList(t, p) PROVE Cardinality(RowsBefore(t, p, i)) = t[i].pos - 1
  <2>1. t[i].pos \in 1 .. n
    BY <1>1 DEF IsOrder
  <2>2. RowsBefore(t, p, i) = {j \in InList(t, p) : t[j].pos <= t[i].pos - 1}
    <3>1. \A j \in InList(t, p) : t[j].pos \in 1 .. n
      BY <1>1 DEF IsOrder
    <3>2. \A j \in InList(t, p) : t[j].pos = t[i].pos => j = i
      BY <1>1 DEF IsOrder
    <3>3. i \in Nat /\ \A j \in InList(t, p) : j \in Nat
      BY DEF IsTable, InList
    <3>4. ASSUME NEW j \in InList(t, p)
          PROVE  (t[j].pos < t[i].pos \/ (t[j].pos = t[i].pos /\ j < i))
                    <=> t[j].pos <= t[i].pos - 1
      <4>1. t[j].pos \in Nat /\ t[i].pos \in Nat
        BY <2>1, <3>1
      <4>2. ~(t[j].pos = t[i].pos /\ j < i)
        BY <3>2, <3>3
      <4> QED BY <4>1, <4>2
    <3> QED BY <3>4 DEF RowsBefore
  <2>3. t[i].pos - 1 \in 0 .. n
    BY <2>1
  <2> QED BY <2>2, <2>3, <1>1, RowsUpTo
<1>5. \A i \in InList(t, p) : t[i].pos \in 1 .. n
  BY <1>1 DEF IsOrder
<1>6. ASSUME NEW m \in Nat
      PROVE  TrackNbr(t, p, m) = {i \in InList(t, p) : t[i].pos = m + 1}
  <2>1. \A i \in InList(t, p) : Cardinality(RowsBefore(t, p, i)) = m <=> t[i].pos = m + 1
    BY <1>4, <1>5
  <2> QED BY <2>1 DEF TrackNbr
<1> QED BY <1>1, <1>3, <1>5, <1>6, MaxPosOfOrder DEF IsOrder

-------------------------------------------------------------------------------
(* The database and its calls *)

AllLists == {Queue} \cup Lists

\* A table of rows with the types of the columns, and one whose playlists are all in
\* order.  Ordered speaks of all ids a playlist may get, not only of those in use,
\* because a playlist that is created again finds the rows that remain from an
\* earlier one.
Typed(s) == IsTable(s, AllLists, Tracks)
Ordered(s) == \A p \in AllLists : InOrder(s, p)

VotesTyped == votes \in SUBSET (Users \X Tracks) /\ left \in [Users -> Nat]
BallotsFinite == \A u \in Users : IsFiniteSet(Ballot(u))
VotesInv == VotesTyped /\ BallotsFinite /\ VoteBudget

\* The inductive invariant.  What it says of the votes does not need the order of the
\* playlists, which the amp can disturb: Safe is an invariant of the amp, too.
Safe ==
    /\ Typed(rows)
    /\ playlists \in SUBSET Lists
    /\ VotesInv
    /\ VotesAreQueued

IInv == Safe /\ Ordered(rows)

-------------------------------------------------------------------------------
(* What each handler does to the table of rows. *)

\* Table s has the rows of table t with their playlists and tracks.
SameRows(s, t) ==
    /\ DOMAIN s = DOMAIN t
    /\ \A j \in DOMAIN t : s[j].pl = t[j].pl /\ s[j].track = t[j].track

\* Playlist q has the same rows in s and in t, and Elsewhere(s, t, p): every playlist
\* but p has.
SameList(s, t, q) ==
    /\ InList(s, q) = InList(t, q)
    /\ \A i \in InList(t, q) : s[i].track = t[i].track /\ s[i].pos = t[i].pos

Elsewhere(s, t, p) == \A q \in AllLists \ {p} : SameList(s, t, q)

LEMMA ElsewhereTwice ==
    ASSUME NEW s, NEW t, NEW v, NEW p, Elsewhere(t, s, p), Elsewhere(v, t, p)
    PROVE  Elsewhere(v, s, p)
BY DEF Elsewhere, SameList

\* A row of a typed table.
LEMMA RowTyped ==
    ASSUME NEW t, Typed(t), NEW i \in DOMAIN t
    PROVE  /\ i \in Nat \ {0}
           /\ t[i] \in [pl : AllLists, track : Tracks, pos : Nat, votes : Int]
           /\ t[i].pl \in AllLists /\ t[i].track \in Tracks
           /\ t[i].pos \in Nat /\ t[i].votes \in Int
<1>1. t[i] \in [pl : AllLists, track : Tracks, pos : Nat, votes : Int]
  BY DEF Typed, IsTable
<1> QED BY <1>1 DEF Typed, IsTable

\* The first row of a track that has one.
LEMMA FirstRowOf ==
    ASSUME NEW t, Typed(t), NEW p, NEW k, HasTrack(t, p, k)
    PROVE  /\ FirstRow(t, p, k) \in InList(t, p)
           /\ FirstRow(t, p, k) \in DOMAIN t
           /\ t[FirstRow(t, p, k)].pl = p /\ t[FirstRow(t, p, k)].track = k
<1>1. RowsOf(t, p, k) \in SUBSET Nat /\ RowsOf(t, p, k) # {}
  BY DEF Typed, IsTable, RowsOf, InList, HasTrack
<1>2. FirstRow(t, p, k) \in RowsOf(t, p, k)
  BY <1>1, MinNat DEF FirstRow
<1> QED BY <1>2 DEF RowsOf, InList

\* Moving a row within its playlist.
LEMMA MoveKeeps ==
    ASSUME NEW t, Typed(t), NEW p \in AllLists, NEW i \in InList(t, p), NEW pos \in Nat
    PROVE  /\ Typed(MoveTrack(t, p, i, pos))
           /\ SameRows(MoveTrack(t, p, i, pos), t)
           /\ Elsewhere(MoveTrack(t, p, i, pos), t, p)
           /\ CanMove(t, p, i, pos) /\ Ordered(t) => Ordered(MoveTrack(t, p, i, pos))
<1> DEFINE s == MoveTrack(t, p, i, pos)
<1>1. Typed(s)
  BY MoveTrackTable DEF Typed
<1>2. s = [j \in DOMAIN t |-> [t[j] EXCEPT !.pos = MovedPos(t, p, i, pos, j)]]
  BY MoveTrackRows DEF Typed
<1>3. ASSUME CanMove(t, p, i, pos), Ordered(t) PROVE Ordered(s)
  BY <1>3, MoveTrackOrder DEF Typed, Ordered
<1> HIDE DEF s
<1>4. \A j \in DOMAIN t :
        t[j] \in [pl : AllLists, track : Tracks, pos : Nat, votes : Int]
  BY RowTyped
<1>5. SameRows(s, t)
  BY <1>2, <1>4 DEF SameRows
<1>6. \A j \in DOMAIN t : t[j].pl # p => s[j].pos = t[j].pos
  BY <1>2, <1>4 DEF MovedPos, InList
<1>7. Elsewhere(s, t, p)
  BY <1>5, <1>6 DEF Elsewhere, SameList, SameRows, InList
<1> QED BY <1>1, <1>3, <1>5, <1>7 DEF s

\* Changing votes.
LEMMA RevoteKeeps ==
    ASSUME NEW t, Typed(t), NEW S, NEW d \in Int
    PROVE  /\ Typed(Revote(t, S, d))
           /\ SameRows(Revote(t, S, d), t)
           /\ \A p : Elsewhere(Revote(t, S, d), t, p)
           /\ Ordered(t) => Ordered(Revote(t, S, d))
<1>1. Typed(Revote(t, S, d)) /\ SameRows(Revote(t, S, d), t)
  BY RevoteRows DEF Typed, SameRows
<1>2. ASSUME Ordered(t) PROVE Ordered(Revote(t, S, d))
  BY <1>2, RevoteOrder DEF Typed, Ordered
<1>3. \A q : SameList(Revote(t, S, d), t, q)
  BY RevoteRows DEF Typed, SameList, InList
<1> QED BY <1>1, <1>2, <1>3 DEF Elsewhere

\* Where add_vote moves a row to is the position of a row of the queue.
LEMMA UpPosRange ==
    ASSUME Typed(rows), NEW r \in InList(rows, Queue), rows[r].pos > 2
    PROVE  UpPos(r) \in Nat /\ CanMove(rows, Queue, r, UpPos(r))
<1> DEFINE S == {rows[j].pos : j \in {j \in InList(rows, Queue) :
                                        /\ rows[j].votes <= rows[r].votes
                                        /\ rows[j].pos > 1}}
<1>1. \A j \in InList(rows, Queue) : rows[j].pos \in Nat /\ rows[j].votes \in Int
  BY RowTyped DEF InList
<1>2. S \in SUBSET Nat
  BY <1>1
<1>3. rows[r].pos \in S
  BY <1>1
<1>4. \A j \in InList(rows, Queue) : rows[j].pos <= MaxPos(rows, Queue)
      /\ MaxPos(rows, Queue) \in Nat
  BY MaxPosType DEF Typed
<1>5. ASSUME NEW x \in S PROVE x \in 1 .. MaxPos(rows, Queue)
  BY <1>1, <1>4
<1>6. UpPos(r) = Min(S)
  BY DEF UpPos
<1> HIDE DEF S
<1>7. Min(S) \in S
  BY <1>2, <1>3, MinNat
<1> QED BY <1>5, <1>6, <1>7 DEF CanMove

\* add_vote's move.
LEMMA MovedUpKeeps ==
    ASSUME Typed(rows), NEW r \in InList(rows, Queue)
    PROVE  /\ Typed(MovedUp(r))
           /\ SameRows(MovedUp(r), rows)
           /\ Elsewhere(MovedUp(r), rows, Queue)
           /\ Ordered(rows) => Ordered(MovedUp(r))
<1>1. CASE rows[r].pos <= 2
  BY <1>1 DEF MovedUp, SameRows, Elsewhere, SameList
<1>2. CASE ~(rows[r].pos <= 2)
  <2>1. rows[r].pos > 2
    BY <1>2, RowTyped DEF InList
  <2>2. UpPos(r) \in Nat /\ CanMove(rows, Queue, r, UpPos(r))
    BY <2>1, UpPosRange
  <2>3. MovedUp(r) = MoveTrack(rows, Queue, r, UpPos(r))
    BY <1>2 DEF MovedUp
  <2> QED BY <2>2, <2>3, MoveKeeps DEF AllLists
<1> QED BY <1>1, <1>2

\* A new row behind the last one; the old rows stay.
LEMMA AddTrackKeeps ==
    ASSUME NEW t, Typed(t), NEW p \in AllLists, NEW k \in Tracks, NEW v \in Int
    PROVE  /\ Typed(AddTrack(t, p, k, v))
           /\ WithTrack(AddTrack(t, p, k, v), t, p, k, v)
           /\ Elsewhere(AddTrack(t, p, k, v), t, p)
           /\ Ordered(t) => Ordered(AddTrack(t, p, k, v))
<1>1. Typed(AddTrack(t, p, k, v)) /\ WithTrack(AddTrack(t, p, k, v), t, p, k, v)
  BY AddTrackTable DEF Typed
<1>2. ASSUME Ordered(t) PROVE Ordered(AddTrack(t, p, k, v))
  BY <1>2, AddTrackOrder DEF Typed, Ordered
<1>3. Elsewhere(AddTrack(t, p, k, v), t, p)
  BY <1>1 DEF WithTrack, Elsewhere, SameList, InList
<1> QED BY <1>1, <1>2, <1>3

\* New rows at a position; the old rows stay.
LEMMA AddTracksKeeps ==
    ASSUME NEW t, Typed(t), NEW p \in AllLists, NEW ks \in Seq(Tracks),
           NEW pos \in Int \ {0}
    PROVE  /\ Typed(AddTracks(t, p, ks, pos))
           /\ WithTracks(AddTracks(t, p, ks, pos), t, p, Len(ks), AddPosition(t, p, pos))
           /\ Elsewhere(AddTracks(t, p, ks, pos), t, p)
           /\ Ordered(t) => Ordered(AddTracks(t, p, ks, pos))
<1>1. Typed(AddTracks(t, p, ks, pos))
      /\ WithTracks(AddTracks(t, p, ks, pos), t, p, Len(ks), AddPosition(t, p, pos))
  BY AddTracksTable DEF Typed
<1>2. ASSUME Ordered(t) PROVE Ordered(AddTracks(t, p, ks, pos))
  BY <1>2, AddTracksOrder DEF Typed, Ordered
<1>3. Elsewhere(AddTracks(t, p, ks, pos), t, p)
  BY <1>1 DEF WithTracks, Elsewhere, SameList, InList
<1> QED BY <1>1, <1>2, <1>3

\* A row is deleted; the order is kept when it is a row of the playlist it is deleted
\* through.
LEMMA RemoveRowKeeps ==
    ASSUME NEW t, Typed(t), NEW p \in AllLists, NEW i \in DOMAIN t
    PROVE  /\ Typed(RemoveRow(t, p, i))
           /\ WithoutRow(RemoveRow(t, p, i), t, p, i)
           /\ i \in InList(t, p) => Elsewhere(RemoveRow(t, p, i), t, p)
           /\ i \in InList(t, p) /\ Ordered(t) => Ordered(RemoveRow(t, p, i))
<1>1. Typed(RemoveRow(t, p, i)) /\ WithoutRow(RemoveRow(t, p, i), t, p, i)
  BY RemoveRowTable DEF Typed
<1>2. ASSUME i \in InList(t, p), Ordered(t) PROVE Ordered(RemoveRow(t, p, i))
  BY <1>2, RemoveRowOrder DEF Typed, Ordered
<1>3. ASSUME i \in InList(t, p) PROVE Elsewhere(RemoveRow(t, p, i), t, p)
  BY <1>1, <1>3 DEF WithoutRow, Elsewhere, SameList, InList
<1> QED BY <1>1, <1>2, <1>3

\* A playlist is removed with its rows.
LEMMA RemoveListKeeps ==
    ASSUME NEW t, Typed(t), NEW p
    PROVE  /\ Typed(RemoveList(t, p))
           /\ Elsewhere(RemoveList(t, p), t, p)
           /\ Ordered(t) => Ordered(RemoveList(t, p))
<1>1. Typed(RemoveList(t, p))
  BY RemoveListTable DEF Typed
<1>2. ASSUME Ordered(t) PROVE Ordered(RemoveList(t, p))
  BY <1>2, RemoveListOrder DEF Typed, Ordered
<1>3. Elsewhere(RemoveList(t, p), t, p)
  BY DEF RemoveList, Elsewhere, SameList, InList
<1> QED BY <1>1, <1>2, <1>3

\* The empty table.
LEMMA EmptyKeeps ==
    ASSUME NEW t, t = [i \in {} |-> 0]
    PROVE  Typed(t) /\ Ordered(t)
<1>1. DOMAIN t = {} /\ t \in [DOMAIN t -> [pl : AllLists, track : Tracks, pos : Nat, votes : Int]]
  OBVIOUS
<1>2. Typed(t)
  BY <1>1, FS_EmptySet DEF Typed, IsTable
<1>3. ASSUME NEW p PROVE InOrder(t, p)
  <2>1. InList(t, p) = {}
    BY <1>1 DEF InList
  <2>2. IsOrder(t, p, 0)
    BY <2>1 DEF IsOrder
  <2> QED BY <2>2 DEF InOrder
<1> QED BY <1>2, <1>3 DEF Ordered

-------------------------------------------------------------------------------
(* What each handler does to the votes. *)

\* A vote placed is a vote fewer left.
LEMMA PlaceKeepsBudget ==
    ASSUME VotesInv, NEW u \in Users, NEW k \in Tracks, left[u] >= 1, <<u, k>> \notin votes,
           votes' = votes \cup {<<u, k>>}, left' = [left EXCEPT ![u] = @ - 1]
    PROVE  /\ VotesInv'
           /\ [w \in Users |-> Ballot(w)'] =
                 [[w \in Users |-> Ballot(w)] EXCEPT ![u] = @ \cup {k}]
<1>1. Ballot(u)' = Ballot(u) \cup {k} /\ k \notin Ballot(u)
  BY DEF Ballot, VotesInv, VotesTyped
<1>2. \A w \in Users : w # u => Ballot(w)' = Ballot(w)
  BY DEF Ballot
<1>3. VotesTyped'
  <2>1. left[u] - 1 \in Nat
    BY DEF VotesInv, VotesTyped
  <2> QED BY <2>1 DEF VotesInv, VotesTyped
<1>4. ASSUME NEW w \in Users
      PROVE  IsFiniteSet(Ballot(w)') /\ left'[w] + Cardinality(Ballot(w)') = InitialVotes
  <2>1. /\ IsFiniteSet(Ballot(w)) /\ left[w] \in Nat
        /\ left[w] + Cardinality(Ballot(w)) = InitialVotes
    BY DEF VotesInv, VotesTyped, BallotsFinite, VoteBudget
  <2>2. Cardinality(Ballot(w)) \in Nat
    BY <2>1, FS_CardinalityType
  <2>3. CASE w = u
    <3>1. left'[w] = left[w] - 1
      BY <2>3 DEF VotesInv, VotesTyped
    <3>2. IsFiniteSet(Ballot(w)') /\ Cardinality(Ballot(w)') = Cardinality(Ballot(w)) + 1
      BY <2>1, <2>3, <1>1, FS_AddElement
    <3> QED BY <2>1, <2>2, <3>1, <3>2
  <2>4. CASE w # u
    BY <2>1, <2>4, <1>2 DEF VotesInv, VotesTyped
  <2> QED BY <2>3, <2>4
<1>5. VotesInv'
  BY <1>3, <1>4 DEF VotesInv, BallotsFinite, VoteBudget
<1>6. [w \in Users |-> Ballot(w)'] = [[w \in Users |-> Ballot(w)] EXCEPT ![u] = @ \cup {k}]
  BY <1>1, <1>2
<1> QED BY <1>5, <1>6

\* A vote taken back is a vote more left.
LEMMA RetractKeepsBudget ==
    ASSUME VotesInv, NEW u \in Users, NEW k \in Tracks, <<u, k>> \in votes,
           votes' = votes \ {<<u, k>>}, left' = [left EXCEPT ![u] = @ + 1]
    PROVE  /\ VotesInv'
           /\ [w \in Users |-> Ballot(w)'] =
                 [[w \in Users |-> Ballot(w)] EXCEPT ![u] = @ \ {k}]
<1>1. Ballot(u)' = Ballot(u) \ {k} /\ k \in Ballot(u)
  BY DEF Ballot
<1>2. \A w \in Users : w # u => Ballot(w)' = Ballot(w)
  BY DEF Ballot
<1>3. VotesTyped'
  <2>1. left[u] + 1 \in Nat
    BY DEF VotesInv, VotesTyped
  <2> QED BY <2>1 DEF VotesInv, VotesTyped
<1>4. ASSUME NEW w \in Users
      PROVE  IsFiniteSet(Ballot(w)') /\ left'[w] + Cardinality(Ballot(w)') = InitialVotes
  <2>1. /\ IsFiniteSet(Ballot(w)) /\ left[w] \in Nat
        /\ left[w] + Cardinality(Ballot(w)) = InitialVotes
    BY DEF VotesInv, VotesTyped, BallotsFinite, VoteBudget
  <2>2. Cardinality(Ballot(w)) \in Nat
    BY <2>1, FS_CardinalityType
  <2>3. CASE w = u
    <3>1. left'[w] = left[w] + 1
      BY <2>3 DEF VotesInv, VotesTyped
    <3>2. IsFiniteSet(Ballot(w)') /\ Cardinality(Ballot(w)') = Cardinality(Ballot(w)) - 1
      BY <2>1, <2>3, <1>1, FS_RemoveElement
    <3> QED BY <2>1, <2>2, <3>1, <3>2
  <2>4. CASE w # u
    BY <2>1, <2>4, <1>2 DEF VotesInv, VotesTyped
  <2> QED BY <2>3, <2>4
<1>5. VotesInv'
  BY <1>3, <1>4 DEF VotesInv, BallotsFinite, VoteBudget
<1>6. [w \in Users |-> Ballot(w)'] = [[w \in Users |-> Ballot(w)] EXCEPT ![u] = @ \ {k}]
  BY <1>1, <1>2
<1> QED BY <1>5, <1>6

\* The votes on the tracks in K go back to their owners.
LEMMA GiveBackKeepsBudget ==
    ASSUME VotesInv, NEW K, GiveBack(K)
    PROVE  /\ VotesInv'
           /\ \A w \in Users : Ballot(w)' = Ballot(w) \ K
           /\ \A w \in votes' : w \in votes /\ w[2] \notin K
<1>1. votes' = {w \in votes : w[2] \notin K}
  BY DEF GiveBack
<1>2. votes' \in SUBSET (Users \X Tracks)
  BY <1>1 DEF VotesInv, VotesTyped
<1>3. ASSUME NEW w \in Users
      PROVE  /\ Ballot(w)' = Ballot(w) \ K
             /\ IsFiniteSet(Ballot(w)')
             /\ left'[w] \in Nat
             /\ left'[w] + Cardinality(Ballot(w)') = InitialVotes
  <2>1. /\ IsFiniteSet(Ballot(w)) /\ left[w] \in Nat
        /\ left[w] + Cardinality(Ballot(w)) = InitialVotes
    BY DEF VotesInv, VotesTyped, BallotsFinite, VoteBudget
  <2>2. Ballot(w)' = Ballot(w) \ K
    BY <1>1 DEF Ballot
  <2>3. {k \in K : <<w, k>> \in votes} = Ballot(w) \cap K
    BY DEF Ballot, VotesInv, VotesTyped
  <2>4. left'[w] = left[w] + Cardinality(Ballot(w) \cap K)
    BY <2>3 DEF GiveBack
  <2>5. IsFiniteSet(Ballot(w) \cap K) /\ IsFiniteSet(Ballot(w) \ K)
        /\ Cardinality(Ballot(w) \ K) = Cardinality(Ballot(w)) - Cardinality(Ballot(w) \cap K)
    BY <2>1, FS_Difference, FS_Intersection
  <2>6. Cardinality(Ballot(w)) \in Nat /\ Cardinality(Ballot(w) \cap K) \in Nat
    BY <2>1, <2>5, FS_CardinalityType
  <2> QED BY <2>1, <2>2, <2>4, <2>5, <2>6
<1>4. left' \in [Users -> Nat]
  BY <1>3 DEF GiveBack
<1>5. VotesInv'
  BY <1>2, <1>3, <1>4 DEF VotesInv, VotesTyped, BallotsFinite, VoteBudget
<1> QED BY <1>1, <1>3, <1>5

\* Nothing happens to the votes.
LEMMA VotesStay ==
    ASSUME VotesInv, UNCHANGED <<votes, left>>
    PROVE  VotesInv' /\ \A w \in Users : Ballot(w)' = Ballot(w)
BY DEF VotesInv, VotesTyped, BallotsFinite, VoteBudget, Ballot

\* A new user, or everybody after cleanDatabase.
LEMMA NoVotes ==
    ASSUME VoteQueueAssumption, votes = {}, left = [u \in Users |-> InitialVotes]
    PROVE  VotesInv /\ \A w \in Users : Ballot(w) = {}
<1>1. \A w \in Users : Ballot(w) = {}
  BY DEF Ballot
<1>2. VotesTyped
  BY DEF VotesTyped, VoteQueueAssumption
<1>3. BallotsFinite /\ VoteBudget
  BY <1>1, FS_EmptySet DEF BallotsFinite, VoteBudget, VoteQueueAssumption
<1> QED BY <1>1, <1>2, <1>3 DEF VotesInv

LEMMA NoVotesNext ==
    ASSUME VoteQueueAssumption, votes' = {}, left' = [u \in Users |-> InitialVotes]
    PROVE  VotesInv' /\ \A w \in Users : Ballot(w)' = {}
<1>1. \A w \in Users : Ballot(w)' = {}
  BY DEF Ballot
<1>2. VotesTyped'
  BY DEF VotesTyped, VoteQueueAssumption
<1>3. BallotsFinite' /\ VoteBudget'
  BY <1>1, FS_EmptySet DEF BallotsFinite, VoteBudget, VoteQueueAssumption
<1> QED BY <1>1, <1>2, <1>3 DEF VotesInv

-------------------------------------------------------------------------------
(* Which rows stay. *)

\* Rows that are in both tables are in the same playlist and have the same track, and
\* no row of playlist p is missing.
Lasting(s, t) ==
    \A i \in DOMAIN s \cap DOMAIN t : s[i].pl = t[i].pl /\ s[i].track = t[i].track
Staying(s, t, p) == Lasting(s, t) /\ InList(t, p) \subseteq DOMAIN s

\* The tracks in K are tracks of rows that are missing, and those of the queue's rows
\* that are missing are among them.
Clearing(s, t, K) ==
    /\ K \subseteq {t[i].track : i \in DOMAIN t \ DOMAIN s}
    /\ \A i \in InList(t, Queue) \ DOMAIN s : t[i].track \in K

LEMMA SameRowsStay ==
    ASSUME NEW s, NEW t, SameRows(s, t)
    PROVE  \A p : Staying(s, t, p)
BY DEF SameRows, Staying, Lasting, InList

LEMMA WithTrackStay ==
    ASSUME NEW s, NEW t, NEW p, NEW k, NEW v, WithTrack(s, t, p, k, v)
    PROVE  HasTrack(s, p, k) /\ \A q : Staying(s, t, q)
BY DEF WithTrack, HasTrack, RowsOf, InList, Staying, Lasting

LEMMA WithTracksStay ==
    ASSUME NEW s, NEW t, NEW p, NEW l, NEW at, WithTracks(s, t, p, l, at)
    PROVE  \A q : Staying(s, t, q)
BY DEF WithTracks, InList, Staying, Lasting

LEMMA WithoutRowStay ==
    ASSUME NEW s, NEW t, NEW p, NEW i \in DOMAIN t, WithoutRow(s, t, p, i)
    PROVE  Lasting(s, t) /\ Clearing(s, t, {t[i].track})
BY DEF WithoutRow, InList, Lasting, Clearing

LEMMA WithoutRowsStay ==
    ASSUME NEW s, NEW t, NEW v, NEW p, NEW i \in DOMAIN t, NEW j \in DOMAIN t, i # j,
           WithoutRow(s, t, p, i), WithoutRow(v, s, p, j)
    PROVE  Lasting(v, t) /\ Clearing(v, t, {t[i].track, t[j].track})
BY DEF WithoutRow, InList, Lasting, Clearing

\* A track of the queue whose votes are not given back is still in the queue.
LEMMA TracksStay ==
    ASSUME NEW s, NEW t, NEW K, Lasting(s, t), \A i \in InList(t, Queue) \ DOMAIN s : t[i].track \in K,
           NEW k, HasTrack(t, Queue, k), k \notin K
    PROVE  HasTrack(s, Queue, k)
<1>1. PICK i \in InList(t, Queue) : t[i].track = k
  BY DEF HasTrack, RowsOf
<1>2. i \in DOMAIN s /\ s[i].pl = Queue /\ s[i].track = k
  BY <1>1 DEF Lasting, InList
<1> QED BY <1>2 DEF HasTrack, RowsOf, InList

LEMMA StayingTracks ==
    ASSUME NEW s, NEW t, Staying(s, t, Queue), NEW k, HasTrack(t, Queue, k)
    PROVE  HasTrack(s, Queue, k)
<1>1. PICK i \in InList(t, Queue) : t[i].track = k
  BY DEF HasTrack, RowsOf
<1>2. i \in DOMAIN s /\ s[i].pl = Queue /\ s[i].track = k
  BY <1>1 DEF Staying, Lasting, InList
<1> QED BY <1>2 DEF HasTrack, RowsOf, InList

LEMMA SameRowsTwice ==
    ASSUME NEW s, NEW t, NEW v, SameRows(t, s), SameRows(v, t)
    PROVE  SameRows(v, s)
BY DEF SameRows

-------------------------------------------------------------------------------
(* Each handler keeps the invariant and is a step of VotingBooth. *)

\* VotingBooth counts as this module does.
LEMMA BoothCardinality == \A S : Booth!Cardinality(S) = Cardinality(S)
BY DEF Booth!Cardinality, Cardinality

\* What every handler does: it keeps the invariant and is a step of VotingBooth; and
\* what it does besides when it names rows through the list they are in: it leaves the
\* playlists in order.
BoothStep == Booth!Next \/ UNCHANGED <<Ballots, QueuedTracks, SavedTracks>>
Sound == Safe' /\ BoothStep
Kept == Sound /\ (Ordered(rows) => Ordered(rows'))

\* A handler changes no playlist but p.
OnlyOn(p) == Elsewhere(rows', rows, p)

\* Rows come and go with the votes on them.
LEMMA ChangeStep ==
    ASSUME NEW K \in SUBSET Tracks, Lasting(rows', rows), Clearing(rows', rows, K),
           \A w \in Users : Ballot(w)' = Ballot(w) \ K
    PROVE  BoothStep
<1> DEFINE q == QueuedTracks
           v == SavedTracks
<1>1. /\ DOMAIN q = InList(rows, Queue) /\ \A i \in InList(rows, Queue) : q[i] = rows[i].track
      /\ DOMAIN v = DOMAIN rows \ InList(rows, Queue)
      /\ \A i \in DOMAIN rows \ InList(rows, Queue) : v[i] = rows[i].track
  BY DEF QueuedTracks, SavedTracks
<1>2. /\ DOMAIN q' = InList(rows', Queue) /\ \A i \in InList(rows', Queue) : q'[i] = rows'[i].track
      /\ DOMAIN v' = DOMAIN rows' \ InList(rows', Queue)
      /\ \A i \in DOMAIN rows' \ InList(rows', Queue) : v'[i] = rows'[i].track
  BY DEF QueuedTracks, SavedTracks
<1> HIDE DEF q, v
<1>3. Booth!Lasting(q', q) /\ Booth!Lasting(v', v)
  BY <1>1, <1>2 DEF Booth!Lasting, Lasting, InList
<1>4. \A i \in InList(rows, Queue) \ InList(rows', Queue) : i \notin DOMAIN rows'
  BY DEF Lasting, InList
<1>5. Booth!Gone(q', q) \subseteq K
  BY <1>1, <1>2, <1>4 DEF Booth!Gone, Clearing
<1>6. ASSUME NEW k \in K PROVE k \in Booth!Gone(q', q) \cup Booth!Gone(v', v)
  <2>1. PICK i \in DOMAIN rows \ DOMAIN rows' : rows[i].track = k
    BY DEF Clearing
  <2>2. CASE i \in InList(rows, Queue)
    BY <1>1, <1>2, <2>1, <2>2 DEF Booth!Gone, InList
  <2>3. CASE i \notin InList(rows, Queue)
    BY <1>1, <1>2, <2>1, <2>3 DEF Booth!Gone, InList
  <2> QED BY <2>2, <2>3
<1>7. Ballots' = [u \in Users |-> Ballots[u] \ K]
  BY DEF Ballots
<1>8. Booth!Change(K)
  BY <1>3, <1>5, <1>6, <1>7 DEF Booth!Change, q, v
<1> QED BY <1>8 DEF BoothStep, Booth!Next

\* A vote placed or taken back touches no row of an ordinary playlist.
LEMMA SavedStay ==
    ASSUME Typed(rows), Typed(rows'), OnlyOn(Queue)
    PROVE  UNCHANGED SavedTracks
<1>1. ASSUME NEW i PROVE i \in DOMAIN rows \ InList(rows, Queue)
                        <=> i \in DOMAIN rows' \ InList(rows', Queue)
  <2>1. \A j \in DOMAIN rows : rows[j].pl \in AllLists
    BY RowTyped
  <2>2. \A j \in DOMAIN rows' : rows'[j].pl \in AllLists
    BY RowTyped
  <2> QED BY <2>1, <2>2 DEF OnlyOn, Elsewhere, SameList, InList
<1>2. ASSUME NEW i \in DOMAIN rows \ InList(rows, Queue) PROVE rows'[i].track = rows[i].track
  <2>1. rows[i].pl \in AllLists \ {Queue} /\ i \in InList(rows, rows[i].pl)
    BY RowTyped DEF InList
  <2> QED BY <2>1 DEF OnlyOn, Elsewhere, SameList
<1> QED BY <1>1, <1>2 DEF SavedTracks

\* Handlers that leave the votes alone.
LEMMA NoVoteStep ==
    ASSUME Safe, UNCHANGED <<votes, left>>, Typed(rows'), playlists' \in SUBSET Lists,
           Staying(rows', rows, Queue)
    PROVE  Sound
<1>1. VotesInv' /\ \A w \in Users : Ballot(w)' = Ballot(w)
  BY VotesStay DEF Safe
<1>2. Lasting(rows', rows) /\ Clearing(rows', rows, {})
  BY DEF Staying, Clearing
<1>3. \A k : HasTrack(rows, Queue, k) => HasTrack(rows', Queue, k)
  BY <1>2, TracksStay DEF Clearing
<1>4. VotesAreQueued'
  BY <1>3 DEF Safe, VotesAreQueued
<1>5. \A w \in Users : Ballot(w)' = Ballot(w) \ {}
  BY <1>1
<1>6. BoothStep
  BY <1>2, <1>5, ChangeStep
<1> QED BY <1>1, <1>4, <1>6 DEF Safe, Sound

\* Handlers that give the votes on the tracks in K back.
LEMMA GiveBackStep ==
    ASSUME Safe, NEW K \in SUBSET Tracks, GiveBack(K), Typed(rows'), UNCHANGED playlists,
           Lasting(rows', rows), Clearing(rows', rows, K)
    PROVE  Sound
<1>1. /\ VotesInv'
      /\ \A w \in Users : Ballot(w)' = Ballot(w) \ K
      /\ \A w \in votes' : w \in votes /\ w[2] \notin K
  BY GiveBackKeepsBudget DEF Safe
<1>2. \A k : HasTrack(rows, Queue, k) /\ k \notin K => HasTrack(rows', Queue, k)
  BY TracksStay DEF Clearing
<1>3. VotesAreQueued'
  BY <1>1, <1>2 DEF Safe, VotesAreQueued
<1>4. Safe'
  BY <1>1, <1>3 DEF Safe
<1>5. BoothStep
  BY <1>1, ChangeStep
<1> QED BY <1>4, <1>5 DEF Sound

LEMMA AddVoteStep ==
    ASSUME Safe, NEW u \in Users, NEW k \in Tracks, AddVote(u, k)
    PROVE  Kept /\ OnlyOn(Queue)
<1>1. /\ left[u] >= 1 /\ <<u, k>> \notin votes
      /\ votes' = votes \cup {<<u, k>>}
      /\ left' = [left EXCEPT ![u] = @ - 1]
      /\ UNCHANGED playlists
  BY DEF AddVote
<1>2. Typed(rows) /\ VotesInv /\ VotesAreQueued /\ playlists \in SUBSET Lists
  BY DEF Safe
<1>3. VotesInv' /\ [w \in Users |-> Ballot(w)'] =
                      [[w \in Users |-> Ballot(w)] EXCEPT ![u] = @ \cup {k}]
  BY <1>1, <1>2, PlaceKeepsBudget
<1>4. /\ Typed(rows') /\ HasTrack(rows', Queue, k)
      /\ Staying(rows', rows, Queue)
      /\ Ordered(rows) => Ordered(rows')
      /\ OnlyOn(Queue)
  <2>1. CASE HasTrack(rows, Queue, k)
    <3> DEFINE r == FirstRow(rows, Queue, k)
               moved == MovedUp(r)
    <3>1. rows' = Revote(moved, RowsOf(moved, Queue, k), 1)
      BY <2>1 DEF AddVote
    <3>2. r \in InList(rows, Queue)
      BY <2>1, <1>2, FirstRowOf
    <3> HIDE DEF r
    <3>3. Typed(moved) /\ SameRows(moved, rows) /\ (Ordered(rows) => Ordered(moved))
          /\ Elsewhere(moved, rows, Queue)
      BY <3>2, <1>2, MovedUpKeeps
    <3> HIDE DEF moved
    <3>4. Typed(rows') /\ SameRows(rows', moved) /\ (Ordered(moved) => Ordered(rows'))
          /\ Elsewhere(rows', moved, Queue)
      BY <3>1, <3>3, RevoteKeeps
    <3>5. OnlyOn(Queue)
      BY <3>3, <3>4, ElsewhereTwice DEF OnlyOn
    <3>6. Staying(rows', rows, Queue)
      BY <3>3, <3>4, SameRowsTwice, SameRowsStay
    <3> QED BY <2>1, <3>3, <3>4, <3>5, <3>6, StayingTracks
  <2>2. CASE ~HasTrack(rows, Queue, k)
    <3>1. rows' = AddTrack(rows, Queue, k, 1)
      BY <2>2 DEF AddVote
    <3>2. /\ Typed(rows') /\ WithTrack(rows', rows, Queue, k, 1)
          /\ Elsewhere(rows', rows, Queue)
          /\ Ordered(rows) => Ordered(rows')
      <4>1. Queue \in AllLists /\ 1 \in Int
        BY DEF AllLists
      <4> QED BY <3>1, <4>1, <1>2, AddTrackKeeps
    <3>3. OnlyOn(Queue)
      BY <3>2 DEF OnlyOn
    <3> QED BY <3>2, <3>3, WithTrackStay
  <2> QED BY <2>1, <2>2
<1>5. VotesAreQueued'
  BY <1>1, <1>2, <1>4, StayingTracks DEF VotesAreQueued
<1>6. Safe'
  BY <1>1, <1>2, <1>3, <1>4, <1>5 DEF Safe
<1>7. Booth!Place(u, k)
  <2>1. Cardinality(Ballot(u)) < InitialVotes
    <3>1. /\ IsFiniteSet(Ballot(u)) /\ left[u] \in Nat
          /\ left[u] + Cardinality(Ballot(u)) = InitialVotes
      BY <1>2 DEF VotesInv, VotesTyped, BallotsFinite, VoteBudget
    <3>2. Cardinality(Ballot(u)) \in Nat
      BY <3>1, FS_CardinalityType
    <3> QED BY <3>1, <3>2, <1>1
  <2>2. k \notin Ballot(u)
    BY <1>1 DEF Ballot
  <2>3. Booth!Lasting(QueuedTracks', QueuedTracks) /\ Booth!Gone(QueuedTracks', QueuedTracks) = {}
    BY <1>4 DEF Booth!Lasting, Booth!Gone, QueuedTracks, Staying, Lasting, InList
  <2>4. k \in Booth!Range(QueuedTracks')
    <3>1. PICK i \in InList(rows', Queue) : rows'[i].track = k
      BY <1>4 DEF HasTrack, RowsOf
    <3> QED BY <3>1 DEF Booth!Range, QueuedTracks
  <2>5. UNCHANGED SavedTracks
    BY <1>2, <1>4, SavedStay
  <2>6. Ballots[u] = Ballot(u) /\ Ballots' = [Ballots EXCEPT ![u] = @ \cup {k}]
    BY <1>3 DEF Ballots
  <2> QED BY <2>1, <2>2, <2>3, <2>4, <2>5, <2>6, BoothCardinality DEF Booth!Place
<1>8. Booth!Next
  BY <1>7 DEF Booth!Next
<1> QED BY <1>4, <1>6, <1>8 DEF BoothStep, Sound, Kept

LEMMA RemoveVoteStep ==
    ASSUME Safe, NEW u \in Users, NEW k \in Tracks, RemoveVote(u, k)
    PROVE  Kept /\ OnlyOn(Queue)
<1> DEFINE r == FirstRow(rows, Queue, k)
<1>1. Typed(rows) /\ VotesInv /\ VotesAreQueued /\ playlists \in SUBSET Lists
  BY DEF Safe
<1>2. r \in InList(rows, Queue) /\ r \in DOMAIN rows /\ rows[r].track = k
  BY <1>1, FirstRowOf DEF RemoveVote
<1>3. <<u, k>> \in votes /\ UNCHANGED playlists
      /\ (rows[r].votes = 1 \/ CanMove(rows, Queue, r, DownPos(r)))
  BY DEF RemoveVote, CanTakeBack
<1>4. CASE VoteDown(u, k)
  <2> DEFINE moved == MoveTrack(rows, Queue, r, DownPos(r))
  <2>1. /\ rows[r].votes # 1
        /\ rows' = Revote(moved, RowsOf(moved, Queue, k), -1)
        /\ votes' = votes \ {<<u, k>>}
        /\ left' = [left EXCEPT ![u] = @ + 1]
    BY <1>4 DEF VoteDown
  <2>2. CanMove(rows, Queue, r, DownPos(r)) /\ DownPos(r) \in Nat
    <3>1. MaxPos(rows, Queue) \in Nat
      BY <1>1, MaxPosType DEF Typed
    <3> QED BY <2>1, <1>3, <3>1 DEF CanMove
  <2>3. Typed(moved) /\ SameRows(moved, rows) /\ (Ordered(rows) => Ordered(moved))
        /\ Elsewhere(moved, rows, Queue)
    BY <2>2, <1>1, <1>2, MoveKeeps DEF AllLists
  <2> HIDE DEF moved
  <2>4. Typed(rows') /\ SameRows(rows', moved) /\ (Ordered(moved) => Ordered(rows'))
        /\ Elsewhere(rows', moved, Queue)
    BY <2>1, <2>3, RevoteKeeps
  <2>5. VotesInv' /\ [w \in Users |-> Ballot(w)'] =
                        [[w \in Users |-> Ballot(w)] EXCEPT ![u] = @ \ {k}]
    BY <2>1, <1>1, <1>3, RetractKeepsBudget
  <2>6. SameRows(rows', rows) /\ Staying(rows', rows, Queue)
    BY <2>3, <2>4, SameRowsTwice, SameRowsStay
  <2>7. VotesAreQueued'
    BY <2>1, <2>6, <1>1, StayingTracks DEF VotesAreQueued
  <2>8. Safe'
    BY <2>4, <2>5, <2>7, <1>1, <1>3 DEF Safe
  <2>9. OnlyOn(Queue)
    BY <2>3, <2>4, ElsewhereTwice DEF OnlyOn
  <2>10. Booth!Retract(u, k)
    <3>1. UNCHANGED QueuedTracks
      BY <2>6 DEF QueuedTracks, SameRows, InList
    <3>2. UNCHANGED SavedTracks
      BY <1>1, <2>4, <2>9, SavedStay
    <3>3. Ballots[u] = Ballot(u) /\ Ballots' = [Ballots EXCEPT ![u] = @ \ {k}]
      BY <2>5 DEF Ballots
    <3> QED BY <1>3, <3>1, <3>2, <3>3 DEF Booth!Retract, Ballot
  <2>11. Booth!Next
    BY <2>10 DEF Booth!Next
  <2> QED BY <2>3, <2>4, <2>8, <2>9, <2>11 DEF BoothStep, Sound, Kept
<1>5. CASE VoteOff(k)
  <2>1. rows' = RemoveRow(rows, Queue, r) /\ GiveBack({k})
    BY <1>5 DEF VoteOff
  <2>2. /\ Typed(rows') /\ WithoutRow(rows', rows, Queue, r)
        /\ Elsewhere(rows', rows, Queue)
        /\ Ordered(rows) => Ordered(rows')
    BY <2>1, <1>1, <1>2, RemoveRowKeeps DEF AllLists
  <2>3. Lasting(rows', rows) /\ Clearing(rows', rows, {k})
    BY <2>2, <1>2, WithoutRowStay
  <2>4. Sound
    BY <2>1, <2>2, <2>3, <1>3, GiveBackStep
  <2>5. OnlyOn(Queue)
    BY <2>2 DEF OnlyOn
  <2> QED BY <2>2, <2>4, <2>5 DEF Kept
<1> QED BY <1>4, <1>5 DEF RemoveVote

\* Deleting one row, through any playlist.
LEMMA DropRowStep ==
    ASSUME Safe, NEW p \in AllLists, NEW i \in DOMAIN rows, DropRow(p, i)
    PROVE  Sound /\ (i \in InList(rows, p) => Kept /\ OnlyOn(p))
<1>1. /\ i \in DOMAIN rows /\ rows' = RemoveRow(rows, p, i)
      /\ GiveBack({rows[i].track}) /\ UNCHANGED playlists
  BY DEF DropRow
<1>2. /\ Typed(rows') /\ WithoutRow(rows', rows, p, i)
      /\ i \in InList(rows, p) => Elsewhere(rows', rows, p)
      /\ i \in InList(rows, p) /\ Ordered(rows) => Ordered(rows')
  BY <1>1, RemoveRowKeeps DEF Safe
<1>3. rows[i].track \in Tracks
  BY <1>1, RowTyped DEF Safe
<1>4. Lasting(rows', rows) /\ Clearing(rows', rows, {rows[i].track})
  BY <1>2, WithoutRowStay
<1>5. Sound
  BY <1>1, <1>2, <1>3, <1>4, GiveBackStep
<1>6. i \in InList(rows, p) => OnlyOn(p)
  BY <1>2 DEF OnlyOn
<1> QED BY <1>2, <1>5, <1>6 DEF Kept

\* Deleting two.
LEMMA DropRowsStep ==
    ASSUME Safe, NEW p \in AllLists, NEW i \in DOMAIN rows, NEW j \in DOMAIN rows,
           DropRows(p, i, j)
    PROVE  Sound /\ ({i, j} \subseteq InList(rows, p) => Kept /\ OnlyOn(p))
<1> DEFINE s == RemoveRow(rows, p, i)
           K == {rows[i].track, rows[j].track}
<1>1. /\ i # j /\ i \in DOMAIN rows /\ j \in DOMAIN rows
      /\ rows' = RemoveRow(s, p, j) /\ GiveBack(K) /\ UNCHANGED playlists
  BY DEF DropRows
<1>2. /\ Typed(s) /\ WithoutRow(s, rows, p, i)
      /\ i \in InList(rows, p) => Elsewhere(s, rows, p)
      /\ i \in InList(rows, p) /\ Ordered(rows) => Ordered(s)
  BY <1>1, RemoveRowKeeps DEF Safe
<1> HIDE DEF s
<1>3. j \in DOMAIN s /\ (j \in InList(rows, p) => j \in InList(s, p))
  BY <1>1, <1>2 DEF WithoutRow, InList
<1>4. /\ Typed(rows') /\ WithoutRow(rows', s, p, j)
      /\ j \in InList(s, p) => Elsewhere(rows', s, p)
      /\ j \in InList(s, p) /\ Ordered(s) => Ordered(rows')
  BY <1>1, <1>2, <1>3, RemoveRowKeeps
<1>5. K \in SUBSET Tracks
  BY <1>1, RowTyped DEF Safe
<1>6. Lasting(rows', rows) /\ Clearing(rows', rows, K)
  BY <1>1, <1>2, <1>4, WithoutRowsStay
<1>7. Sound
  BY <1>1, <1>4, <1>5, <1>6, GiveBackStep
<1>8. {i, j} \subseteq InList(rows, p) => OnlyOn(p)
  BY <1>2, <1>3, <1>4, ElsewhereTwice DEF OnlyOn
<1> QED BY <1>2, <1>3, <1>4, <1>7, <1>8 DEF Kept

\* The tracks of an uri are a sequence.
LEMMA AlbumsAreSequences == ASSUME NEW ks \in Albums PROVE ks \in Seq(Tracks)
<1>1. CASE \E k \in Tracks : ks = <<k>>
  <2>1. PICK k \in Tracks : ks = <<k>>
    BY <1>1
  <2> QED BY <2>1
<1>2. CASE \E k \in Tracks : \E l \in Tracks : ks = <<k, l>>
  <2>1. PICK k \in Tracks : \E l \in Tracks : ks = <<k, l>>
    BY <1>2
  <2>2. PICK l \in Tracks : ks = <<k, l>>
    BY <2>1
  <2> QED BY <2>2
<1> QED BY <1>1, <1>2 DEF Albums

\* Handlers that add rows, the votes as they are.
LEMMA AddTracksStep ==
    ASSUME Safe, NEW p \in AllLists, NEW ks \in Albums,
           rows' = AddTracks(rows, p, ks, -1), UNCHANGED <<votes, left, playlists>>
    PROVE  Kept /\ OnlyOn(p)
<1>1. ks \in Seq(Tracks) /\ -1 \in Int \ {0}
  BY AlbumsAreSequences
<1>2. /\ Typed(rows') /\ WithTracks(rows', rows, p, Len(ks), AddPosition(rows, p, -1))
      /\ Elsewhere(rows', rows, p)
      /\ Ordered(rows) => Ordered(rows')
  BY <1>1, AddTracksKeeps DEF Safe
<1>3. Staying(rows', rows, Queue)
  BY <1>2, WithTracksStay
<1>4. Sound
  BY <1>2, <1>3, NoVoteStep DEF Safe
<1>5. OnlyOn(p)
  BY <1>2 DEF OnlyOn
<1> QED BY <1>2, <1>4, <1>5 DEF Kept

LEMMA AddTrackStep ==
    ASSUME Safe, NEW p \in AllLists, NEW k \in Tracks,
           rows' = AddTrack(rows, p, k, 0), UNCHANGED <<votes, left, playlists>>
    PROVE  Kept /\ OnlyOn(p)
<1>1. /\ Typed(rows') /\ WithTrack(rows', rows, p, k, 0)
      /\ Elsewhere(rows', rows, p)
      /\ Ordered(rows) => Ordered(rows')
  BY AddTrackKeeps DEF Safe
<1>2. Staying(rows', rows, Queue)
  BY <1>1, WithTrackStay
<1>3. Sound
  BY <1>1, <1>2, NoVoteStep DEF Safe
<1>4. OnlyOn(p)
  BY <1>1 DEF OnlyOn
<1> QED BY <1>1, <1>3, <1>4 DEF Kept

LEMMA CreatePlaylistStep ==
    ASSUME Safe, CreatePlaylist
    PROVE  Kept
<1>1. UNCHANGED <<rows, votes, left>> /\ playlists' \in SUBSET Lists
  BY DEF CreatePlaylist, Safe
<1>2. Staying(rows', rows, Queue)
  BY <1>1 DEF Staying, Lasting, InList
<1>3. Sound
  BY <1>1, <1>2, NoVoteStep DEF Safe
<1> QED BY <1>1, <1>3 DEF Kept

LEMMA RemovePlaylistStep ==
    ASSUME VoteQueueAssumption, Safe, NEW p \in playlists, RemovePlaylist(p)
    PROVE  Kept /\ OnlyOn(p) /\ InList(rows', p) = {}
<1>1. /\ rows' = RemoveList(rows, p) /\ playlists' = playlists \ {p}
      /\ UNCHANGED <<votes, left>>
  BY DEF RemovePlaylist
<1>2. p # Queue /\ playlists' \in SUBSET Lists
  BY <1>1 DEF Safe, VoteQueueAssumption
<1>3. Typed(rows') /\ (Ordered(rows) => Ordered(rows')) /\ Elsewhere(rows', rows, p)
  BY <1>1, RemoveListKeeps DEF Safe
<1>4. Staying(rows', rows, Queue)
  BY <1>1, <1>2 DEF RemoveList, Staying, Lasting, InList
<1>5. Sound
  BY <1>1, <1>2, <1>3, <1>4, NoVoteStep
<1>6. OnlyOn(p) /\ InList(rows', p) = {}
  BY <1>1, <1>3 DEF RemoveList, OnlyOn, InList
<1> QED BY <1>3, <1>5, <1>6 DEF Kept

LEMMA MoveTrackStep ==
    ASSUME Safe, NEW p \in AllLists, NEW i, NEW pos, CanMove(rows, p, i, pos),
           rows' = MoveTrack(rows, p, i, pos), UNCHANGED <<votes, left, playlists>>
    PROVE  Kept /\ OnlyOn(p)
<1>1. i \in InList(rows, p) /\ pos \in Nat
  <2>1. MaxPos(rows, p) \in Nat
    BY MaxPosType DEF Safe, Typed
  <2> QED BY <2>1 DEF CanMove
<1>2. Typed(rows') /\ SameRows(rows', rows) /\ (Ordered(rows) => Ordered(rows'))
      /\ Elsewhere(rows', rows, p)
  BY <1>1, MoveKeeps DEF Safe
<1>3. Staying(rows', rows, Queue)
  BY <1>2, SameRowsStay
<1>4. Sound
  BY <1>2, <1>3, NoVoteStep DEF Safe
<1>5. OnlyOn(p)
  BY <1>2 DEF OnlyOn
<1> QED BY <1>2, <1>4, <1>5 DEF Kept

LEMMA CleanDatabaseStep ==
    ASSUME VoteQueueAssumption, Safe, CleanDatabase
    PROVE  Kept /\ Ordered(rows')
<1>1. /\ rows' = [i \in {} |-> 0] /\ votes' = {} /\ playlists' = {}
      /\ left' = [u \in Users |-> InitialVotes]
  BY DEF CleanDatabase
<1>2. VotesInv' /\ \A w \in Users : Ballot(w)' = {}
  BY <1>1, NoVotesNext
<1>3. Typed(rows') /\ Ordered(rows')
  BY <1>1, EmptyKeeps
<1>4. Safe'
  BY <1>1, <1>2, <1>3 DEF Safe, VotesAreQueued
<1> DEFINE K == {rows[i].track : i \in InList(rows, Queue)}
<1>5. \A w \in Users : Ballot(w)' = Ballot(w) \ K
  <2>1. \A w \in votes : HasTrack(rows, Queue, w[2])
    BY DEF Safe, VotesAreQueued
  <2>2. \A w \in Users : \A k \in Ballot(w) : k \in K
    BY <2>1 DEF Ballot, HasTrack, RowsOf
  <2> QED BY <1>2, <2>2
<1>6. Lasting(rows', rows) /\ Clearing(rows', rows, K) /\ K \in SUBSET Tracks
  <2>1. DOMAIN rows' = {}
    BY <1>1
  <2>2. \A i \in DOMAIN rows : rows[i].track \in Tracks
    BY RowTyped DEF Safe
  <2> QED BY <2>1, <2>2 DEF Lasting, Clearing, InList
<1>7. BoothStep
  BY <1>5, <1>6, ChangeStep
<1> QED BY <1>3, <1>4, <1>7 DEF Sound, Kept

\* Nothing happens.
LEMMA StutterStep ==
    ASSUME Safe, UNCHANGED <<rows, votes, left, playlists>>
    PROVE  Kept
<1>1. Staying(rows', rows, Queue)
  BY DEF Staying, Lasting, InList
<1>2. Sound
  BY <1>1, NoVoteStep DEF Safe
<1> QED BY <1>2 DEF Kept

-------------------------------------------------------------------------------
(* The theorems. *)

LEMMA InitEstablishes == VoteQueueAssumption /\ Init => IInv /\ Booth!Init
<1> SUFFICES ASSUME VoteQueueAssumption, Init PROVE IInv /\ Booth!Init
  OBVIOUS
<1>1. VotesInv /\ \A w \in Users : Ballot(w) = {}
  BY NoVotes DEF Init
<1>2. Typed(rows) /\ Ordered(rows)
  BY EmptyKeeps DEF Init
<1>3. IInv
  BY <1>1, <1>2 DEF Init, VotesAreQueued, IInv, Safe
<1>4. Booth!Init
  BY <1>1 DEF Booth!Init, Init, Ballots, QueuedTracks, SavedTracks, InList
<1> QED BY <1>3, <1>4

\* Voting and editing keep the order, too; removing does through a row's own list.
LEMMA VotingKeeps == Safe /\ Voting => Kept
BY AddVoteStep, RemoveVoteStep DEF Voting

LEMMA EditingKeeps == VoteQueueAssumption /\ Safe /\ ListEditing => Kept
<1> SUFFICES ASSUME VoteQueueAssumption, Safe, ListEditing PROVE Kept
  OBVIOUS
<1> USE DEF AllLists
<1>lists. \A p \in playlists : p \in AllLists
  BY DEF Safe
<1>1. CASE CreatePlaylist
  BY <1>1, CreatePlaylistStep
<1>2. CASE CleanDatabase
  BY <1>2, CleanDatabaseStep
<1>3. ASSUME NEW ks \in Albums, QueueTracks(ks) PROVE Kept
  BY <1>3, AddTracksStep DEF QueueTracks
<1>4. ASSUME NEW p \in playlists, RemovePlaylist(p) PROVE Kept
  BY <1>4, RemovePlaylistStep
<1>5. ASSUME NEW p \in playlists, NEW k \in Tracks, AddTrackToPlaylist(p, k) PROVE Kept
  BY <1>5, <1>lists, AddTrackStep DEF AddTrackToPlaylist
<1>6. ASSUME NEW p \in playlists, NEW ks \in Albums, AddTracksToPlaylist(p, ks) PROVE Kept
  BY <1>6, <1>lists, AddTracksStep DEF AddTracksToPlaylist
<1>7. ASSUME NEW p \in playlists, NEW i, NEW pos, MoveTrackInPlaylist(p, i, pos) PROVE Kept
  BY <1>7, <1>lists, MoveTrackStep DEF MoveTrackInPlaylist
<1> QED BY <1>1, <1>2, <1>3, <1>4, <1>5, <1>6, <1>7 DEF ListEditing

LEMMA RemovingKeeps ==
    ASSUME Safe, NEW p \in AllLists, NEW i, NEW j
    PROVE  /\ DropRow(p, i) => Sound /\ (i \in InList(rows, p) => Kept)
           /\ DropRows(p, i, j) => Sound /\ ({i, j} \subseteq InList(rows, p) => Kept)
BY DropRowStep, DropRowsStep DEF DropRow, DropRows

LEMMA StepSound == VoteQueueAssumption /\ Safe /\ [Next]_vars => Sound
<1> SUFFICES ASSUME VoteQueueAssumption, Safe, [Next]_vars PROVE Sound
  OBVIOUS
<1>lists. Queue \in AllLists /\ \A p \in playlists : p \in AllLists
  BY DEF Safe, AllLists
<1>1. ASSUME NEW i, NEW j, RemoveTrack(i) \/ RemoveTracks(i, j) PROVE Sound
  BY <1>1, <1>lists, RemovingKeeps DEF RemoveTrack, RemoveTracks
<1>2. ASSUME NEW p \in playlists, NEW i, NEW j,
             RemoveTrackFromPlaylist(p, i) \/ RemoveTracksFromPlaylist(p, i, j)
      PROVE  Sound
  BY <1>2, <1>lists, RemovingKeeps DEF RemoveTrackFromPlaylist, RemoveTracksFromPlaylist
<1>3. CASE UNCHANGED vars
  BY <1>3, StutterStep DEF vars, Kept
<1> QED BY <1>1, <1>2, <1>3, VotingKeeps, EditingKeeps DEF Next, VotingNext, ListRemoving, Kept

LEMMA OwnStepKeeps == VoteQueueAssumption /\ Safe /\ [OwnNext]_vars => Kept
<1> SUFFICES ASSUME VoteQueueAssumption, Safe, [OwnNext]_vars PROVE Kept
  OBVIOUS
<1>lists. Queue \in AllLists /\ \A p \in playlists : p \in AllLists
  BY DEF Safe, AllLists
<1>1. ASSUME NEW i \in InList(rows, Queue), NEW j \in InList(rows, Queue),
             RemoveTrack(i) \/ RemoveTracks(i, j)
      PROVE  Kept
  BY <1>1, <1>lists, RemovingKeeps DEF RemoveTrack, RemoveTracks
<1>2. ASSUME NEW p \in playlists, NEW i \in InList(rows, p), NEW j \in InList(rows, p),
             RemoveTrackFromPlaylist(p, i) \/ RemoveTracksFromPlaylist(p, i, j)
      PROVE  Kept
  BY <1>2, <1>lists, RemovingKeeps DEF RemoveTrackFromPlaylist, RemoveTracksFromPlaylist
<1>3. CASE UNCHANGED vars
  BY <1>3, StutterStep DEF vars
<1> QED BY <1>1, <1>2, <1>3, VotingKeeps, EditingKeeps DEF OwnNext, OwnRemoving

\* Every row belongs to the queue or to a playlist that exists.
Owned == \A i \in DOMAIN rows : rows[i].pl \in {Queue} \cup playlists

LEMMA AddedOwned ==
    ASSUME Safe, Owned, Lasting(rows', rows), NEW p \in {Queue} \cup playlists,
           playlists' = playlists, \A i \in DOMAIN rows' \ DOMAIN rows : rows'[i].pl = p
    PROVE  Owned'
BY DEF Owned, Lasting

LEMMA OwnedKept == VoteQueueAssumption /\ Safe /\ Owned /\ [Next]_vars => Owned'
<1> SUFFICES ASSUME VoteQueueAssumption, Safe, Owned, [Next]_vars PROVE Owned'
  OBVIOUS
<1>lists. Queue \in AllLists /\ \A p \in playlists : p \in AllLists
  BY DEF Safe, AllLists
<1>typed. Typed(rows)
  BY DEF Safe
<1>1. ASSUME NEW u \in Users, NEW k \in Tracks, AddVote(u, k) \/ RemoveVote(u, k)
      PROVE  Owned'
  <2>1. OnlyOn(Queue) /\ Typed(rows') /\ playlists' = playlists
    BY <1>1, AddVoteStep, RemoveVoteStep DEF Kept, Sound, Safe, AddVote, RemoveVote
  <2> SUFFICES ASSUME NEW i \in DOMAIN rows', rows'[i].pl # Queue
               PROVE  rows'[i].pl \in playlists
    BY <2>1 DEF Owned
  <2>2. rows'[i].pl \in AllLists /\ i \in InList(rows', rows'[i].pl)
    BY <2>1, RowTyped DEF InList
  <2>3. i \in InList(rows, rows'[i].pl)
    BY <2>1, <2>2 DEF OnlyOn, Elsewhere, SameList
  <2> QED BY <2>3 DEF Owned, InList
<1>2. ASSUME NEW p \in AllLists, NEW i, NEW j, DropRow(p, i) \/ DropRows(p, i, j)
      PROVE  Owned'
  <2>1. CASE DropRow(p, i)
    <3>1. WithoutRow(rows', rows, p, i) /\ playlists' = playlists
      BY <1>typed, <2>1, RemoveRowKeeps DEF DropRow
    <3> QED BY <3>1 DEF WithoutRow, Owned
  <2>2. CASE DropRows(p, i, j)
    <3> DEFINE s == RemoveRow(rows, p, i)
    <3>1. /\ i # j /\ i \in DOMAIN rows /\ j \in DOMAIN rows
          /\ rows' = RemoveRow(s, p, j) /\ playlists' = playlists
      BY <2>2 DEF DropRows
    <3>2. Typed(s) /\ WithoutRow(s, rows, p, i)
      BY <1>typed, <3>1, RemoveRowKeeps
    <3> HIDE DEF s
    <3>3. j \in DOMAIN s
      BY <3>1, <3>2 DEF WithoutRow
    <3>4. WithoutRow(rows', s, p, j)
      BY <3>1, <3>2, <3>3, RemoveRowKeeps
    <3> QED BY <3>1, <3>2, <3>4 DEF WithoutRow, Owned
  <2> QED BY <1>2, <2>1, <2>2
<1>3. CASE CreatePlaylist \/ CleanDatabase \/ UNCHANGED vars
  BY <1>3 DEF CreatePlaylist, CleanDatabase, vars, Owned
<1>4. ASSUME NEW p \in {Queue} \cup playlists, NEW ks \in Albums,
             rows' = AddTracks(rows, p, ks, -1), UNCHANGED playlists
      PROVE  Owned'
  <2>1. ks \in Seq(Tracks) /\ -1 \in Int \ {0} /\ p \in AllLists
    BY AlbumsAreSequences, <1>lists
  <2>2. WithTracks(rows', rows, p, Len(ks), AddPosition(rows, p, -1))
    BY <1>4, <1>typed, <2>1, AddTracksKeeps
  <2>3. Lasting(rows', rows)
    BY <2>2, WithTracksStay DEF Staying
  <2>4. \A i \in DOMAIN rows' \ DOMAIN rows : rows'[i].pl = p
    BY <2>2 DEF WithTracks
  <2> QED BY <1>4, <2>3, <2>4, AddedOwned
<1>5. ASSUME NEW p \in playlists, RemovePlaylist(p) PROVE Owned'
  BY <1>5 DEF RemovePlaylist, RemoveList, Owned, InList
<1>6. ASSUME NEW p \in playlists, NEW k \in Tracks, AddTrackToPlaylist(p, k) PROVE Owned'
  <2>1. p \in AllLists /\ rows' = AddTrack(rows, p, k, 0) /\ 0 \in Int /\ UNCHANGED playlists
    BY <1>6, <1>lists DEF AddTrackToPlaylist
  <2>2. WithTrack(rows', rows, p, k, 0)
    BY <1>typed, <2>1, AddTrackKeeps
  <2>3. Lasting(rows', rows)
    BY <2>2, WithTrackStay DEF Staying
  <2>4. \A i \in DOMAIN rows' \ DOMAIN rows : rows'[i].pl = p
    BY <2>2 DEF WithTrack
  <2> QED BY <2>1, <2>3, <2>4, AddedOwned
<1>7. ASSUME NEW p \in playlists, NEW i, NEW pos, MoveTrackInPlaylist(p, i, pos) PROVE Owned'
  <2>1. /\ CanMove(rows, p, i, pos) /\ rows' = MoveTrack(rows, p, i, pos)
        /\ UNCHANGED <<votes, left, playlists>> /\ p \in AllLists
    BY <1>7, <1>lists DEF MoveTrackInPlaylist
  <2>2. i \in InList(rows, p) /\ pos \in Nat
    <3>1. MaxPos(rows, p) \in Nat
      BY <1>typed, MaxPosType DEF Typed
    <3> QED BY <2>1, <3>1 DEF CanMove
  <2>3. SameRows(rows', rows)
    BY <1>typed, <2>1, <2>2, MoveKeeps
  <2> QED BY <2>1, <2>3 DEF SameRows, Owned
<1>8. CASE VotingNext \/ ListRemoving
  BY <1>8, <1>1, <1>2, <1>lists DEF VotingNext, Voting, ListRemoving, RemoveTrack, RemoveTracks,
     RemoveTrackFromPlaylist, RemoveTracksFromPlaylist
<1>9. CASE ListEditing
  BY <1>9, <1>3, <1>4, <1>5, <1>6, <1>7 DEF ListEditing, QueueTracks, AddTracksToPlaylist
<1> QED BY <1>3, <1>8, <1>9 DEF Next

\* Then the lists in use are in order exactly when all lists are: no other has a row.
LEMMA OrderOfLists == Safe /\ Owned => (ListsContiguous <=> Ordered(rows))
<1> SUFFICES ASSUME Safe, Owned PROVE ListsContiguous <=> Ordered(rows)
  OBVIOUS
<1>1. \A p : Contiguous(rows, p) <=> InOrder(rows, p)
  <2> SUFFICES ASSUME NEW p PROVE Contiguous(rows, p) <=> InOrder(rows, p)
    OBVIOUS
  <2>1. IsTable(rows, AllLists, Tracks)
    BY DEF Safe, Typed
  <2>2. InOrder(rows, p) => Contiguous(rows, p)
    BY <2>1, ContiguousIsInOrder
  <2>3. MaxPos(rows, p) \in Nat
    BY <2>1, MaxPosType
  <2> QED BY <2>2, <2>3 DEF Contiguous, InOrder
<1>2. \A p \in {Queue} \cup playlists : p \in AllLists
  BY DEF Safe, AllLists
<1>3. ASSUME NEW p, p \notin {Queue} \cup playlists PROVE InOrder(rows, p)
  <2>1. InList(rows, p) = {}
    BY <1>3 DEF Owned, InList
  <2>2. IsOrder(rows, p, 0)
    BY <2>1 DEF IsOrder
  <2> QED BY <2>2 DEF InOrder
<1> QED BY <1>1, <1>2, <1>3 DEF ListsContiguous, Ordered

\* The invariants are inductive.
THEOREM Invariance == Spec => [](Safe /\ Owned)
<1>1. Init => Safe /\ Owned
  BY VoteQueueAssumption, InitEstablishes DEF IInv, Init, Owned
<1>2. Safe /\ Owned /\ [Next]_vars => (Safe /\ Owned)'
  BY VoteQueueAssumption, StepSound, OwnedKept DEF Sound
<1> QED BY <1>1, <1>2, PTL DEF Spec

THEOREM OwnInvariance == OwnSpec => []IInv
<1>1. Init => IInv
  BY VoteQueueAssumption, InitEstablishes
<1>2. IInv /\ [OwnNext]_vars => IInv'
  BY VoteQueueAssumption, OwnStepKeeps DEF Kept, Sound, IInv
<1> QED BY <1>1, <1>2, PTL DEF OwnSpec

\* The invariant types the tables.
LEMMA SafeTypes == VoteQueueAssumption /\ Safe => TypeOK
<1> SUFFICES ASSUME VoteQueueAssumption, Safe PROVE TypeOK
  OBVIOUS
<1>1. ASSUME NEW u \in Users PROVE left[u] \in 0 .. InitialVotes
  <2>1. /\ IsFiniteSet(Ballot(u)) /\ left[u] \in Nat
        /\ left[u] + Cardinality(Ballot(u)) = InitialVotes
    BY DEF Safe, VotesInv, VotesTyped, BallotsFinite, VoteBudget
  <2>2. Cardinality(Ballot(u)) \in Nat
    BY <2>1, FS_CardinalityType
  <2> QED BY <2>1, <2>2 DEF VoteQueueAssumption
<1>2. left \in [Users -> 0 .. InitialVotes]
  BY <1>1 DEF Safe, VotesInv, VotesTyped
<1> QED BY <1>2 DEF Safe, Typed, VotesInv, VotesTyped, IsTable, AllLists, Row, TypeOK

\* The columns keep their types; in particular no listener ever has more votes
\* than a new user or fewer than none, whatever add_vote, remove_vote and the
\* removal of tracks do (user.py, playlist.py).
THEOREM TypeCorrect == Spec => []TypeOK
<1>1. Safe => TypeOK
  BY SafeTypes, VoteQueueAssumption
<1> QED BY <1>1, Invariance, PTL

\* No vote is lost or made up by any handler.
THEOREM BudgetKept == Spec => []VoteBudget
<1>1. Safe => VoteBudget
  BY DEF Safe, VotesInv
<1> QED BY <1>1, Invariance, PTL

\* Every vote is for a track that is in the queue, so that remove_vote finds it.
THEOREM VotesQueued == Spec => []VotesAreQueued
<1>1. Safe => VotesAreQueued
  BY DEF Safe
<1> QED BY <1>1, Invariance, PTL

\* A call that names no row through another list than the row's leaves every playlist
\* without holes or duplicates, if it was, whatever calls came before.
THEOREM OrderKept == Spec => ListsKept
<1>1. (Safe /\ Owned) /\ (Safe /\ Owned)' =>
        [OwnNext /\ ListsContiguous => ListsContiguous']_vars
  <2> SUFFICES ASSUME Safe, Owned, Safe', Owned', OwnNext, ListsContiguous
               PROVE  ListsContiguous'
    OBVIOUS
  <2>1. Ordered(rows)
    BY OrderOfLists
  <2>2. Ordered(rows')
    BY <2>1, OwnStepKeeps, VoteQueueAssumption DEF Kept
  <2>3. (Safe /\ Owned => (ListsContiguous <=> Ordered(rows)))'
    BY OrderOfLists, PTL
  <2> QED BY <2>2, <2>3
<1> QED BY <1>1, Invariance, PTL DEF ListsKept

\* So where no call names a row through another list, the positions of every playlist
\* run from 1 without holes or duplicates.
THEOREM Contiguity == OwnSpec => []ListsContiguous
<1>1. IInv => ListsContiguous
  BY ContiguousIsInOrder DEF IInv, Safe, Typed, Ordered, ListsContiguous, AllLists
<1> QED BY <1>1, OwnInvariance, PTL

\* The handlers implement the voting booth, whatever row is named through whatever list.
THEOREM Refinement == Spec => BoothSpec
<1>1. Init => Booth!Init
  BY VoteQueueAssumption, InitEstablishes
<1>2. Safe /\ [Next]_vars => [Booth!Next]_(Booth!vars)
  BY VoteQueueAssumption, StepSound DEF BoothStep, Sound, Booth!vars
<1> QED BY <1>1, <1>2, Invariance, PTL DEF Spec, BoothSpec, Booth!Spec

-------------------------------------------------------------------------------
(* A queue that is only voted on.                                               *)

Voters(v, k) == {u \in Users : <<u, k>> \in v}

\* Behind its first row the queue of table t is ordered by votes.
Sorted(t) ==
    \A i, j \in InList(t, Queue) :
        1 < t[i].pos /\ t[i].pos < t[j].pos => t[i].votes >= t[j].votes

\* No track is in the queue twice.
OneRowEach(t) == \A i, j \in InList(t, Queue) : t[i].track = t[j].track => i = j

\* Every row of the queue of table t has the votes of its voters in v, and at least one.
Counted(t, v) ==
    \A i \in InList(t, Queue) :
        t[i].votes = Cardinality(Voters(v, t[i].track)) /\ t[i].votes >= 1

VotersFinite == \A k \in Tracks : IsFiniteSet(Voters(votes, k))

\* Where nobody makes playlists, all rows are the queue's.
QueueInv == IInv /\ Owned /\ playlists = {}

\* The inductive invariant.  That rows have one vote at least is why a new row, which
\* has one, belongs at the end.
VotingInv ==
    /\ QueueInv
    /\ VotersFinite
    /\ OneRowEach(rows)
    /\ Counted(rows, votes)
    /\ Sorted(rows)

\* The rows of the queue have numbers for positions, each its own.
LEMMA QueuePositions ==
    ASSUME NEW t, Typed(t), Ordered(t)
    PROVE  /\ \A i \in InList(t, Queue) :
                 /\ i \in DOMAIN t /\ t[i].pl = Queue /\ t[i].track \in Tracks
                 /\ t[i].pos \in Nat \ {0} /\ t[i].votes \in Int
           /\ \A i, j \in InList(t, Queue) : t[i].pos = t[j].pos => i = j
<1>1. PICK n \in Nat : IsOrder(t, Queue, n)
  BY DEF Ordered, InOrder, AllLists
<1>2. \A i \in InList(t, Queue) :
        /\ i \in DOMAIN t /\ t[i].pl = Queue /\ t[i].track \in Tracks
        /\ t[i].votes \in Int
  BY RowTyped DEF InList
<1> QED BY <1>1, <1>2 DEF IsOrder

\* Table s is t after row r was moved to pos, and its votes changed by d.
Moved(s, t, r, pos, d) ==
    /\ DOMAIN s = DOMAIN t
    /\ \A j \in DOMAIN t :
        /\ s[j].pl = t[j].pl /\ s[j].track = t[j].track
        /\ s[j].pos = MovedPos(t, Queue, r, pos, j)
        /\ s[j].votes = IF j = r THEN t[j].votes + d ELSE t[j].votes

\* That is what add_vote and remove_vote do, which change the votes of every row of
\* the track, when the track has one row only.
LEMMA MoveAndVote ==
    ASSUME NEW t, Typed(t), OneRowEach(t), NEW r \in InList(t, Queue), NEW pos \in Nat,
           NEW d \in Int, NEW s,
           LET moved == MoveTrack(t, Queue, r, pos)
           IN s = Revote(moved, RowsOf(moved, Queue, t[r].track), d)
    PROVE  Moved(s, t, r, pos, d)
<1> DEFINE moved == MoveTrack(t, Queue, r, pos)
           S == RowsOf(moved, Queue, t[r].track)
<1>1. Typed(moved) /\ SameRows(moved, t)
  BY MoveKeeps DEF AllLists
<1>2. moved = [j \in DOMAIN t |-> [t[j] EXCEPT !.pos = MovedPos(t, Queue, r, pos, j)]]
  BY MoveTrackRows DEF Typed
<1>3. s = Revote(moved, S, d)
  OBVIOUS
<1> HIDE DEF moved
<1>4. \A j \in DOMAIN t :
        t[j] \in [pl : AllLists, track : Tracks, pos : Nat, votes : Int]
  BY RowTyped
<1>5. \A j \in DOMAIN t : /\ moved[j].pos = MovedPos(t, Queue, r, pos, j)
                          /\ moved[j].votes = t[j].votes
  BY <1>2, <1>4
<1>6. S = {r}
  BY <1>1 DEF SameRows, RowsOf, InList, OneRowEach
<1> HIDE DEF S
<1>7. /\ DOMAIN s = DOMAIN moved
      /\ \A j \in DOMAIN moved : /\ s[j].pl = moved[j].pl
                                 /\ s[j].track = moved[j].track
                                 /\ s[j].pos = moved[j].pos
                                 /\ s[j].votes = IF j \in S THEN moved[j].votes + d
                                                 ELSE moved[j].votes
  BY <1>1, <1>3, RevoteRows DEF Typed
<1> QED BY <1>1, <1>5, <1>6, <1>7 DEF Moved, SameRows

\* A row that stays behind the first one and lands between rows with no fewer and rows
\* with no more votes keeps the queue sorted.
LEMMA MovedSorted ==
    ASSUME NEW t, Typed(t), Ordered(t), Sorted(t), NEW r \in InList(t, Queue),
           NEW pos \in Nat, pos >= 2, NEW d \in Int, NEW s, Moved(s, t, r, pos, d),
           \A j \in InList(t, Queue) \ {r} :
              /\ 1 < s[j].pos /\ s[j].pos < pos => t[j].votes >= t[r].votes + d
              /\ pos < s[j].pos => t[j].votes <= t[r].votes + d
    PROVE  Sorted(s)
<1>1. InList(s, Queue) = InList(t, Queue)
  BY DEF Moved, InList
<1>2. \A j \in InList(t, Queue) :
        /\ j \in DOMAIN t /\ t[j].pl = Queue /\ t[j].pos \in Nat \ {0} /\ t[j].votes \in Int
  BY QueuePositions
<1>3. s[r].pos = pos /\ s[r].votes = t[r].votes + d
  BY <1>2 DEF Moved, MovedPos
<1>4. \A j \in InList(t, Queue) \ {r} :
        s[j].pos = MovedPos(t, Queue, r, pos, j) /\ s[j].votes = t[j].votes
  BY <1>2 DEF Moved
<1>5. ASSUME NEW i \in InList(t, Queue), NEW j \in InList(t, Queue),
             1 < s[i].pos, s[i].pos < s[j].pos
      PROVE  s[i].votes >= s[j].votes
  <2>1. CASE i = r
    <3>1. j # r
      BY <1>3, <1>5, <2>1
    <3> QED BY <3>1, <2>1, <1>2, <1>3, <1>4, <1>5
  <2>2. CASE j = r
    <3>1. i # r
      BY <1>3, <1>5, <2>2
    <3> QED BY <3>1, <2>2, <1>2, <1>3, <1>4, <1>5
  <2>3. CASE i # r /\ j # r
    <3>1. 1 < t[i].pos /\ t[i].pos < t[j].pos
      BY <2>3, <1>2, <1>4, <1>5 DEF MovedPos
    <3> QED BY <3>1, <2>3, <1>4 DEF Sorted
  <2> QED BY <2>1, <2>2, <2>3
<1> QED BY <1>1, <1>5 DEF Sorted

\* add_vote puts a row behind the rows with more votes than it had.
LEMMA UpSorted ==
    ASSUME VotingInv, NEW r \in InList(rows, Queue), NEW s,
           LET moved == MovedUp(r)
           IN s = Revote(moved, RowsOf(moved, Queue, rows[r].track), 1)
    PROVE  Sorted(s) /\ \E pos \in Nat : Moved(s, rows, r, pos, 1)
<1> USE DEF VotingInv, QueueInv, IInv, Safe
<1>1. \A j \in InList(rows, Queue) :
        /\ j \in DOMAIN rows /\ rows[j].pl = Queue
        /\ rows[j].pos \in Nat \ {0} /\ rows[j].votes \in Int
  BY QueuePositions
<1>2. CASE rows[r].pos <= 2
  <2> DEFINE S == RowsOf(rows, Queue, rows[r].track)
  <2>1. s = Revote(rows, S, 1) /\ S = {r}
    BY <1>1, <1>2 DEF MovedUp, RowsOf, OneRowEach
  <2>2. /\ DOMAIN s = DOMAIN rows
        /\ \A j \in DOMAIN rows : /\ s[j].pl = rows[j].pl
                                  /\ s[j].track = rows[j].track
                                  /\ s[j].pos = rows[j].pos
                                  /\ s[j].votes = IF j = r THEN rows[j].votes + 1
                                                  ELSE rows[j].votes
    <3> HIDE DEF S
    <3> QED BY <2>1, RevoteRows DEF Typed
  <2> HIDE DEF S
  <2>3. Moved(s, rows, r, rows[r].pos, 1)
    <3>1. \A j \in DOMAIN rows : rows[j].pos \in Nat
      BY RowTyped
    <3>2. \A j \in DOMAIN rows : MovedPos(rows, Queue, r, rows[r].pos, j) = rows[j].pos
      BY <1>1, <3>1 DEF MovedPos
    <3> QED BY <2>2, <3>2 DEF Moved
  <2>4. Sorted(s)
    <3>1. InList(s, Queue) = InList(rows, Queue)
      BY <2>2 DEF InList
    <3>2. ASSUME NEW i \in InList(rows, Queue), NEW j \in InList(rows, Queue),
                 1 < s[i].pos, s[i].pos < s[j].pos
          PROVE  s[i].votes >= s[j].votes
      <4>1. 1 < rows[i].pos /\ rows[i].pos < rows[j].pos
        BY <1>1, <2>2, <3>2
      <4>2. rows[i].votes >= rows[j].votes
        BY <4>1 DEF Sorted
      <4>3. j # r
        BY <1>1, <1>2, <4>1
      <4> QED BY <1>1, <2>2, <4>2, <4>3
    <3> QED BY <3>1, <3>2 DEF Sorted
  <2> QED BY <1>1, <2>3, <2>4
<1>3. CASE ~(rows[r].pos <= 2)
  <2>1. rows[r].pos > 2
    BY <1>1, <1>3
  <2> DEFINE Q == {j \in InList(rows, Queue) : rows[j].votes <= rows[r].votes /\ rows[j].pos > 1}
             S == {rows[j].pos : j \in Q}
             pos == UpPos(r)
  <2>2. S \in SUBSET Nat /\ rows[r].pos \in S
    BY <1>1, <2>1
  <2>3. pos = Min(S)
    BY DEF UpPos
  <2>4. pos \in S /\ \A y \in S : pos <= y
    <3> HIDE DEF S, pos
    <3> QED BY <2>2, <2>3, MinNat
  <2>5. PICK m \in Q : rows[m].pos = pos
    BY <2>4
  <2>6. pos \in Nat /\ pos >= 2 /\ pos <= rows[r].pos
    BY <1>1, <2>2, <2>4, <2>5
  <2>7. \A j \in Q : pos <= rows[j].pos
    BY <2>4
  <2> HIDE DEF S, pos
  <2>8. s = Revote(MoveTrack(rows, Queue, r, pos),
                   RowsOf(MoveTrack(rows, Queue, r, pos), Queue, rows[r].track), 1)
    BY <1>3 DEF MovedUp, pos
  <2>9. Moved(s, rows, r, pos, 1)
    BY <2>6, <2>8, MoveAndVote
  <2>10. ASSUME NEW j \in InList(rows, Queue) \ {r}
         PROVE  /\ 1 < s[j].pos /\ s[j].pos < pos => rows[j].votes >= rows[r].votes + 1
                /\ pos < s[j].pos => rows[j].votes <= rows[r].votes + 1
    <3>1. s[j].pos = MovedPos(rows, Queue, r, pos, j)
      BY <1>1, <2>9 DEF Moved
    <3>2. rows[j].pos # rows[r].pos
      BY QueuePositions
    <3>3. ASSUME 1 < s[j].pos, s[j].pos < pos PROVE rows[j].votes >= rows[r].votes + 1
      <4>1. 1 < rows[j].pos /\ rows[j].pos < pos
        BY <1>1, <2>6, <3>1, <3>2, <3>3 DEF MovedPos
      <4>2. j \notin Q
        BY <1>1, <2>6, <2>7, <4>1
      <4> QED BY <1>1, <4>1, <4>2
    <3>4. ASSUME pos < s[j].pos PROVE rows[j].votes <= rows[r].votes + 1
      <4>1. pos <= rows[j].pos
        BY <1>1, <2>6, <3>1, <3>2, <3>4 DEF MovedPos
      <4>2. rows[m].votes <= rows[r].votes /\ rows[m].pos > 1 /\ m \in InList(rows, Queue)
        OBVIOUS
      <4>3. CASE pos < rows[j].pos
        <5>1. rows[m].votes >= rows[j].votes
          BY <2>5, <4>2, <4>3 DEF Sorted
        <5> QED BY <1>1, <4>2, <5>1
      <4>4. CASE pos = rows[j].pos
        <5>1. j = m
          BY <2>5, <4>2, <4>4, QueuePositions
        <5> QED BY <1>1, <4>2, <5>1
      <4> QED BY <1>1, <2>6, <4>1, <4>3, <4>4
    <3> QED BY <3>3, <3>4
  <2>11. Sorted(s)
    BY <2>6, <2>9, <2>10, MovedSorted
  <2> QED BY <2>6, <2>9, <2>11
<1> QED BY <1>2, <1>3

\* remove_vote puts a row behind the rows with more votes than it will have.
LEMMA DownSorted ==
    ASSUME VotingInv, NEW r \in InList(rows, Queue), NEW s,
           CanMove(rows, Queue, r, DownPos(r)),
           LET moved == MoveTrack(rows, Queue, r, DownPos(r))
           IN s = Revote(moved, RowsOf(moved, Queue, rows[r].track), -1)
    PROVE  Sorted(s) /\ Moved(s, rows, r, DownPos(r), -1)
<1> USE DEF VotingInv, QueueInv, IInv, Safe
<1>1. \A j \in InList(rows, Queue) :
        /\ j \in DOMAIN rows /\ rows[j].pl = Queue
        /\ rows[j].pos \in Nat \ {0} /\ rows[j].votes \in Int
  BY QueuePositions
<1> DEFINE Q == {j \in InList(rows, Queue) : rows[j].votes > rows[r].votes - 1 /\ rows[j].pos > 1}
           S == {rows[j].pos : j \in Q}
           pos == DownPos(r)
<1>2. pos = IF Q = {} THEN 2 ELSE Max(S)
  BY DEF DownPos
<1>3. Q # {} => pos \in S /\ \A y \in S : pos >= y
  <2> SUFFICES ASSUME Q # {} PROVE pos \in S /\ \A y \in S : pos >= y
    OBVIOUS
  <2>1. S \in SUBSET Int /\ S # {}
    <3>1. \A j \in Q : rows[j].pos \in Int
      BY <1>1
    <3> HIDE DEF Q
    <3> QED BY <3>1
  <2>2. IsFiniteSet(S)
    <3>1. IsFiniteSet(InList(rows, Queue))
      BY MaxPosType DEF Typed
    <3>2. IsFiniteSet(Q)
      BY <3>1, FS_Subset
    <3>3. [j \in Q |-> rows[j].pos] \in Surjection(Q, S)
      BY DEF Surjection
    <3> HIDE DEF Q, S
    <3> QED BY <3>2, <3>3, FS_Surjection
  <2> HIDE DEF S
  <2> QED BY <1>2, <2>1, <2>2, MaxInt
<1>4. Q # {} => \E m \in Q : rows[m].pos = pos
  BY <1>3
<1>5. \A j \in Q : pos >= rows[j].pos
  BY <1>3
<1>6. pos \in Nat /\ pos >= 2
  BY <1>1, <1>2, <1>4
<1>7. pos >= rows[r].pos
  <2>1. CASE rows[r].pos > 1
    <3>1. r \in Q
      BY <1>1, <2>1
    <3> QED BY <1>5, <3>1
  <2>2. CASE rows[r].pos = 1
    BY <1>6, <2>2
  <2> QED BY <1>1, <2>1, <2>2
<1>8. Moved(s, rows, r, pos, -1)
  BY <1>6, MoveAndVote
<1> HIDE DEF S, pos
<1>9. ASSUME NEW j \in InList(rows, Queue) \ {r}
      PROVE  /\ 1 < s[j].pos /\ s[j].pos < pos => rows[j].votes >= rows[r].votes + -1
             /\ pos < s[j].pos => rows[j].votes <= rows[r].votes + -1
  <2>1. s[j].pos = MovedPos(rows, Queue, r, pos, j)
    BY <1>1, <1>8 DEF Moved
  <2>2. rows[j].pos # rows[r].pos
    BY QueuePositions
  <2>3. ASSUME 1 < s[j].pos, s[j].pos < pos PROVE rows[j].votes >= rows[r].votes + -1
    <3>1. 1 < rows[j].pos /\ rows[j].pos <= pos
      BY <1>1, <1>6, <1>7, <2>1, <2>2, <2>3 DEF MovedPos
    <3>2. pos # 2
      BY <1>6, <2>1, <2>3, <1>1 DEF MovedPos
    <3>3. PICK m \in Q : rows[m].pos = pos
      BY <1>2, <1>4, <3>2
    <3>4. rows[m].votes > rows[r].votes - 1 /\ rows[m].pos > 1 /\ m \in InList(rows, Queue)
      OBVIOUS
    <3>5. CASE rows[j].pos < pos
      <4>1. rows[j].votes >= rows[m].votes
        BY <3>1, <3>3, <3>4, <3>5 DEF Sorted
      <4> QED BY <1>1, <3>4, <4>1
    <3>6. CASE rows[j].pos = pos
      <4>1. j = m
        BY <3>3, <3>4, <3>6, QueuePositions
      <4> QED BY <1>1, <3>4, <4>1
    <3> QED BY <1>1, <1>6, <3>1, <3>5, <3>6
  <2>4. ASSUME pos < s[j].pos PROVE rows[j].votes <= rows[r].votes + -1
    <3>1. pos < rows[j].pos
      BY <1>1, <1>6, <1>7, <2>1, <2>2, <2>4 DEF MovedPos
    <3>2. j \notin Q /\ rows[j].pos > 1
      BY <1>1, <1>5, <1>6, <3>1
    <3> QED BY <1>1, <3>2
  <2> QED BY <2>3, <2>4
<1>10. Sorted(s)
  BY <1>6, <1>8, <1>9, MovedSorted
<1> QED BY <1>8, <1>10 DEF pos

\* A row taken out leaves the others in their sequence.
LEMMA WithoutRowSorted ==
    ASSUME NEW t, Typed(t), Ordered(t), Sorted(t), OneRowEach(t), NEW i \in InList(t, Queue),
           NEW s, WithoutRow(s, t, Queue, i)
    PROVE  Sorted(s) /\ OneRowEach(s)
<1>1. \A j \in InList(t, Queue) :
        /\ j \in DOMAIN t /\ t[j].pl = Queue /\ t[j].pos \in Nat \ {0} /\ t[j].votes \in Int
  BY QueuePositions
<1>2. InList(s, Queue) = InList(t, Queue) \ {i}
  BY DEF WithoutRow, InList
<1>3. \A j \in InList(t, Queue) \ {i} :
        /\ s[j].votes = t[j].votes /\ s[j].track = t[j].track
        /\ s[j].pos = IF t[j].pos > t[i].pos THEN t[j].pos - 1 ELSE t[j].pos
  BY <1>1 DEF WithoutRow
<1>4. ASSUME NEW a \in InList(t, Queue) \ {i}, NEW b \in InList(t, Queue) \ {i},
             1 < s[a].pos, s[a].pos < s[b].pos
      PROVE  s[a].votes >= s[b].votes
  <2>1. 1 < t[a].pos /\ t[a].pos < t[b].pos
    BY <1>1, <1>3, <1>4
  <2> QED BY <1>3, <2>1 DEF Sorted
<1> QED BY <1>2, <1>3, <1>4 DEF Sorted, OneRowEach

\* Giving the votes on K back leaves the voters of other tracks.
LEMMA GiveBackVoters ==
    ASSUME VotersFinite, NEW K, GiveBack(K)
    PROVE  /\ VotersFinite'
           /\ \A k : k \notin K => Voters(votes', k) = Voters(votes, k)
<1>1. \A k : Voters(votes', k) = IF k \in K THEN {} ELSE Voters(votes, k)
  BY DEF GiveBack, Voters
<1> QED BY <1>1, FS_EmptySet DEF VotersFinite

\* A row leaves table t with the votes on its track.
LEMMA DropCounted ==
    ASSUME VotingInv, NEW t, Typed(t), OneRowEach(t), NEW i \in InList(t, Queue),
           NEW s, WithoutRow(s, t, Queue, i)
    PROVE  /\ InList(s, Queue) = InList(t, Queue) \ {i}
           /\ \A j \in InList(s, Queue) :
                 s[j].votes = t[j].votes /\ s[j].track = t[j].track /\ s[j].track # t[i].track
BY DEF WithoutRow, InList, OneRowEach

LEMMA DropVoting ==
    ASSUME VotingInv, NEW i \in InList(rows, Queue),
           rows' = RemoveRow(rows, Queue, i), GiveBack({rows[i].track}), QueueInv'
    PROVE  VotingInv'
<1> USE DEF VotingInv, QueueInv
<1>1. WithoutRow(rows', rows, Queue, i) /\ Typed(rows) /\ Ordered(rows)
  <2>1. i \in DOMAIN rows
    BY DEF InList
  <2> QED BY <2>1, RemoveRowKeeps DEF IInv, Safe, AllLists
<1>2. Sorted(rows') /\ OneRowEach(rows')
  BY <1>1, WithoutRowSorted
<1>3. /\ VotersFinite'
      /\ \A k : k \notin {rows[i].track} => Voters(votes', k) = Voters(votes, k)
  BY GiveBackVoters
<1>4. /\ InList(rows', Queue) = InList(rows, Queue) \ {i}
      /\ \A j \in InList(rows', Queue) :
            /\ rows'[j].votes = rows[j].votes /\ rows'[j].track = rows[j].track
            /\ rows'[j].track # rows[i].track
  BY <1>1, DropCounted
<1>5. Counted(rows', votes')
  <2> SUFFICES ASSUME NEW j \in InList(rows', Queue)
               PROVE  rows'[j].votes = Cardinality(Voters(votes', rows'[j].track))
                      /\ rows'[j].votes >= 1
    BY DEF Counted
  <2>1. Voters(votes', rows[j].track) = Voters(votes, rows[j].track)
    BY <1>3, <1>4
  <2>2. rows'[j].track = rows[j].track /\ rows'[j].votes = rows[j].votes
        /\ j \in InList(rows, Queue)
    BY <1>4
  <2>3. Voters(votes', rows'[j].track) = Voters(votes, rows[j].track)
    BY <2>1, <2>2
  <2> QED BY <2>2, <2>3 DEF Counted
<1> QED BY <1>2, <1>3, <1>5

LEMMA DropTwoVoting ==
    ASSUME VotingInv, NEW i \in InList(rows, Queue), NEW j \in InList(rows, Queue), i # j,
           rows' = RemoveRow(RemoveRow(rows, Queue, i), Queue, j),
           GiveBack({rows[i].track, rows[j].track}), QueueInv'
    PROVE  VotingInv'
<1> DEFINE s == RemoveRow(rows, Queue, i)
<1> USE DEF VotingInv, QueueInv
<1>1. WithoutRow(s, rows, Queue, i) /\ Typed(s) /\ Ordered(s)
      /\ Typed(rows) /\ Ordered(rows)
  <2>1. i \in DOMAIN rows
    BY DEF InList
  <2> QED BY <2>1, RemoveRowKeeps DEF IInv, Safe, AllLists
<1> HIDE DEF s
<1>2. Sorted(s) /\ OneRowEach(s)
  BY <1>1, WithoutRowSorted
<1>3. /\ InList(s, Queue) = InList(rows, Queue) \ {i}
      /\ \A a \in InList(s, Queue) :
            /\ s[a].votes = rows[a].votes /\ s[a].track = rows[a].track
            /\ s[a].track # rows[i].track
  BY <1>1, DropCounted
<1>4. WithoutRow(rows', s, Queue, j)
  <2>1. j \in DOMAIN s
    BY <1>3 DEF InList
  <2>2. rows' = RemoveRow(s, Queue, j) /\ Queue \in AllLists
    BY DEF s, AllLists
  <2> QED BY <2>1, <2>2, <1>1, RemoveRowKeeps
<1>5. Sorted(rows') /\ OneRowEach(rows')
  BY <1>1, <1>2, <1>3, <1>4, WithoutRowSorted
<1>6. /\ InList(rows', Queue) = InList(s, Queue) \ {j}
      /\ \A a \in InList(rows', Queue) :
            /\ rows'[a].votes = s[a].votes /\ rows'[a].track = s[a].track
            /\ rows'[a].track # s[j].track
  BY <1>1, <1>2, <1>3, <1>4, DropCounted
<1>7. /\ VotersFinite'
      /\ \A k : k \notin {rows[i].track, rows[j].track} => Voters(votes', k) = Voters(votes, k)
  BY GiveBackVoters
<1>8. Counted(rows', votes')
  <2> SUFFICES ASSUME NEW a \in InList(rows', Queue)
               PROVE  rows'[a].votes = Cardinality(Voters(votes', rows'[a].track))
                      /\ rows'[a].votes >= 1
    BY DEF Counted
  <2>1. /\ rows'[a].track = rows[a].track /\ rows'[a].votes = rows[a].votes
        /\ a \in InList(rows, Queue)
        /\ rows[a].track \notin {rows[i].track, rows[j].track}
    BY <1>3, <1>6
  <2>2. Voters(votes', rows[a].track) = Voters(votes, rows[a].track)
    BY <1>7, <2>1
  <2>3. Voters(votes', rows'[a].track) = Voters(votes, rows[a].track)
    BY <2>1, <2>2
  <2> QED BY <2>1, <2>3 DEF Counted
<1> QED BY <1>5, <1>7, <1>8

\* One row's votes follow its voters; the other tracks keep theirs.
LEMMA MovedCounted ==
    ASSUME VotingInv, NEW r \in InList(rows, Queue), NEW pos, NEW d \in Int,
           Moved(rows', rows, r, pos, d), rows[r].votes + d >= 1,
           Cardinality(Voters(votes', rows[r].track)) = Cardinality(Voters(votes, rows[r].track)) + d,
           \A k : k # rows[r].track => Voters(votes', k) = Voters(votes, k)
    PROVE  OneRowEach(rows') /\ Counted(rows', votes')
<1> USE DEF VotingInv, QueueInv
<1>1. InList(rows', Queue) = InList(rows, Queue)
      /\ \A j \in InList(rows, Queue) :
            /\ rows'[j].track = rows[j].track
            /\ rows'[j].votes = IF j = r THEN rows[j].votes + d ELSE rows[j].votes
  BY DEF Moved, InList
<1>2. OneRowEach(rows')
  BY <1>1 DEF OneRowEach
<1>3. ASSUME NEW j \in InList(rows', Queue)
      PROVE  rows'[j].votes = Cardinality(Voters(votes', rows'[j].track)) /\ rows'[j].votes >= 1
  <2>1. Voters(votes', rows'[j].track) = Voters(votes', rows[j].track)
    BY <1>1, <1>3 DEF Voters
  <2>2. CASE j = r
    BY <1>1, <2>1, <2>2 DEF Counted
  <2>3. CASE j # r
    <3>1. rows[j].track # rows[r].track
      BY <1>1, <2>3 DEF OneRowEach
    <3>2. Voters(votes', rows[j].track) = Voters(votes, rows[j].track)
      BY <3>1
    <3> QED BY <1>1, <2>1, <2>3, <3>2 DEF Counted
  <2> QED BY <2>2, <2>3
<1> QED BY <1>2, <1>3 DEF Counted

\* A vote placed and a vote taken back change the voters of one track by one.
LEMMA PlaceVoters ==
    ASSUME VotersFinite, NEW u \in Users, NEW k \in Tracks, <<u, k>> \notin votes,
           votes' = votes \cup {<<u, k>>}
    PROVE  /\ VotersFinite'
           /\ Cardinality(Voters(votes', k)) = Cardinality(Voters(votes, k)) + 1
           /\ \A l : l # k => Voters(votes', l) = Voters(votes, l)
<1>1. Voters(votes', k) = Voters(votes, k) \cup {u} /\ u \notin Voters(votes, k)
  BY DEF Voters
<1>2. \A l : l # k => Voters(votes', l) = Voters(votes, l)
  BY DEF Voters
<1>3. IsFiniteSet(Voters(votes', k)) /\ Cardinality(Voters(votes', k)) = Cardinality(Voters(votes, k)) + 1
  BY <1>1, FS_AddElement DEF VotersFinite
<1> QED BY <1>2, <1>3 DEF VotersFinite

LEMMA RetractVoters ==
    ASSUME VotersFinite, NEW u \in Users, NEW k \in Tracks, <<u, k>> \in votes,
           votes' = votes \ {<<u, k>>}
    PROVE  /\ VotersFinite'
           /\ Cardinality(Voters(votes', k)) = Cardinality(Voters(votes, k)) + -1
           /\ \A l : l # k => Voters(votes', l) = Voters(votes, l)
<1>1. Voters(votes', k) = Voters(votes, k) \ {u} /\ u \in Voters(votes, k)
  BY DEF Voters
<1>2. \A l : l # k => Voters(votes', l) = Voters(votes, l)
  BY DEF Voters
<1>3. IsFiniteSet(Voters(votes, k)) /\ Cardinality(Voters(votes, k)) \in Nat
  BY FS_CardinalityType DEF VotersFinite
<1>4. IsFiniteSet(Voters(votes', k))
      /\ Cardinality(Voters(votes', k)) = Cardinality(Voters(votes, k)) - 1
  <2> DEFINE S == Voters(votes, k)
  <2>1. IsFiniteSet(S \ {u}) /\ Cardinality(S \ {u}) = Cardinality(S) - 1
    <3> HIDE DEF S
    <3>1. IsFiniteSet(S) /\ u \in S
      BY <1>1, <1>3 DEF S
    <3> QED BY <3>1, FS_RemoveElement
  <2> QED BY <2>1, <1>1
<1>5. Cardinality(Voters(votes', k)) = Cardinality(Voters(votes, k)) + -1
  BY <1>3, <1>4
<1>6. VotersFinite'
  BY <1>2, <1>4 DEF VotersFinite
<1> QED BY <1>2, <1>5, <1>6

LEMMA AddVoteVoting ==
    ASSUME VotingInv, NEW u \in Users, NEW k \in Tracks, AddVote(u, k), QueueInv'
    PROVE  VotingInv'
<1> USE DEF VotingInv, QueueInv
<1>1. /\ VotersFinite'
      /\ Cardinality(Voters(votes', k)) = Cardinality(Voters(votes, k)) + 1
      /\ \A l : l # k => Voters(votes', l) = Voters(votes, l)
  BY PlaceVoters DEF AddVote
<1>2. Typed(rows) /\ Ordered(rows)
  BY DEF IInv, Safe
<1>3. CASE HasTrack(rows, Queue, k)
  <2> DEFINE r == FirstRow(rows, Queue, k)
  <2>1. r \in InList(rows, Queue) /\ rows[r].track = k
    BY <1>2, <1>3, FirstRowOf
  <2>2. rows' = Revote(MovedUp(r), RowsOf(MovedUp(r), Queue, k), 1)
    BY <1>3 DEF AddVote
  <2> HIDE DEF r
  <2>3. PICK pos \in Nat : Moved(rows', rows, r, pos, 1)
    BY <2>1, <2>2, UpSorted
  <2>4. Sorted(rows')
    BY <2>1, <2>2, UpSorted
  <2>5. rows[r].votes \in Int /\ rows[r].votes >= 1
    BY <2>1, <1>2, QueuePositions DEF Counted
  <2>6. OneRowEach(rows') /\ Counted(rows', votes')
    BY <1>1, <2>1, <2>3, <2>5, MovedCounted
  <2> QED BY <1>1, <2>4, <2>6
<1>4. CASE ~HasTrack(rows, Queue, k)
  <2> DEFINE id == NewId(rows)
  <2>1. WithTrack(rows', rows, Queue, k, 1)
    <3>1. Queue \in AllLists /\ 1 \in Int
      BY DEF AllLists
    <3> QED BY <3>1, <1>2, <1>4, AddTrackKeeps DEF AddVote
  <2>2. /\ InList(rows', Queue) = InList(rows, Queue) \cup {id}
        /\ id \notin InList(rows, Queue)
        /\ \A j \in InList(rows, Queue) : rows'[j] = rows[j]
        /\ rows'[id].track = k /\ rows'[id].votes = 1
        /\ rows'[id].pos = MaxPos(rows, Queue) + 1
    BY <2>1 DEF WithTrack, InList
  <2> HIDE DEF id
  <2>3. \A j \in InList(rows, Queue) : rows[j].track # k
    BY <1>4 DEF HasTrack, RowsOf
  <2>4. \A j \in InList(rows, Queue) :
          /\ rows[j].pos \in Nat /\ rows[j].pos < rows'[id].pos
          /\ rows[j].votes \in Int /\ rows[j].votes >= 1
    BY <1>2, <2>2, QueuePositions, MaxPosType DEF Typed, Counted
  <2>posid. rows'[id].pos \in Nat
    <3>1. MaxPos(rows, Queue) \in Nat
      BY <1>2, MaxPosType DEF Typed
    <3> QED BY <2>2, <3>1
  <2>5. OneRowEach(rows')
    BY <2>2, <2>3 DEF OneRowEach
  <2>6. Voters(votes, k) = {}
    BY <1>4 DEF Voters, IInv, Safe, VotesAreQueued
  <2>7. Cardinality(Voters(votes', k)) = 1
    BY <1>1, <2>6, FS_EmptySet
  <2>8. ASSUME NEW j \in InList(rows', Queue)
        PROVE  rows'[j].votes = Cardinality(Voters(votes', rows'[j].track)) /\ rows'[j].votes >= 1
    <3>1. CASE j = id
      <4>1. Voters(votes', rows'[j].track) = Voters(votes', k)
        BY <2>2, <3>1 DEF Voters
      <4> QED BY <2>2, <2>7, <3>1, <4>1
    <3>2. CASE j # id
      <4>1. Voters(votes', rows'[j].track) = Voters(votes', rows[j].track)
        BY <2>2, <3>2 DEF Voters
      <4>2. Voters(votes', rows[j].track) = Voters(votes, rows[j].track)
        BY <1>1, <2>2, <2>3, <3>2
      <4> QED BY <2>2, <3>2, <4>1, <4>2 DEF Counted
    <3> QED BY <3>1, <3>2
  <2>9. ASSUME NEW i \in InList(rows', Queue), NEW j \in InList(rows', Queue),
               1 < rows'[i].pos, rows'[i].pos < rows'[j].pos
        PROVE  rows'[i].votes >= rows'[j].votes
    <3>1. i # id
      <4>1. ASSUME i = id PROVE FALSE
        <5>1. rows'[j].pos \in Nat /\ rows'[j].pos <= rows'[id].pos
          BY <2>2, <2>4, <2>posid
        <5>2. rows'[id].pos < rows'[j].pos
          BY <2>9, <4>1
        <5> QED BY <5>1, <5>2, <2>posid
      <4> QED BY <4>1
    <3>2. CASE j = id
      BY <2>2, <2>4, <3>1, <3>2
    <3>3. CASE j # id
      BY <2>2, <2>9, <3>1, <3>3 DEF Sorted
    <3> QED BY <3>2, <3>3
  <2> QED BY <1>1, <2>5, <2>8, <2>9 DEF Counted, Sorted
<1> QED BY <1>3, <1>4

LEMMA RemoveVoteVoting ==
    ASSUME VotingInv, NEW u \in Users, NEW k \in Tracks, RemoveVote(u, k), QueueInv'
    PROVE  VotingInv'
<1> DEFINE r == FirstRow(rows, Queue, k)
<1> USE DEF VotingInv, QueueInv
<1>1. Typed(rows) /\ Ordered(rows)
  BY DEF IInv, Safe
<1>2. r \in InList(rows, Queue) /\ rows[r].track = k
  BY <1>1, FirstRowOf DEF RemoveVote
<1>3. /\ <<u, k>> \in votes
      /\ rows[r].votes = 1 \/ CanMove(rows, Queue, r, DownPos(r))
  BY DEF RemoveVote, CanTakeBack
<1>4. CASE VoteDown(u, k)
  <2>1. /\ rows[r].votes # 1
        /\ rows' = LET moved == MoveTrack(rows, Queue, r, DownPos(r))
                   IN Revote(moved, RowsOf(moved, Queue, k), -1)
        /\ votes' = votes \ {<<u, k>>}
    BY <1>4 DEF VoteDown
  <2> HIDE DEF r
  <2>2. Sorted(rows') /\ Moved(rows', rows, r, DownPos(r), -1)
    BY <1>2, <1>3, <2>1, DownSorted
  <2>3. /\ VotersFinite'
        /\ Cardinality(Voters(votes', k)) = Cardinality(Voters(votes, k)) + -1
        /\ \A l : l # k => Voters(votes', l) = Voters(votes, l)
    BY <1>3, <2>1, RetractVoters
  <2>4. rows[r].votes + -1 >= 1
    BY <1>1, <1>2, <2>1, QueuePositions DEF Counted
  <2>5. OneRowEach(rows') /\ Counted(rows', votes')
    BY <1>2, <2>2, <2>3, <2>4, MovedCounted
  <2> QED BY <2>2, <2>3, <2>5
<1>5. CASE VoteOff(k)
  <2>1. rows' = RemoveRow(rows, Queue, r) /\ GiveBack({rows[r].track})
    BY <1>2, <1>5 DEF VoteOff
  <2> HIDE DEF r
  <2> QED BY <1>2, <2>1, DropVoting
<1> QED BY <1>4, <1>5 DEF RemoveVote

LEMMA VotingStep ==
    ASSUME VotingInv, VotingNext, QueueInv'
    PROVE  VotingInv'
<1>rows. \A i \in DOMAIN rows : i \in InList(rows, Queue)
  BY DEF VotingInv, QueueInv, Owned, InList
<1>1. ASSUME NEW i, RemoveTrack(i) PROVE VotingInv'
  BY <1>1, <1>rows, DropVoting DEF RemoveTrack, DropRow
<1>2. ASSUME NEW i, NEW j, RemoveTracks(i, j) PROVE VotingInv'
  BY <1>2, <1>rows, DropTwoVoting DEF RemoveTracks, DropRows
<1> QED BY <1>1, <1>2, AddVoteVoting, RemoveVoteVoting DEF VotingNext, Voting

\* Removals through the queue are removals of its own rows, there being no others.
LEMMA QueueStep ==
    ASSUME VoteQueueAssumption, QueueInv, [VotingNext]_vars
    PROVE  QueueInv'
<1>rows. \A i \in DOMAIN rows : i \in InList(rows, Queue)
  BY DEF QueueInv, Owned, InList
<1>1. [OwnNext]_vars
  BY <1>rows DEF VotingNext, OwnNext, OwnRemoving
<1>2. IInv'
  BY <1>1, OwnStepKeeps DEF QueueInv, IInv, Kept, Sound
<1>3. Owned'
  BY OwnedKept DEF QueueInv, IInv, Next
<1>4. playlists' = playlists
  BY DEF VotingNext, Voting, AddVote, RemoveVote, RemoveTrack, RemoveTracks, DropRow, DropRows, vars
<1> QED BY <1>2, <1>3, <1>4 DEF QueueInv

\* The invariant of the queue under votes alone is inductive.
THEOREM VotingInvariance == VotingSpec => []VotingInv
<1>1. Init => VotingInv
  <2> SUFFICES ASSUME Init PROVE VotingInv
    OBVIOUS
  <2>1. QueueInv
    BY VoteQueueAssumption, InitEstablishes DEF QueueInv, Init, Owned
  <2>2. InList(rows, Queue) = {} /\ \A k \in Tracks : Voters(votes, k) = {}
    BY DEF Init, InList, Voters
  <2> QED BY <2>1, <2>2, FS_EmptySet DEF VotingInv, VotersFinite, OneRowEach, Counted, Sorted
<1>2. VotingInv /\ [VotingNext]_vars => VotingInv'
  <2> SUFFICES ASSUME VotingInv, [VotingNext]_vars PROVE VotingInv'
    OBVIOUS
  <2>1. QueueInv'
    BY VoteQueueAssumption, QueueStep DEF VotingInv
  <2>2. CASE VotingNext
    BY <2>1, <2>2, VotingStep
  <2>3. CASE UNCHANGED vars
    BY <2>1, <2>3
       DEF vars, VotingInv, VotersFinite, OneRowEach, Counted, Sorted, Voters, InList
  <2> QED BY <2>2, <2>3
<1> QED BY <1>1, <1>2, PTL DEF VotingSpec

\* However many listeners vote up, vote down and remove tracks, in whatever order: the
\* queue behind its first row is ordered by votes (test_the_dog.py, check_list_order).
THEOREM QueueOrderedByVotes == VotingSpec => []QueueSorted
<1>1. VotingInv => QueueSorted
  BY DEF VotingInv, Sorted, QueueSorted
<1> QED BY <1>1, VotingInvariance, PTL

\* A track that is voted on has one row, and the row shows the number of its voters.
THEOREM VotesOfVoters == VotingSpec => []VotesMatchVoters
<1>1. VotingInv => VotesMatchVoters
  BY DEF VotingInv, OneRowEach, Counted, Voters, VotesMatchVoters
<1> QED BY <1>1, VotingInvariance, PTL
================================================================================
