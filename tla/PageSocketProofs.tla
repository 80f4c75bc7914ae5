---------------------------- MODULE PageSocketProofs ---------------------------
(***************************************************************************)
(* What is on its way between a page and the dog, and what becomes of it   *)
(* when more is said and when the first of it is read.  A page is up to    *)
(* date when the newest copy that is on its way is, or one is asked for,   *)
(* so these lemmas carry the proofs of both pages.                         *)
(***************************************************************************)
EXTENDS PageSocket, SequenceTheorems, TLAPS

\* A command of the kind is on its way to the dog, a message of the type to the page.
Asked(w, ask) == \E i \in DOMAIN w : w[i].ask = ask
Has(b, type) == \E i \in DOMAIN b : b[i].type = type

\* The last command of the kind, and the last message of the type.
LastAsked(w, ask, i) ==
    /\ i \in DOMAIN w /\ w[i].ask = ask
    /\ \A j \in DOMAIN w : j > i => w[j].ask # ask
LastOf(b, type, i) ==
    /\ i \in DOMAIN b /\ b[i].type = type
    /\ \A j \in DOMAIN b : j > i => b[j].type # type

\* The copy that the page has once it has read all of b: a set of one.
Newest(b, type, copy) ==
    {b[i] : i \in {j \in DOMAIN b : LastOf(b, type, j)}}
    \cup {m \in {copy} : ~Has(b, type)}

\* Nothing is on its way without a connection.
Linked == (link => connected) /\ (~link => wire = <<>> /\ back = <<>>)

-------------------------------------------------------------------------------
(* Sequences of commands and of messages *)

\* Where the elements of a sequence are once another one is appended.
LEMMA Joined ==
    ASSUME NEW S, NEW b \in Seq(S), NEW s \in Seq(S)
    PROVE  /\ Len(b) \in Nat /\ Len(s) \in Nat /\ Len(b \o s) = Len(b) + Len(s)
           /\ DOMAIN b = 1 .. Len(b) /\ DOMAIN s = 1 .. Len(s)
           /\ DOMAIN (b \o s) = 1 .. Len(b) + Len(s)
           /\ \A i \in DOMAIN b : (b \o s)[i] = b[i]
           /\ \A i \in DOMAIN s : (b \o s)[Len(b) + i] = s[i]
           /\ \A i \in DOMAIN (b \o s) :
                 \/ i \in DOMAIN b
                 \/ i > Len(b) /\ i - Len(b) \in DOMAIN s /\ (b \o s)[i] = s[i - Len(b)]
  BY ConcatProperties, LenProperties, SMT

\* Where they are once the first one is gone.
LEMMA Beheaded ==
    ASSUME NEW S, NEW b \in Seq(S), b # <<>>
    PROVE  /\ Len(b) \in Nat \ {0} /\ DOMAIN b = 1 .. Len(b) /\ DOMAIN Tail(b) = 1 .. Len(b) - 1
           /\ Tail(b) \in Seq(S) /\ b[1] = Head(b) /\ Head(b) \in S
           /\ \A i \in DOMAIN Tail(b) : i + 1 \in DOMAIN b /\ Tail(b)[i] = b[i + 1]
           /\ \A i \in DOMAIN b : i = 1 \/ (i - 1 \in DOMAIN Tail(b) /\ Tail(b)[i - 1] = b[i])
<1>1. /\ Len(b) \in Nat \ {0} /\ DOMAIN b = 1 .. Len(b)
      /\ Tail(b) \in Seq(S) /\ Len(Tail(b)) = Len(b) - 1 /\ Head(b) \in S
      /\ \A i \in 1 .. Len(Tail(b)) : Tail(b)[i] = b[i + 1]
  BY HeadTailProperties, EmptySeq, LenProperties
<1>2. DOMAIN Tail(b) = 1 .. Len(b) - 1  BY <1>1, LenProperties
<1>3. b[1] = Head(b)  OBVIOUS
<1>4. \A i \in DOMAIN Tail(b) : i + 1 \in DOMAIN b /\ Tail(b)[i] = b[i + 1]  BY <1>1, <1>2
<1>5. ASSUME NEW i \in DOMAIN b, i # 1
      PROVE  i - 1 \in DOMAIN Tail(b) /\ Tail(b)[i - 1] = b[i]
  <2>1. i - 1 \in DOMAIN Tail(b) /\ (i - 1) + 1 = i  BY <1>1, <1>2, <1>5
  <2>2. Tail(b)[i - 1] = b[(i - 1) + 1]  BY <1>4, <2>1
  <2> QED  BY <2>1, <2>2
<1>6. \A i \in DOMAIN b : i = 1 \/ (i - 1 \in DOMAIN Tail(b) /\ Tail(b)[i - 1] = b[i])
  BY <1>5, Zenon
<1>7. DOMAIN b = 1 .. Len(b)  BY <1>1
<1> QED  BY <1>1, <1>2, <1>3, <1>4, <1>6, <1>7, Zenon

\* What is asked, once more is sent.
LEMMA AskedMore ==
    ASSUME NEW S, NEW w \in Seq(S), NEW s \in Seq(S), NEW ask
    PROVE  Asked(w \o s, ask) <=> Asked(w, ask) \/ Asked(s, ask)
<1>1. Asked(w \o s, ask) => Asked(w, ask) \/ Asked(s, ask)  BY Joined DEF Asked
<1>2. Asked(w, ask) => Asked(w \o s, ask)
  <2>1. \A i \in DOMAIN w : i \in DOMAIN (w \o s)  BY Joined
  <2> QED  BY <2>1, Joined DEF Asked
<1>3. Asked(s, ask) => Asked(w \o s, ask)
  <2>1. \A i \in DOMAIN s : Len(w) + i \in DOMAIN (w \o s)  BY Joined
  <2> QED  BY <2>1, Joined DEF Asked
<1> QED  BY <1>1, <1>2, <1>3

\* What is said, once more is said.
LEMMA HasMore ==
    ASSUME NEW S, NEW b \in Seq(S), NEW s \in Seq(S), NEW type
    PROVE  Has(b \o s, type) <=> Has(b, type) \/ Has(s, type)
<1>1. Has(b \o s, type) => Has(b, type) \/ Has(s, type)  BY Joined DEF Has
<1>2. Has(b, type) => Has(b \o s, type)
  <2>1. \A i \in DOMAIN b : i \in DOMAIN (b \o s)  BY Joined
  <2> QED  BY <2>1, Joined DEF Has
<1>3. Has(s, type) => Has(b \o s, type)
  <2>1. \A i \in DOMAIN s : Len(b) + i \in DOMAIN (b \o s)  BY Joined
  <2> QED  BY <2>1, Joined DEF Has
<1> QED  BY <1>1, <1>2, <1>3

\* What is asked for once the first command has gone.
LEMMA AskedRest ==
    ASSUME NEW S, NEW w \in Seq(S), w # <<>>, NEW ask
    PROVE  Asked(w, ask) <=> Head(w).ask = ask \/ Asked(Tail(w), ask)
<1>1. ASSUME Asked(w, ask), Head(w).ask # ask PROVE Asked(Tail(w), ask)
  <2>1. PICK i \in DOMAIN w : w[i].ask = ask  BY <1>1 DEF Asked
  <2>2. i - 1 \in DOMAIN Tail(w) /\ Tail(w)[i - 1] = w[i]  BY <1>1, <2>1, Beheaded
  <2> QED  BY <2>1, <2>2 DEF Asked
<1>2. ASSUME Asked(Tail(w), ask) PROVE Asked(w, ask)
  <2>1. PICK i \in DOMAIN Tail(w) : Tail(w)[i].ask = ask  BY <1>2 DEF Asked
  <2>2. i + 1 \in DOMAIN w /\ Tail(w)[i] = w[i + 1]  BY <2>1, Beheaded
  <2> QED  BY <2>1, <2>2 DEF Asked
<1>3. 1 \in DOMAIN w /\ w[1] = Head(w)  BY Beheaded
<1> QED  BY <1>1, <1>2, <1>3 DEF Asked

\* The same of messages that were read.
LEMMA HasRest ==
    ASSUME NEW S, NEW b \in Seq(S), b # <<>>, NEW type
    PROVE  Has(b, type) <=> Head(b).type = type \/ Has(Tail(b), type)
<1>1. ASSUME Has(b, type), Head(b).type # type PROVE Has(Tail(b), type)
  <2>1. PICK i \in DOMAIN b : b[i].type = type  BY <1>1 DEF Has
  <2>2. i - 1 \in DOMAIN Tail(b) /\ Tail(b)[i - 1] = b[i]  BY <1>1, <2>1, Beheaded
  <2> QED  BY <2>1, <2>2 DEF Has
<1>2. ASSUME Has(Tail(b), type) PROVE Has(b, type)
  <2>1. PICK i \in DOMAIN Tail(b) : Tail(b)[i].type = type  BY <1>2 DEF Has
  <2>2. i + 1 \in DOMAIN b /\ Tail(b)[i] = b[i + 1]  BY <2>1, Beheaded
  <2> QED  BY <2>1, <2>2 DEF Has
<1>3. 1 \in DOMAIN b /\ b[1] = Head(b)  BY Beheaded
<1> QED  BY <1>1, <1>2, <1>3 DEF Has

\* The newest copy is one that is said now, or that it was before and none is said now.
LEMMA NewestMore ==
    ASSUME NEW S, NEW b \in Seq(S), NEW s \in Seq(S), NEW type, NEW copy,
           NEW m \in Newest(b \o s, type, copy)
    PROVE  \/ m \in Newest(b, type, copy) /\ ~Has(s, type)
           \/ \E k \in DOMAIN s : m = s[k] /\ m.type = type
<1>1. CASE ~Has(b \o s, type) /\ m = copy
  BY <1>1, HasMore DEF Newest
<1>2. CASE \E i \in DOMAIN (b \o s) : LastOf(b \o s, type, i) /\ m = (b \o s)[i]
  <2>1. PICK i \in DOMAIN (b \o s) : LastOf(b \o s, type, i) /\ m = (b \o s)[i]  BY <1>2
  <2>2. CASE i \in DOMAIN b
    <3>1. LastOf(b, type, i)
      <4>0. DOMAIN b \subseteq DOMAIN (b \o s)  BY Joined
      <4>1. \A j \in DOMAIN b : j \in DOMAIN (b \o s) /\ (b \o s)[j] = b[j]  BY <4>0, Joined
      <4> QED  BY <2>1, <2>2, <4>1 DEF LastOf
    <3>2. ~Has(s, type)
      <4>1. \A j \in DOMAIN s : Len(b) + j \in DOMAIN (b \o s) /\ Len(b) + j > i
                                /\ (b \o s)[Len(b) + j] = s[j]
        <5>1. \A j \in DOMAIN s : Len(b) + j \in DOMAIN (b \o s) /\ Len(b) + j > i
          BY <2>2, Joined
        <5> QED  BY <5>1, Joined
      <4> QED  BY <2>1, <4>1 DEF LastOf, Has
    <3>3. m = b[i]  BY <2>1, <2>2, Joined
    <3> QED  BY <2>2, <3>1, <3>2, <3>3 DEF Newest
  <2>3. CASE i - Len(b) \in DOMAIN s /\ (b \o s)[i] = s[i - Len(b)]
    BY <2>1, <2>3 DEF LastOf
  <2> QED  BY <2>1, <2>2, <2>3, Joined
<1> QED  BY <1>1, <1>2 DEF Newest

\* When a message is read that is not of the type, the newest copy stays.
LEMMA NewestOther ==
    ASSUME NEW S, NEW b \in Seq(S), b # <<>>, NEW type, Head(b).type # type, NEW copy
    PROVE  Newest(Tail(b), type, copy) \subseteq Newest(b, type, copy)
<1> SUFFICES ASSUME NEW m \in Newest(Tail(b), type, copy) PROVE m \in Newest(b, type, copy)
  OBVIOUS
<1>1. CASE ~Has(Tail(b), type) /\ m = copy
  <2>1. ASSUME NEW j \in DOMAIN b PROVE b[j].type # type
    <3>1. \/ j = 1 /\ b[1] = Head(b)
          \/ j - 1 \in DOMAIN Tail(b) /\ Tail(b)[j - 1] = b[j]
      BY Beheaded
    <3> QED  BY <1>1, <3>1 DEF Has
  <2> QED  BY <1>1, <2>1 DEF Newest, Has
<1>2. CASE \E i \in DOMAIN Tail(b) : LastOf(Tail(b), type, i) /\ m = Tail(b)[i]
  <2>1. PICK i \in DOMAIN Tail(b) : LastOf(Tail(b), type, i) /\ m = Tail(b)[i]  BY <1>2
  <2>2. m = b[i + 1] /\ m.type = type /\ i + 1 \in DOMAIN b  BY <2>1, Beheaded DEF LastOf
  <2>3. ASSUME NEW j \in DOMAIN b, j > i + 1 PROVE b[j].type # type
    <3>1. j - 1 \in DOMAIN Tail(b) /\ j - 1 > i
      BY <2>1, <2>3, Beheaded
    <3>2. Tail(b)[j - 1] = b[j]  BY <2>1, <2>3, Beheaded
    <3> QED  BY <2>1, <3>1, <3>2 DEF LastOf
  <2>4. LastOf(b, type, i + 1)  BY <2>2, <2>3 DEF LastOf
  <2> QED  BY <2>2, <2>4 DEF Newest
<1> QED  BY <1>1, <1>2 DEF Newest

\* When a message of the type is read and becomes the copy, it was the newest one or
\* the newest one is still on its way.
LEMMA NewestRead ==
    ASSUME NEW S, NEW b \in Seq(S), b # <<>>, NEW type, Head(b).type = type,
           NEW copy, NEW copy1, NEW m \in Newest(Tail(b), type, copy1)
    PROVE  m \in Newest(b, type, copy) \/ (m = copy1 /\ Head(b) \in Newest(b, type, copy))
<1>1. CASE ~Has(Tail(b), type) /\ m = copy1
  <2>1. b[1] = Head(b) /\ 1 \in DOMAIN b  BY Beheaded
  <2>2. ASSUME NEW j \in DOMAIN b, j > 1 PROVE b[j].type # type
    <3>1. j - 1 \in DOMAIN Tail(b) /\ Tail(b)[j - 1] = b[j]  BY <2>2, Beheaded
    <3> QED  BY <1>1, <3>1 DEF Has
  <2>3. LastOf(b, type, 1)  BY <2>1, <2>2 DEF LastOf
  <2> QED  BY <1>1, <2>1, <2>3 DEF Newest
<1>2. CASE \E i \in DOMAIN Tail(b) : LastOf(Tail(b), type, i) /\ m = Tail(b)[i]
  <2>1. PICK i \in DOMAIN Tail(b) : LastOf(Tail(b), type, i) /\ m = Tail(b)[i]  BY <1>2
  <2>2. m = b[i + 1] /\ m.type = type /\ i + 1 \in DOMAIN b  BY <2>1, Beheaded DEF LastOf
  <2>3. ASSUME NEW j \in DOMAIN b, j > i + 1 PROVE b[j].type # type
    <3>1. j - 1 \in DOMAIN Tail(b) /\ j - 1 > i
      BY <2>1, <2>3, Beheaded
    <3>2. Tail(b)[j - 1] = b[j]  BY <2>1, <2>3, Beheaded
    <3> QED  BY <2>1, <3>1, <3>2 DEF LastOf
  <2>4. LastOf(b, type, i + 1)  BY <2>2, <2>3 DEF LastOf
  <2> QED  BY <2>2, <2>4 DEF Newest
<1> QED  BY <1>1, <1>2 DEF Newest

\* When nothing is on its way, the newest copy is the one that the page has.
LEMMA NewestThere ==
    ASSUME NEW type, NEW copy
    PROVE  copy \in Newest(<<>>, type, copy)
<1>1. ~Has(<<>>, type)  BY DEF Has
<1> QED  BY <1>1 DEF Newest
===============================================================================
