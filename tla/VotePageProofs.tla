---------------------------- MODULE VotePageProofs -----------------------------
(***************************************************************************)
(* Theorems about VotePage, for any tracks and any number of votes: when   *)
(* everything was said, no button of the queue is dead or for the opposite *)
(* of what a click would do, and the votes that the page shows are the     *)
(* listener's, as far as vote_version counts what becomes of them.         *)
(*                                                                         *)
(* Both are about what is not said yet.  The newest copy of the votes that *)
(* is on its way belongs to the vote_version that the page knows, unless a *)
(* copy is asked for; and a button that waits has a vote, an answer, a     *)
(* status or a queue on its way that draws the list again.                 *)
(***************************************************************************)
EXTENDS VotePage, PageSocketProofs

-------------------------------------------------------------------------------
(* What is on its way *)

Commands == [ask : {"status", "queue", "activity", "user"}]
            \cup [ask : {"vote", "unvote"}, track : Tracks]
Messages == [type : {"status"}, version : Nat, votes : Nat]
            \cup [type : {"votes"}, votes : Nat]
            \cup [type : {"queue", "activity"}, tracks : SUBSET Tracks]
            \cup [type : {"user"}, of : SUBSET Tracks, at : Nat]
            \cup [type : {"done"}]

\* A message that tells a vote_version, and one of b does.
Carries(m) == m.type \in {"status", "votes"}
Carried(b) == \E i \in DOMAIN b : Carries(b[i])

\* A status that makes a page that knows version v fetch the queue.
Renews(b, v) == \E i \in DOMAIN b : b[i].type = "status" /\ b[i].version # v

-------------------------------------------------------------------------------
(* The inductive invariant *)

Looks == {"none", "undo", "vote", "voting"}

VoteTypeOK ==
    /\ wire \in Seq(Commands) /\ back \in Seq(Messages)
    /\ connected \in BOOLEAN /\ link \in BOOLEAN
    /\ queued \in SUBSET Tracks /\ mine \in SUBSET Tracks /\ due \in BOOLEAN
    /\ time \in Nat /\ version \in Nat /\ voteVersion \in 0 .. time /\ told \in 0 .. time
    /\ known \in [version : Nat \cup {Never}, votes : Nat \cup {Never}]
    /\ user \in [of : SUBSET Tracks, at : Nat \cup {Never}]
    /\ items \in SUBSET Tracks /\ happened \in SUBSET Tracks /\ missed \in BOOLEAN
    /\ buttons \in [Tracks -> Looks] /\ actions \in [Tracks -> Looks]

\* What is told is of this run of the dog, and what is told later is not older.
Stamped ==
    \A i \in DOMAIN back :
        /\ back[i].type = "status" => back[i].version <= version
        /\ Carries(back[i]) => back[i].votes <= voteVersion
Rising ==
    \A i, j \in DOMAIN back :
        i < j /\ Carries(back[i]) /\ Carries(back[j]) => back[i].votes <= back[j].votes

\* Who knows vote_version v knows of the last push.
Informs(v) == told + voteVersion <= v + time

\* The page is about to be told of the last push, or knows.
VotesTold ==
    link /\ ~Asked(wire, "status") =>
        \/ \E i \in DOMAIN back : Carries(back[i]) /\ Informs(back[i].votes)
        \/ ~Carried(back) /\ Informs(known.votes)

\* Unless an answer was missed and no other is on its way, the page knows a
\* vote_version of this run of the dog, and its newest votes are as new, or asked for.
Follows == ~missed \/ Updating
VotesKnown == Follows => known.votes <= voteVersion
VotesCopied ==
    Follows =>
        \/ Asked(wire, "user")
        \/ \A m \in Newest(back, "user", user) : known.votes + time <= m.at + voteVersion

\* Every button is for what the page knows of the votes, or waits.
Right(t) == IF t \in user.of THEN "undo" ELSE "vote"
ButtonsRight ==
    \A t \in Tracks : buttons[t] \in {"none", Right(t), "voting"}
                      /\ actions[t] \in {"none", Right(t), "voting"}

Bare == \A t \in Tracks : buttons[t] = "none"
Waits == \E t \in Tracks : buttons[t] = "voting"

\* Without a connection there are no buttons.  A page that knows a version that this
\* run of the dog has not come to has none either: what it reads first is the status.
NothingShown == ~connected => Bare
StatusFirst ==
    link /\ known.version > version =>
        /\ Bare
        /\ Has(back, "status") \/ (wire # <<>> /\ Head(wire).ask = "status")
        /\ \A i \in DOMAIN back :
              Carries(back[i]) \/ \E j \in DOMAIN back : j < i /\ back[j].type = "status"

\* A button that waits is drawn again: what makes the page do so is on its way.
Awaited ==
    link /\ Waits =>
        \/ Asked(wire, "queue") \/ Has(back, "queue")
        \/ Asked(wire, "vote") \/ Asked(wire, "unvote")
        \/ known.version < version /\ (Has(back, "done") \/ Asked(wire, "status"))
        \/ Renews(back, known.version)

VoteInv ==
    /\ VoteTypeOK /\ Linked /\ Stamped /\ Rising
    /\ VotesTold /\ VotesKnown /\ VotesCopied
    /\ ButtonsRight /\ NothingShown /\ StatusFirst /\ Awaited

-------------------------------------------------------------------------------
(* What the dog writes *)

LEMMA MessageFields ==
    ASSUME NEW m \in Messages
    PROVE  /\ m.type \in {"status", "votes", "queue", "activity", "user", "done"}
           /\ m.type = "status" => m.version \in Nat
           /\ Carries(m) => m.votes \in Nat
           /\ m.type \in {"queue", "activity"} => m.tracks \subseteq Tracks
           /\ m.type = "user" => m.of \subseteq Tracks /\ m.at \in Nat
  BY DEF Messages, Carries

LEMMA VoteFields ==
    ASSUME NEW c \in Commands, c.ask = "vote" \/ c.ask = "unvote" PROVE c.track \in Tracks
  BY DEF Commands

\* What a command does to the queue and the listener's votes.
LEMMA EffectOf ==
    ASSUME VoteTypeOK, NEW t \in Tracks, NEW e \in {Voted(t)} \cup Unvoted(t) \cup Others(t)
    PROVE  /\ e.queued \subseteq Tracks /\ e.mine \subseteq Tracks
           /\ e.counts \in BOOLEAN /\ e.pushes \in BOOLEAN
<1>1. queued \subseteq Tracks /\ mine \subseteq Tracks  BY DEF VoteTypeOK
<1>2. \E q, m \in SUBSET Tracks : \E c, p \in BOOLEAN : e = Effect(q, m, c, p)
  <2>1. CASE e = Voted(t)  BY <1>1, <2>1 DEF Voted
  <2>2. CASE e \in Unvoted(t)
    <3>1. mine \ {t} \subseteq Tracks /\ queued \ {t} \subseteq Tracks  BY <1>1
    <3>2. CASE t \notin mine  BY <1>1, <2>2, <3>2 DEF Unvoted
    <3>3. CASE t \in mine
      <4>1. \/ \E q \in {queued, queued \ {t}} : e = Effect(q, mine \ {t}, TRUE, TRUE)
            \/ e = Effect(queued, mine, FALSE, FALSE)
        BY <2>2, <3>3 DEF Unvoted
      <4> QED  BY <1>1, <3>1, <4>1
    <3> QED  BY <3>2, <3>3
  <2>3. CASE e \in Others(t)
    <3>1. mine \ {t} \subseteq Tracks /\ queued \ {t} \subseteq Tracks /\ queued \cup {t} \subseteq Tracks
      BY <1>1
    <3>2. \/ e = Effect(queued \cup {t}, mine, TRUE, TRUE)
          \/ e = Effect(queued \ {t}, mine \ {t}, TRUE, TRUE)
          \/ e = Effect(queued \cup {t}, mine, FALSE, TRUE)
          \/ e = Effect(queued \ {t}, mine \ {t}, FALSE, TRUE)
          \/ e = Effect(queued, mine \ {t}, FALSE, TRUE)
          \/ e = Effect(queued \ {t}, mine \ {t}, FALSE, FALSE)
      BY <2>3 DEF Others
    <3> QED  BY <1>1, <3>1, <3>2
  <2> QED  BY <2>1, <2>2, <2>3
<1> QED  BY <1>2 DEF Effect

LEMMA Pair == ASSUME NEW a, NEW b PROVE <<a>> \o <<b>> = <<a, b>>
<1>1. <<a>> \in Seq({a, b}) /\ <<b>> \in Seq({a, b}) /\ <<a, b>> \in Seq({a, b})  OBVIOUS
<1>2. /\ <<a>> \o <<b>> \in Seq({a, b}) /\ Len(<<a>> \o <<b>>) = 2
      /\ \A i \in 1 .. 2 : (<<a>> \o <<b>>)[i] = IF i <= 1 THEN <<a>>[i] ELSE <<b>>[i - 1]
  BY <1>1, ConcatProperties
<1>3. Len(<<a, b>>) = 2 /\ <<a, b>>[1] = a /\ <<a, b>>[2] = b  OBVIOUS
<1>4. \A i \in 1 .. 2 : (<<a>> \o <<b>>)[i] = <<a, b>>[i]
  <2>1. (<<a>> \o <<b>>)[1] = a /\ (<<a>> \o <<b>>)[2] = b  BY <1>2
  <2>2. \A i \in 1 .. 2 : i = 1 \/ i = 2  OBVIOUS
  <2> QED  BY <1>3, <2>1, <2>2
<1> QED  BY <1>1, <1>2, <1>3, <1>4, SeqEqual

\* An answer, and what is pushed after it.
LEMMA Before ==
    ASSUME NEW S, NEW m \in S, NEW p \in Seq(S), NEW s, s = <<m>> \o p
    PROVE  /\ s \in Seq(S) /\ s # <<>> /\ s[1] = m
           /\ \A k \in DOMAIN s : k = 1 \/ \E j \in DOMAIN p : s[k] = p[j]
           /\ \A j \in DOMAIN p : j + 1 \in DOMAIN s /\ s[j + 1] = p[j]
<1>1. <<m>> \in Seq(S) /\ Len(<<m>>) = 1 /\ DOMAIN <<m>> = 1 .. 1 /\ <<m>>[1] = m  OBVIOUS
<1>2. s = <<m>> \o p  OBVIOUS
<1>3. /\ Len(p) \in Nat /\ DOMAIN p = 1 .. Len(p) /\ DOMAIN s = 1 .. 1 + Len(p) /\ s[1] = m
      /\ \A j \in DOMAIN p : s[1 + j] = p[j]
      /\ \A k \in DOMAIN s : k = 1 \/ (k - 1 \in DOMAIN p /\ s[k] = p[k - 1])
  <2>1. PICK w : w = <<m>>  OBVIOUS
  <2>2. w \in Seq(S) /\ Len(w) = 1 /\ DOMAIN w = 1 .. 1 /\ w[1] = m /\ s = w \o p  BY <1>1, <1>2, <2>1
  <2> QED  BY <2>2, Joined
<1>4. s \in Seq(S)  BY <1>1, <1>2, ConcatProperties
<1>5. 1 \in DOMAIN s  BY <1>3
<1>6. s # <<>>  BY <1>5
<1>7. \A k \in DOMAIN s : k = 1 \/ \E j \in DOMAIN p : s[k] = p[j]  BY <1>3
<1>8. \A j \in DOMAIN p : j + 1 \in DOMAIN s /\ s[j + 1] = p[j]  BY <1>3
<1> QED  BY <1>2, <1>3, <1>4, <1>6, <1>7, <1>8, Zenon

\* A push holds nothing but versions of now, and something if anything is pushed.
LEMMA PushOf ==
    ASSUME version' \in Nat, voteVersion' \in Nat, NEW counts \in BOOLEAN, NEW pushes \in BOOLEAN,
           NEW p, p = Pushed(counts, pushes)
    PROVE  /\ p \in Seq(Messages)
           /\ \A k \in DOMAIN p :
                 Carries(p[k]) /\ p[k].votes = voteVersion' /\ (p[k].type = "status" => p[k].version = version')
           /\ counts \/ pushes \/ due => Carried(p)
<1> DEFINE v == [type |-> "votes", votes |-> voteVersion']
<1>1. /\ p \in {<<>>, <<v>>, <<Status>>, <<v, Status>>}
      /\ counts \/ pushes \/ due => p # <<>>
  <2>1. CASE counts
    <3>1. CASE pushes \/ due
      <4>1. p = <<v>> \o <<Status>>  BY <2>1, <3>1, Zenon DEF Pushed
      <4>2. <<v>> \o <<Status>> = <<v, Status>>  BY Pair, Zenon
      <4>3. p = <<v, Status>>  BY <4>1, <4>2, Zenon
      <4>4. \A a, b : <<a, b>> # <<>>  OBVIOUS
      <4>5. p # <<>>  BY <4>3, <4>4, Zenon
      <4> QED  BY <4>3, <4>5, Zenon
    <3>2. CASE ~(pushes \/ due)
      <4>1. p = <<v>> \o <<>>  BY <2>1, <3>2, Zenon DEF Pushed
      <4> QED  BY <4>1
    <3> QED  BY <3>1, <3>2
  <2>2. CASE ~counts
    <3>1. CASE pushes \/ due
      <4>1. p = <<>> \o <<Status>>  BY <2>2, <3>1, Zenon DEF Pushed
      <4> QED  BY <4>1
    <3>2. CASE ~(pushes \/ due)
      <4>1. p = <<>> \o <<>>  BY <2>2, <3>2, Zenon DEF Pushed
      <4>2. <<>> \in Seq({})  OBVIOUS
      <4>3. p = <<>>  BY <4>1, <4>2, ConcatEmptySeq
      <4> QED  BY <2>2, <3>2, <4>3
    <3> QED  BY <3>1, <3>2
  <2> QED  BY <2>1, <2>2
<1>2. v \in Messages /\ Status \in Messages  BY DEF Status, Messages
<1>3. /\ Carries(v) /\ v.votes = voteVersion' /\ v.type # "status"
      /\ Carries(Status) /\ Status.votes = voteVersion' /\ Status.version = version'
  BY DEF Status, Carries
<1> HIDE DEF v
<1>4. p \in Seq(Messages) /\ \A k \in DOMAIN p : p[k] \in {v, Status}
  <2>1. CASE p = <<>>  BY <2>1
  <2>2. CASE p = <<v>>  BY <1>2, <2>2
  <2>3. CASE p = <<Status>>  BY <1>2, <2>3
  <2>4. CASE p = <<v, Status>>
    <3>1. p \in Seq(Messages) /\ DOMAIN p = 1 .. 2  BY <1>2, <2>4
    <3>2. p[1] = v /\ p[2] = Status  BY <2>4
    <3> QED  BY <3>1, <3>2
  <2> QED  BY <1>1, <2>1, <2>2, <2>3, <2>4
<1>5. p # <<>> => 1 \in DOMAIN p  BY <1>1
<1>6. \A k \in DOMAIN p :
         Carries(p[k]) /\ p[k].votes = voteVersion' /\ (p[k].type = "status" => p[k].version = version')
  BY <1>3, <1>4
<1>7. p # <<>> => Carried(p)  BY <1>5, <1>6 DEF Carried
<1> QED  BY <1>1, <1>4, <1>6, <1>7

\* A step of the dog: what its versions are then, and s, what it writes to the page.
Says(s) ==
    /\ s \in Seq(Messages) /\ back' = back \o s /\ (~link => s = <<>>)
    /\ connected' = connected /\ link' = link
    /\ queued' \in SUBSET Tracks /\ mine' \in SUBSET Tracks /\ due' \in BOOLEAN
    /\ version' \in {version, version + 1}
    /\ \E n \in {0, 1} : time' = time + n /\ voteVersion' = voteVersion + n
    /\ time' = time /\ ~quietly' => ~quietly /\ mine' = mine
    /\ told' = told \/ (told' = time' /\ (link => Carried(s)))
    /\ \A k \in DOMAIN s :
          /\ s[k].type = "status" => s[k].version = version'
          /\ Carries(s[k]) => s[k].votes = voteVersion'

\* It answers the next command of this page first, or only pushes.
Serves(s) ==
    /\ wire # <<>> /\ wire' = Tail(wire) /\ s # <<>>
    /\ \A k \in DOMAIN s : k = 1 \/ Carries(s[k])
    /\ LET c == Head(wire)
       IN  /\ c.ask \in {"status", "queue", "activity", "user"} => s[1].type = c.ask
           /\ c.ask = "user" => s[1].at = time'
           /\ s[1].type = "user" => s[1].at = time' /\ s[1].of = mine'
           /\ c.ask \in {"vote", "unvote"} => s[1].type = "done" /\ version' = version + 1
Pushes(s) == wire' = wire /\ \A k \in DOMAIN s : Carries(s[k])

DogStep(s) == Says(s) /\ (Serves(s) \/ Pushes(s)) /\ UNCHANGED pageVars

\* What Count does to the versions.
LEMMA CountOf ==
    ASSUME VoteTypeOK, NEW counts \in BOOLEAN, Count(counts)
    PROVE  /\ version' = version + 1 /\ version' \in Nat /\ voteVersion' \in Nat
           /\ \E n \in {0, 1} : time' = time + n /\ voteVersion' = voteVersion + n
           /\ ~counts => time' = time
           /\ counts => time' # time
<1>1. time \in Nat /\ version \in Nat /\ voteVersion \in Nat  BY DEF VoteTypeOK
<1>2. CASE counts  BY <1>1, <1>2 DEF Count
<1>3. CASE ~counts  BY <1>1, <1>3 DEF Count
<1> QED  BY <1>2, <1>3

\* A command that changes something, with an answer or none.
LEMMA RunSays ==
    ASSUME VoteTypeOK, Linked, NEW t \in Tracks, NEW answer \in {<<>>, <<[type |-> "done"]>>},
           NEW e \in {Voted(t)} \cup Unvoted(t) \cup Others(t), Run(e, answer),
           connected' = connected, link' = link, ~link => answer = <<>>
    PROVE  \E p : /\ \A k \in DOMAIN p : Carries(p[k])
                 /\ p \in Seq(Messages) /\ (link => Says(answer \o p)) /\ (~link => Says(<<>>))
                 /\ version' = version + 1
<1>0. e.queued \subseteq Tracks /\ e.mine \subseteq Tracks
      /\ e.counts \in BOOLEAN /\ e.pushes \in BOOLEAN
  BY EffectOf
<1>1. /\ version' = version + 1 /\ version' \in Nat /\ voteVersion' \in Nat
      /\ \E n \in {0, 1} : time' = time + n /\ voteVersion' = voteVersion + n
  BY <1>0, CountOf DEF Run
<1> DEFINE p == Pushed(e.counts, e.pushes)
<1>2. /\ p \in Seq(Messages)
      /\ \A k \in DOMAIN p :
            Carries(p[k]) /\ p[k].votes = voteVersion' /\ (p[k].type = "status" => p[k].version = version')
      /\ e.counts \/ e.pushes \/ due => Carried(p)
  BY <1>0, <1>1, PushOf
<1>3. /\ queued' = e.queued /\ mine' = e.mine /\ due' = FALSE
      /\ told' = (IF e.counts \/ e.pushes \/ due THEN time' ELSE told)
      /\ back' = (IF link THEN back \o (answer \o p) ELSE back)
  BY DEF Run, Tells
<1> HIDE DEF p
<1>4. back \in Seq(Messages)  BY DEF VoteTypeOK
<1>5. /\ queued' \in SUBSET Tracks /\ mine' \in SUBSET Tracks /\ due' \in BOOLEAN
      /\ version' \in {version, version + 1}
  BY <1>0, <1>1, <1>3
<1>6. told' = told \/ (told' = time' /\ Carried(p))
  BY <1>2, <1>3
<1>q. time' = time /\ ~quietly' => ~quietly /\ mine' = mine
  <2>1. e.counts => time' # time  BY <1>0, CountOf DEF Run
  <2>2. quietly' = (~e.counts /\ (quietly \/ e.mine # mine))  BY DEF Run
  <2> QED  BY <1>3, <2>1, <2>2, Zenon
<1>7. ASSUME link PROVE Says(answer \o p)
  <2>1. answer \in Seq(Messages)
    <3>1. [type |-> "done"] \in Messages  BY DEF Messages
    <3>2. \A m \in Messages : <<m>> \in Seq(Messages)  OBVIOUS
    <3>3. <<>> \in Seq(Messages)  OBVIOUS
    <3> QED  BY <3>1, <3>2, <3>3, Zenon
  <2>2. answer \o p \in Seq(Messages)  BY <1>2, <2>1, ConcatProperties
  <2>3. back' = back \o (answer \o p)  BY <1>3, <1>7
  <2>4. ASSUME NEW k \in DOMAIN answer
        PROVE  answer[k].type # "status" /\ ~Carries(answer[k])
    BY <2>4 DEF Carries
  <2>5. ASSUME NEW k \in DOMAIN (answer \o p)
        PROVE  /\ (answer \o p)[k].type = "status" => (answer \o p)[k].version = version'
               /\ Carries((answer \o p)[k]) => (answer \o p)[k].votes = voteVersion'
    <3>1. \/ k \in DOMAIN answer /\ (answer \o p)[k] = answer[k]
          \/ \E j \in DOMAIN p : (answer \o p)[k] = p[j]
      BY <1>2, <2>1, Joined
    <3> QED  BY <1>2, <2>4, <3>1
  <2>6. Carried(p) => Carried(answer \o p)
    <3>1. \A j \in DOMAIN p : Len(answer) + j \in DOMAIN (answer \o p)  BY <1>2, <2>1, Joined
    <3>2. \A j \in DOMAIN p : (answer \o p)[Len(answer) + j] = p[j]  BY <1>2, <2>1, Joined
    <3> QED  BY <3>1, <3>2 DEF Carried
  <2>7. told' = told \/ (told' = time' /\ (link => Carried(answer \o p)))  BY <1>6, <2>6
  <2> QED  BY <1>1, <1>5, <1>7, <1>q, <2>2, <2>3, <2>5, <2>7 DEF Says
<1>8. ASSUME ~link PROVE Says(<<>>)
  <2>1. back' = back \o <<>>  BY <1>3, <1>4, <1>8, ConcatEmptySeq
  <2>2. told' = told \/ (told' = time' /\ (link => Carried(<<>>)))  BY <1>6, <1>8
  <2>3. <<>> \in Seq(Messages) /\ DOMAIN <<>> = {}  OBVIOUS
  <2> QED  BY <1>1, <1>5, <1>8, <1>q, <2>1, <2>2, <2>3 DEF Says
<1>9. \A k \in DOMAIN p : Carries(p[k])  BY <1>2
<1>10. p \in Seq(Messages) /\ (link => Says(answer \o p)) /\ (~link => Says(<<>>))  BY <1>2, <1>7, <1>8
<1> QED  BY <1>1, <1>9, <1>10, Zenon

LEMMA ElsewhereSays ==
    ASSUME VoteTypeOK, Linked, Elsewhere PROVE \E s : DogStep(s)
<1>0. connected' = connected /\ link' = link /\ wire' = wire /\ UNCHANGED pageVars
  BY DEF Elsewhere
<1>a. PICK t \in Tracks : \E e \in Others(t) : Run(e, <<>>)  BY DEF Elsewhere
<1>1. PICK e \in Others(t) : Run(e, <<>>)  BY <1>a
<1>2. PICK p : /\ \A k \in DOMAIN p : Carries(p[k])
               /\ p \in Seq(Messages) /\ (link => Says(<<>> \o p)) /\ (~link => Says(<<>>))
  BY <1>0, <1>1, RunSays
<1>3. <<>> \o p = p  BY <1>2, ConcatEmptySeq
<1>4. CASE link
  <2>1. Says(p)  BY <1>2, <1>3, <1>4
  <2>2. Pushes(p)  BY <1>0, <1>2 DEF Pushes
  <2> QED  BY <1>0, <2>1, <2>2 DEF DogStep
<1>5. CASE ~link
  <2>1. Pushes(<<>>)  BY <1>0 DEF Pushes
  <2> QED  BY <1>0, <1>2, <1>5, <2>1 DEF DogStep
<1> QED  BY <1>4, <1>5

LEMMA EndOfStreamSays ==
    ASSUME VoteTypeOK, Linked, EndOfStream PROVE DogStep(<<>>)
<1>1. /\ version' = version + 1 /\ version' \in Nat
      /\ \E n \in {0, 1} : time' = time + n /\ voteVersion' = voteVersion + n
  BY CountOf DEF EndOfStream
<1>2. queued' \in SUBSET Tracks /\ mine' \in SUBSET Tracks /\ due' \in BOOLEAN
  BY DEF EndOfStream, VoteTypeOK
<1>3. /\ connected' = connected /\ link' = link /\ wire' = wire /\ back' = back
      /\ told' = told /\ UNCHANGED pageVars
  BY DEF EndOfStream, socketVars
<1>4. back \in Seq(Messages)  BY DEF VoteTypeOK
<1>5. back \o <<>> = back  BY <1>4, ConcatEmptySeq
<1>6. <<>> \in Seq(Messages) /\ DOMAIN <<>> = {}  OBVIOUS
<1>q. time' # time
  <2>1. TRUE \in BOOLEAN  OBVIOUS
  <2> QED  BY <2>1, CountOf DEF EndOfStream
<1>7. Says(<<>>)  BY <1>1, <1>2, <1>3, <1>5, <1>6, <1>q DEF Says
<1>8. Pushes(<<>>)  BY <1>3, <1>6 DEF Pushes
<1> QED  BY <1>3, <1>7, <1>8 DEF DogStep

\* A command that is next has a connection, and more or nothing behind it.
LEMMA ServeSays ==
    ASSUME VoteTypeOK, Linked, Serve PROVE \E s : DogStep(s)
<1> DEFINE c == Head(wire)
<1>0. /\ wire # <<>> /\ wire' = Tail(wire) /\ c \in Commands
      /\ connected' = connected /\ link' = link /\ link /\ UNCHANGED pageVars
  BY Beheaded DEF Serve, Linked, VoteTypeOK
<1> HIDE DEF c
<1>1. back \in Seq(Messages)  BY DEF VoteTypeOK
<1>2. ASSUME NEW t \in Tracks, NEW e \in {Voted(t)} \cup Unvoted(t), Run(e, <<[type |-> "done"]>>),
             c.ask \in {"vote", "unvote"}
      PROVE  \E s : DogStep(s)
  <2> DEFINE done == <<[type |-> "done"]>>
  <2>1. PICK p : /\ \A k \in DOMAIN p : Carries(p[k])
                 /\ p \in Seq(Messages) /\ (link => Says(done \o p)) /\ version' = version + 1
    BY <1>0, <1>2, RunSays
  <2>2. [type |-> "done"] \in Messages /\ [type |-> "done"].type = "done"  BY DEF Messages
  <2>3. /\ done \o p # <<>> /\ (done \o p)[1] = [type |-> "done"]
        /\ \A k \in DOMAIN (done \o p) : k = 1 \/ \E j \in DOMAIN p : (done \o p)[k] = p[j]
    BY <2>1, <2>2, Before
  <2> HIDE DEF done
  <2>4. (done \o p)[1].type = "done" /\ done \o p # <<>>  BY <2>2, <2>3
  <2>5. \A k \in DOMAIN (done \o p) : k = 1 \/ Carries((done \o p)[k])
    <3> SUFFICES ASSUME NEW k \in DOMAIN (done \o p), k # 1 PROVE Carries((done \o p)[k])
      OBVIOUS
    <3>1. PICK j \in DOMAIN p : (done \o p)[k] = p[j]  BY <2>3
    <3> QED  BY <2>1, <3>1, Zenon
  <2>6. Serves(done \o p)
    <3>1. c.ask # "user" /\ c.ask \notin {"status", "queue", "activity", "user"}  BY <1>2
    <3> QED  BY <1>0, <2>1, <2>4, <2>5, <3>1 DEF Serves, c
  <2> QED  BY <1>0, <2>1, <2>6 DEF DogStep
<1>3. ASSUME c.ask \in {"status", "queue", "activity", "user"},
             UNCHANGED <<queued, mine, time, version, voteVersion, quietly>>,
             told' = (IF due THEN time ELSE told), due' = FALSE,
             Tells(<<Answer(c.ask)>> \o Pushed(FALSE, FALSE))
      PROVE  \E s : DogStep(s)
  <2>m. PICK m : m = Answer(c.ask)  OBVIOUS
  <2>p. PICK p : p = Pushed(FALSE, FALSE)  OBVIOUS
  <2>s. PICK s : s = <<m>> \o p  OBVIOUS
  <2>0. /\ version \in Nat /\ voteVersion \in Nat /\ time \in Nat
        /\ queued \in SUBSET Tracks /\ mine \in SUBSET Tracks
    BY DEF VoteTypeOK
  <2>1. version' = version /\ voteVersion' = voteVersion /\ time' = time
    BY <1>3
  <2>2. /\ p \in Seq(Messages)
        /\ \A k \in DOMAIN p :
              Carries(p[k]) /\ p[k].votes = voteVersion' /\ (p[k].type = "status" => p[k].version = version')
        /\ due => Carried(p)
    <3>1. version' \in Nat /\ voteVersion' \in Nat  BY <2>0, <2>1
    <3> QED  BY <2>p, <3>1, PushOf
  <2>3. /\ m \in Messages /\ m.type = c.ask
        /\ m.type = "user" => m.at = time' /\ m.of = mine'
        /\ m.type = "status" => m.version = version'
        /\ Carries(m) => m.votes = voteVersion'
    <3>1. CASE c.ask = "status"
      <4>1. m = Status  BY <2>m, <3>1 DEF Answer
      <4> QED  BY <2>0, <2>1, <3>1, <4>1 DEF Status, Messages, Carries
    <3>2. CASE c.ask = "queue"
      <4>1. m = [type |-> "queue", tracks |-> queued]  BY <2>m, <3>2 DEF Answer
      <4> QED  BY <2>0, <3>2, <4>1 DEF Messages, Carries
    <3>3. CASE c.ask = "activity"
      <4>1. m = [type |-> "activity", tracks |-> queued]  BY <2>m, <3>3 DEF Answer
      <4> QED  BY <2>0, <3>3, <4>1 DEF Messages, Carries
    <3>4. CASE c.ask = "user"
      <4>1. m = [type |-> "user", of |-> mine, at |-> time]  BY <2>m, <3>4 DEF Answer
      <4>2. mine' = mine  BY <1>3
      <4>3. /\ m \in Messages /\ m.type = "user" /\ m.at = time /\ m.of = mine /\ ~Carries(m)
        BY <2>0, <4>1 DEF Messages, Carries
      <4> QED  BY <2>1, <3>4, <4>2, <4>3
    <3> QED  BY <1>3, <3>1, <3>2, <3>3, <3>4
  <2>4. back' = back \o s  BY <1>0, <1>3, <2>m, <2>p, <2>s DEF Tells
  <2>5. told' = told \/ (told' = time' /\ Carried(p))  BY <1>3, <2>1, <2>2
  <2>6. /\ s \in Seq(Messages) /\ s # <<>> /\ s[1] = m
        /\ \A k \in DOMAIN s : k = 1 \/ \E j \in DOMAIN p : s[k] = p[j]
        /\ \A j \in DOMAIN p : j + 1 \in DOMAIN s /\ s[j + 1] = p[j]
    <3>1. p \in Seq(Messages) /\ m \in Messages  BY <2>2, <2>3, Zenon
    <3> QED  BY <2>s, <3>1, Before
  <2>9. ASSUME NEW k \in DOMAIN s, k # 1
        PROVE  /\ Carries(s[k]) /\ s[k].votes = voteVersion'
               /\ s[k].type = "status" => s[k].version = version'
    <3>1. PICK j \in DOMAIN p : s[k] = p[j]  BY <2>6, <2>9
    <3>2. Carries(p[j]) /\ p[j].votes = voteVersion' /\ (p[j].type = "status" => p[j].version = version')
      BY <2>2
    <3> QED  BY <3>1, <3>2
  <2>10. Carried(p) => Carried(s)
    <3>1. ASSUME NEW j \in DOMAIN p, Carries(p[j]) PROVE Carried(s)
      BY <2>6, <3>1 DEF Carried
    <3> QED  BY <3>1 DEF Carried
  <2>11. Says(s)
    <3>1. version' \in {version, version + 1}  BY <2>1
    <3>2. \E n \in {0, 1} : time' = time + n /\ voteVersion' = voteVersion + n
      <4>1. time' = time + 0 /\ voteVersion' = voteVersion + 0  BY <2>0, <2>1
      <4> QED  BY <4>1
    <3>3. queued' \in SUBSET Tracks /\ mine' \in SUBSET Tracks /\ due' \in BOOLEAN
      BY <1>3, <2>0
    <3>4. told' = told \/ (told' = time' /\ (link => Carried(s)))  BY <2>5, <2>10
    <3>5. \A k \in DOMAIN s :
             /\ s[k].type = "status" => s[k].version = version'
             /\ Carries(s[k]) => s[k].votes = voteVersion'
      BY <2>3, <2>6, <2>9
    <3>6. quietly' = quietly /\ mine' = mine  BY <1>3
    <3> QED  BY <1>0, <2>4, <2>6, <3>1, <3>2, <3>3, <3>4, <3>5, <3>6 DEF Says
  <2>12. Serves(s)
    <3>1. \A k \in DOMAIN s : k = 1 \/ Carries(s[k])  BY <2>9
    <3>2. c.ask \notin {"vote", "unvote"}  BY <1>3
    <3>3. /\ s[1].type = c.ask /\ (c.ask = "user" => s[1].at = time')
          /\ s[1].type = "user" => s[1].at = time' /\ s[1].of = mine'
      BY <2>3, <2>6
    <3> QED  BY <1>0, <2>6, <3>1, <3>2, <3>3 DEF Serves, c
  <2> QED  BY <1>0, <2>11, <2>12 DEF DogStep
<1>4. CASE c.ask = "vote" /\ Run(Voted(c.track), <<[type |-> "done"]>>)
  <2>1. c.track \in Tracks  BY <1>0, <1>4, VoteFields
  <2> QED  BY <1>2, <1>4, <2>1
<1>5. CASE c.ask = "unvote" /\ \E e \in Unvoted(c.track) : Run(e, <<[type |-> "done"]>>)
  <2>1. c.track \in Tracks  BY <1>0, <1>5, VoteFields
  <2> QED  BY <1>2, <1>5, <2>1
<1> QED  BY <1>3, <1>4, <1>5 DEF Serve, c

LEMMA DogSays ==
    ASSUME VoteInv, Serve \/ Elsewhere \/ EndOfStream PROVE \E s : DogStep(s)
<1>1. VoteTypeOK /\ Linked  BY DEF VoteInv
<1> QED  BY <1>1, ServeSays, ElsewhereSays, EndOfStreamSays

-------------------------------------------------------------------------------
(* A step of the dog keeps the invariant. *)

LEMMA VotingTypes ==
    VoteTypeOK =>
        /\ wire \in Seq(Commands) /\ back \in Seq(Messages)
        /\ time \in Nat /\ version \in Nat /\ voteVersion \in Nat /\ told \in Nat
        /\ voteVersion <= time /\ told <= time
        /\ known.version \in Int /\ known.votes \in Int /\ user.at \in Int
        /\ known.version >= Never /\ known.votes >= Never
  BY DEF VoteTypeOK, Never

\* How far the versions move, and where the messages of back and s are then.
LEMMA DogMoves ==
    ASSUME VoteInv, NEW s, DogStep(s)
    PROVE  /\ s \in Seq(Messages) /\ back' = back \o s /\ back' \in Seq(Messages)
           /\ link' = link /\ connected' = connected /\ wire' \in Seq(Commands)
           /\ UNCHANGED pageVars
           /\ version' \in Nat /\ version <= version'
           /\ \E n \in Nat : time' = time + n /\ voteVersion' = voteVersion + n
           /\ \A i \in DOMAIN back : i \in DOMAIN back' /\ back'[i] = back[i]
           /\ \A k \in DOMAIN s : Len(back) + k \in DOMAIN back' /\ back'[Len(back) + k] = s[k]
           /\ \A i \in DOMAIN back' :
                 \/ i \in DOMAIN back
                 \/ i > Len(back) /\ i - Len(back) \in DOMAIN s /\ back'[i] = s[i - Len(back)]
<1>1. wire \in Seq(Commands) /\ back \in Seq(Messages) /\ version \in Nat
  BY VotingTypes DEF VoteInv
<1>2. /\ s \in Seq(Messages) /\ back' = back \o s
      /\ link' = link /\ connected' = connected /\ UNCHANGED pageVars
  BY DEF DogStep, Says
<1>3. back' \in Seq(Messages)  BY <1>1, <1>2, ConcatProperties
<1>4. wire' \in Seq(Commands)
  <2>1. wire' = wire \/ (wire # <<>> /\ wire' = Tail(wire))  BY DEF DogStep, Serves, Pushes
  <2> QED  BY <1>1, <2>1, Beheaded
<1>5. version' \in Nat /\ version <= version'
  <2>1. version' = version \/ version' = version + 1  BY DEF DogStep, Says
  <2> QED  BY <1>1, <2>1
<1>6. \E n \in Nat : time' = time + n /\ voteVersion' = voteVersion + n
  <2>1. \E n \in {0, 1} : time' = time + n /\ voteVersion' = voteVersion + n  BY DEF DogStep, Says
  <2> QED  BY <2>1
<1>7. PICK b : b = back'  OBVIOUS
<1>8. /\ \A i \in DOMAIN back : i \in DOMAIN b /\ b[i] = back[i]
      /\ \A k \in DOMAIN s : Len(back) + k \in DOMAIN b /\ b[Len(back) + k] = s[k]
      /\ \A i \in DOMAIN b :
            \/ i \in DOMAIN back
            \/ i > Len(back) /\ i - Len(back) \in DOMAIN s /\ b[i] = s[i - Len(back)]
  <2>1. b = back \o s  BY <1>2, <1>7
  <2> QED  BY <1>1, <1>2, <2>1, Joined
<1> QED  BY <1>2, <1>3, <1>4, <1>5, <1>6, <1>7, <1>8, Zenon

LEMMA DogTypes ==
    ASSUME VoteInv, NEW s, DogStep(s) PROVE VoteTypeOK'
<1>0. VoteTypeOK  BY DEF VoteInv
<1>1. /\ wire' \in Seq(Commands) /\ back' \in Seq(Messages) /\ version' \in Nat
      /\ link' = link /\ connected' = connected /\ UNCHANGED pageVars
  BY DogMoves
<1>2. queued' \in SUBSET Tracks /\ mine' \in SUBSET Tracks /\ due' \in BOOLEAN
      /\ (told' = told \/ told' = time')
  BY DEF DogStep, Says
<1>3. PICK n \in Nat : time' = time + n /\ voteVersion' = voteVersion + n  BY DogMoves
<1>4. time' \in Nat /\ voteVersion' \in 0 .. time' /\ told' \in 0 .. time'
  <2>1. time \in Nat /\ voteVersion \in 0 .. time /\ told \in 0 .. time  BY <1>0 DEF VoteTypeOK
  <2>2. time + n \in Nat /\ voteVersion + n \in 0 .. (time + n)
        /\ told \in 0 .. (time + n) /\ time + n \in 0 .. (time + n)
    BY <2>1
  <2>3. told' = told \/ told' = time + n  BY <1>2, <1>3
  <2> QED  BY <1>3, <2>2, <2>3, Zenon
<1>5. /\ known' = known /\ user' = user /\ items' = items /\ happened' = happened
      /\ buttons' = buttons /\ actions' = actions /\ missed' = missed
  BY <1>1 DEF pageVars
<1> QED  BY <1>0, <1>1, <1>2, <1>4, <1>5 DEF VoteTypeOK

LEMMA DogLinked ==
    ASSUME VoteInv, NEW s, DogStep(s) PROVE Linked'
<1>0. Linked /\ back \in Seq(Messages)  BY VotingTypes DEF VoteInv
<1>1. link' = link /\ connected' = connected  BY DogMoves
<1>2. ASSUME ~link PROVE wire' = <<>> /\ back' = <<>>
  <2>1. wire = <<>> /\ back = <<>> /\ s = <<>> /\ back' = back \o s
    BY <1>0, <1>2 DEF Linked, DogStep, Says
  <2>2. wire' = wire  BY <2>1 DEF DogStep, Serves, Pushes
  <2>3. back' = back  BY <1>0, <2>1, ConcatEmptySeq
  <2> QED  BY <2>1, <2>2, <2>3
<1> QED  BY <1>0, <1>1, <1>2 DEF Linked

\* What is written is of these versions, which are not below those before.
LEMMA DogStamped ==
    ASSUME VoteInv, NEW s, DogStep(s) PROVE Stamped' /\ Rising'
<1>0. /\ Stamped /\ Rising
      /\ version \in Nat /\ voteVersion \in Nat /\ version' \in Nat /\ version <= version'
  BY VotingTypes, DogMoves DEF VoteInv
<1>1. PICK n \in Nat : voteVersion' = voteVersion + n  BY DogMoves
<1>2. \A k \in DOMAIN s :
          /\ s[k].type = "status" => s[k].version = version'
          /\ Carries(s[k]) => s[k].votes = voteVersion'
  BY DEF DogStep, Says
<1>3. voteVersion <= voteVersion' /\ voteVersion' \in Nat  BY <1>0, <1>1
<1>4. back \in Seq(Messages) /\ DOMAIN back = 1 .. Len(back) /\ Len(back) \in Nat
  BY VotingTypes, LenProperties DEF VoteInv
<1>5. \A i \in DOMAIN back :
         /\ back[i].type = "status" => back[i].version \in Nat
         /\ Carries(back[i]) => back[i].votes \in Nat
  <2> SUFFICES ASSUME NEW i \in DOMAIN back
               PROVE  /\ back[i].type = "status" => back[i].version \in Nat
                      /\ Carries(back[i]) => back[i].votes \in Nat
    OBVIOUS
  <2>1. back[i] \in Messages  BY <1>4
  <2> QED  BY <2>1, MessageFields
<1>6. /\ \A i \in DOMAIN back : back'[i] = back[i]
      /\ \A i \in DOMAIN back' :
             \/ i \in DOMAIN back
             \/ i > Len(back) /\ i - Len(back) \in DOMAIN s /\ back'[i] = s[i - Len(back)]
      /\ back' \in Seq(Messages)
  BY DogMoves
<1>7. ASSUME NEW i \in DOMAIN back'
      PROVE  /\ back'[i].type = "status" => back'[i].version <= version'
             /\ Carries(back'[i]) => back'[i].votes <= voteVersion'
             /\ i \notin DOMAIN back /\ Carries(back'[i]) => back'[i].votes = voteVersion'
  <2>1. CASE i \in DOMAIN back
    <3>1. back'[i] = back[i]  BY <1>6, <2>1
    <3>2. /\ back[i].type = "status" => back[i].version <= version /\ back[i].version \in Nat
          /\ Carries(back[i]) => back[i].votes <= voteVersion /\ back[i].votes \in Nat
      BY <1>0, <1>5, <2>1 DEF Stamped
    <3> QED  BY <1>0, <1>3, <2>1, <3>1, <3>2
  <2>2. CASE i \notin DOMAIN back
    <3>1. PICK k \in DOMAIN s : back'[i] = s[k]  BY <1>6, <2>2
    <3> QED  BY <1>0, <1>2, <1>3, <3>1
  <2> QED  BY <2>1, <2>2
<1>8. Stamped'  BY <1>7 DEF Stamped, Carries
<1>9. ASSUME NEW i \in DOMAIN back', NEW j \in DOMAIN back', i < j,
             Carries(back'[i]), Carries(back'[j])
      PROVE  back'[i].votes <= back'[j].votes
  <2>1. CASE j \in DOMAIN back
    <3>1. DOMAIN back' = 1 .. Len(back') /\ Len(back') \in Nat  BY <1>6, LenProperties
    <3>2. i \in DOMAIN back  BY <1>4, <1>9, <2>1, <3>1
    <3>3. back'[i] = back[i] /\ back'[j] = back[j]  BY <1>6, <2>1, <3>2
    <3> QED  BY <1>0, <1>9, <2>1, <3>2, <3>3 DEF Rising
  <2>2. CASE j \notin DOMAIN back
    <3>1. back'[j].votes = voteVersion' /\ back'[i].votes <= voteVersion'  BY <1>7, <1>9, <2>2
    <3> QED  BY <3>1
  <2> QED  BY <2>1, <2>2
<1>10. Rising'  BY <1>9 DEF Rising, Carries
<1> QED  BY <1>8, <1>10

\* What is asked for is asked for still, or the answer is the first that is written.
LEMMA DogAnswers ==
    ASSUME VoteInv, NEW s, DogStep(s), NEW ask,
           ask \in {"status", "queue", "activity", "user", "vote", "unvote"}
    PROVE  /\ Asked(wire', ask) => Asked(wire, ask)
           /\ Asked(wire, ask) /\ ~Asked(wire', ask) =>
                 /\ 1 \in DOMAIN s
                 /\ ask \in {"status", "queue", "activity", "user"} => s[1].type = ask
                 /\ ask \in {"vote", "unvote"} => s[1].type = "done" /\ version' = version + 1
                 /\ wire # <<>> /\ Head(wire).ask = ask
           /\ wire # <<>> /\ Head(wire).ask = ask =>
                 \/ wire' = wire
                 \/ 1 \in DOMAIN s /\ (ask \in {"status", "queue", "activity", "user"} => s[1].type = ask)
<1>1. wire \in Seq(Commands) /\ s \in Seq(Messages)  BY VotingTypes, DogMoves DEF VoteInv
<1>2. CASE Pushes(s)  BY <1>2 DEF Pushes
<1>3. CASE Serves(s)
  <2>1. wire # <<>> /\ wire' = Tail(wire) /\ s # <<>>  BY <1>3 DEF Serves
  <2>2. 1 \in DOMAIN s  BY <1>1, <2>1
  <2>3. /\ Asked(wire', ask) => Asked(wire, ask)
        /\ Asked(wire, ask) /\ ~Asked(wire', ask) => Head(wire).ask = ask
    BY <1>1, <2>1, AskedRest
  <2>4. Head(wire).ask = ask =>
           /\ ask \in {"status", "queue", "activity", "user"} => s[1].type = ask
           /\ ask \in {"vote", "unvote"} => s[1].type = "done" /\ version' = version + 1
    BY <1>3 DEF Serves
  <2> QED  BY <2>1, <2>2, <2>3, <2>4, Zenon
<1> QED  BY <1>2, <1>3 DEF DogStep

\* Nothing but an answer to a command that is next holds the votes.
LEMMA DogCopies ==
    ASSUME VoteInv, NEW s, DogStep(s), NEW k \in DOMAIN s, ~Carries(s[k])
    PROVE  /\ k = 1 /\ wire # <<>> /\ Head(wire).ask # "status"
           /\ s[k].type = "user" => Head(wire).ask = "user" /\ s[k].at = time'
<1>1. Serves(s)  BY DEF DogStep, Pushes
<1>2. k = 1 /\ wire # <<>>  BY <1>1 DEF Serves
<1>3. wire \in Seq(Commands)  BY VotingTypes DEF VoteInv
<1>4. Head(wire) \in Commands  BY <1>2, <1>3, Beheaded
<1>5. Head(wire).ask \in {"status", "queue", "activity", "user", "vote", "unvote"}
  BY <1>4 DEF Commands
<1>6. /\ Head(wire).ask \in {"status", "queue", "activity", "user"} => s[1].type = Head(wire).ask
      /\ Head(wire).ask = "user" => s[1].at = time'
      /\ Head(wire).ask \in {"vote", "unvote"} => s[1].type = "done"
  BY <1>1 DEF Serves
<1>7. Head(wire).ask # "status"  BY <1>2, <1>6 DEF Carries
<1>8. s[1].type = "user" => Head(wire).ask = "user"
  <2>1. CASE Head(wire).ask \in {"status", "queue", "activity", "user"}  BY <1>6, <2>1
  <2>2. CASE Head(wire).ask \in {"vote", "unvote"}  BY <1>6, <2>2
  <2> QED  BY <1>5, <2>1, <2>2
<1> QED  BY <1>2, <1>6, <1>7, <1>8

\* What was on its way to the page still is.
LEMMA DogKeeps ==
    ASSUME VoteInv, NEW s, DogStep(s), NEW type
    PROVE  Has(back', type) <=> Has(back, type) \/ Has(s, type)
<1>1. back \in Seq(Messages) /\ s \in Seq(Messages) /\ back' = back \o s
  BY VotingTypes, DogMoves DEF VoteInv
<1> QED  BY <1>1, HasMore

\* The last push carries a vote_version; so does the answer to a status that was asked for.
LEMMA DogTellsVotes ==
    ASSUME VoteInv, NEW s, DogStep(s) PROVE VotesTold'
<1> SUFFICES ASSUME link', ~Asked(wire', "status")
             PROVE  \/ \E i \in DOMAIN back' : Carries(back'[i]) /\ told' + voteVersion' <= back'[i].votes + time'
                    \/ ~Carried(back') /\ told' + voteVersion' <= known'.votes + time'
  BY DEF VotesTold, Informs, Carries
<1>0. /\ VotesTold /\ time \in Nat /\ told \in Nat /\ voteVersion \in Nat /\ told <= time
      /\ known.votes \in Int /\ link /\ known' = known
  BY VotingTypes, DogMoves DEF VoteInv, pageVars
<1>1. PICK n \in Nat : time' = time + n /\ voteVersion' = voteVersion + n  BY DogMoves
<1>2. /\ \A i \in DOMAIN back : i \in DOMAIN back' /\ back'[i] = back[i]
      /\ \A k \in DOMAIN s : Len(back) + k \in DOMAIN back' /\ back'[Len(back) + k] = s[k]
      /\ \A i \in DOMAIN back' :
             \/ i \in DOMAIN back
             \/ i > Len(back) /\ i - Len(back) \in DOMAIN s /\ back'[i] = s[i - Len(back)]
  BY DogMoves
<1>3. \A k \in DOMAIN s : Carries(s[k]) => s[k].votes = voteVersion'  BY DEF DogStep, Says
<1>4. told' = told \/ (told' = time' /\ Carried(s))  BY <1>0 DEF DogStep, Says
<1>5. CASE Carried(s)
  <2>1. PICK k \in DOMAIN s : Carries(s[k])  BY <1>5 DEF Carried
  <2>2. told' + voteVersion' <= voteVersion' + time'
    <3>1. told + (voteVersion + n) <= (voteVersion + n) + (time + n)  BY <1>0
    <3>2. (time + n) + (voteVersion + n) <= (voteVersion + n) + (time + n)  BY <1>0
    <3> QED  BY <1>1, <1>4, <3>1, <3>2, Zenon
  <2>3. Len(back) + k \in DOMAIN back' /\ back'[Len(back) + k] = s[k]  BY <1>2
  <2> QED  BY <1>3, <2>1, <2>2, <2>3
<1>6. CASE ~Carried(s)
  <2>1. told' = told  BY <1>4, <1>6
  <2>2. ~Asked(wire, "status")
    <3>1. Asked(wire, "status") => 1 \in DOMAIN s /\ s[1].type = "status"  BY DogAnswers
    <3> QED  BY <1>6, <3>1 DEF Carried, Carries
  <2>3. CASE \E i \in DOMAIN back : Carries(back[i]) /\ Informs(back[i].votes)
    <3>1. PICK i \in DOMAIN back : Carries(back[i]) /\ Informs(back[i].votes)  BY <2>3
    <3>2. back[i].votes \in Nat
      <4>1. back[i] \in Messages  BY VotingTypes DEF VoteInv
      <4> QED  BY <3>1, <4>1, MessageFields
    <3>3. told + (voteVersion + n) <= back[i].votes + (time + n)  BY <1>0, <3>1, <3>2 DEF Informs
    <3>4. told' + voteVersion' <= back[i].votes + time'  BY <1>1, <2>1, <3>3, Zenon
    <3> QED  BY <1>2, <3>1, <3>4
  <2>4. CASE ~Carried(back) /\ Informs(known.votes)
    <3>1. told + (voteVersion + n) <= known.votes + (time + n)  BY <1>0, <2>4 DEF Informs
    <3>2. told' + voteVersion' <= known'.votes + time'  BY <1>0, <1>1, <2>1, <3>1, Zenon
    <3>3. ~Carried(back')
      <4> SUFFICES ASSUME NEW i \in DOMAIN back' PROVE ~Carries(back'[i])
        BY DEF Carried, Carries
      <4> QED  BY <1>2, <1>6, <2>4 DEF Carried
    <3> QED  BY <3>2, <3>3
  <2> QED  BY <1>0, <2>2, <2>3, <2>4 DEF VotesTold
<1> QED  BY <1>5, <1>6

\* An answer to User.update is on its way to the dog or to the page.
LEMMA UpdatingIs ==
    ASSUME wire \in Seq(Commands), back \in Seq(Messages)
    PROVE  Updating <=> Asked(wire, "user") \/ Has(back, "user")
<1>1. DOMAIN wire = 1 .. Len(wire) /\ DOMAIN back = 1 .. Len(back)  BY LenProperties
<1> QED  BY <1>1, Zenon DEF Updating, Asked, Has

LEMMA UpdatingThen ==
    ASSUME wire' \in Seq(Commands), back' \in Seq(Messages)
    PROVE  Updating' <=> Asked(wire', "user") \/ Has(back', "user")
<1>1. DOMAIN wire' = 1 .. Len(wire') /\ DOMAIN back' = 1 .. Len(back')  BY LenProperties
<1> QED  BY <1>1, Zenon DEF Updating, Asked, Has

\* The dog starts no answer that was not asked for.
LEMMA DogFollows ==
    ASSUME VoteInv, NEW s, DogStep(s) PROVE Follows' => Follows
<1>1. missed' = missed  BY DogMoves DEF pageVars
<1>2. ASSUME Has(s, "user") PROVE Asked(wire, "user")
  <2>1. PICK k \in DOMAIN s : s[k].type = "user"  BY <1>2 DEF Has
  <2>2. ~Carries(s[k])  BY <2>1 DEF Carries
  <2>3. wire # <<>> /\ Head(wire).ask = "user"  BY <2>1, <2>2, DogCopies
  <2>4. wire \in Seq(Commands)  BY VotingTypes DEF VoteInv
  <2> QED  BY <2>3, <2>4, AskedRest
<1>3. Asked(wire', "user") => Asked(wire, "user")  BY DogAnswers
<1>4. Has(back', "user") <=> Has(back, "user") \/ Has(s, "user")  BY DogKeeps
<1>5. wire \in Seq(Commands) /\ back \in Seq(Messages)  BY VotingTypes DEF VoteInv
<1>6. wire' \in Seq(Commands) /\ back' \in Seq(Messages)  BY DogMoves
<1>7. Updating' => Updating  BY <1>2, <1>3, <1>4, <1>5, <1>6, UpdatingIs, UpdatingThen
<1> QED  BY <1>1, <1>7 DEF Follows

\* The votes that are written now are as new as what is known of the versions.
LEMMA DogCopiesVotes ==
    ASSUME VoteInv, NEW s, DogStep(s) PROVE VotesKnown' /\ VotesCopied'
<1> SUFFICES ASSUME Follows'
             PROVE  /\ known'.votes <= voteVersion'
                    /\ \/ Asked(wire', "user")
                       \/ \A m \in Newest(back', "user", user') : known'.votes + time' <= m.at + voteVersion'
  BY DEF VotesKnown, VotesCopied
<1>0. /\ Follows /\ VotesKnown /\ VotesCopied
      /\ time \in Nat /\ voteVersion \in Nat /\ known.votes \in Int /\ user.at \in Int
      /\ back \in Seq(Messages) /\ wire \in Seq(Commands)
  BY DogFollows, VotingTypes DEF VoteInv
<1>1. known' = known /\ user' = user /\ s \in Seq(Messages) /\ back' = back \o s
  BY DogMoves DEF pageVars
<1>2. PICK n \in Nat : time' = time + n /\ voteVersion' = voteVersion + n  BY DogMoves
<1>3. known.votes <= voteVersion /\ known.votes <= voteVersion + n  BY <1>0 DEF VotesKnown
<1>4. known'.votes <= voteVersion'  BY <1>1, <1>2, <1>3
<1>5. ASSUME NEW m \in Newest(back', "user", user'), ~Asked(wire', "user")
      PROVE  known.votes + (time + n) <= m.at + (voteVersion + n)
  <2>1. \/ m \in Newest(back, "user", user) /\ ~Has(s, "user")
        \/ \E k \in DOMAIN s : m = s[k] /\ m.type = "user"
    BY <1>0, <1>1, <1>5, NewestMore
  <2>2. CASE \E k \in DOMAIN s : m = s[k] /\ m.type = "user"
    <3>1. PICK k \in DOMAIN s : m = s[k] /\ s[k].type = "user"  BY <2>2
    <3>2. ~Carries(s[k])  BY <3>1 DEF Carries
    <3>3. m.at = time'  BY <3>1, <3>2, DogCopies
    <3>4. known.votes + (time + n) <= (time + n) + (voteVersion + n)  BY <1>0, <1>3
    <3> QED  BY <1>2, <3>3, <3>4
  <2>3. CASE m \in Newest(back, "user", user) /\ ~Has(s, "user")
    <3>1. ~Asked(wire, "user")
      <4>1. Asked(wire, "user") => 1 \in DOMAIN s /\ s[1].type = "user"  BY <1>5, DogAnswers
      <4> QED  BY <2>3, <4>1 DEF Has
    <3>2. known.votes + time <= m.at + voteVersion  BY <1>0, <2>3, <3>1 DEF VotesCopied
    <3>3. m.at \in Int
      <4>1. m = user \/ (\E i \in DOMAIN back : m = back[i] /\ back[i].type = "user")
        BY <2>3 DEF Newest, LastOf
      <4>2. \A i \in DOMAIN back : back[i] \in Messages  BY <1>0
      <4>3. \A i \in DOMAIN back : back[i].type = "user" => back[i].at \in Nat
        BY <4>2, MessageFields
      <4> QED  BY <1>0, <4>1, <4>3
    <3> QED  BY <1>0, <3>2, <3>3
  <2> QED  BY <2>1, <2>2, <2>3
<1>6. ASSUME NEW m \in Newest(back', "user", user'), ~Asked(wire', "user")
      PROVE  known'.votes + time' <= m.at + voteVersion'
  BY <1>1, <1>2, <1>5, <1>6
<1> QED  BY <1>4, <1>6

\* What the page shows it shows still; so its first status is still to come, if it was.
LEMMA DogShows ==
    ASSUME VoteInv, NEW s, DogStep(s) PROVE ButtonsRight' /\ NothingShown' /\ StatusFirst'
<1>0. /\ ButtonsRight /\ NothingShown /\ StatusFirst
      /\ version \in Nat /\ known.version \in Int /\ back \in Seq(Messages)
      /\ DOMAIN back = 1 .. Len(back) /\ Len(back) \in Nat
  BY VotingTypes, LenProperties DEF VoteInv
<1>1. /\ known' = known /\ user' = user /\ buttons' = buttons /\ actions' = actions
      /\ link' = link /\ connected' = connected /\ version' \in Nat /\ version <= version'
  BY DogMoves DEF pageVars
<1>2. ButtonsRight'  BY <1>0, <1>1 DEF ButtonsRight, Right
<1>3. NothingShown'  BY <1>0, <1>1 DEF NothingShown, Bare
<1>4. ASSUME link', known'.version > version'
      PROVE  /\ Bare'
             /\ Has(back', "status") \/ (wire' # <<>> /\ Head(wire').ask = "status")
             /\ \A i \in DOMAIN back' :
                   Carries(back'[i]) \/ \E j \in DOMAIN back' : j < i /\ back'[j].type = "status"
  <2>1. link /\ known.version > version  BY <1>0, <1>1, <1>4
  <2>2. /\ Bare
        /\ Has(back, "status") \/ (wire # <<>> /\ Head(wire).ask = "status")
        /\ \A i \in DOMAIN back :
              Carries(back[i]) \/ \E j \in DOMAIN back : j < i /\ back[j].type = "status"
    BY <1>0, <2>1 DEF StatusFirst
  <2>3. Bare'  BY <1>1, <2>2 DEF Bare
  <2>4. Has(back', "status") \/ (wire' # <<>> /\ Head(wire').ask = "status")
    <3>1. Has(back, "status") => Has(back', "status")  BY DogKeeps
    <3>2. Has(s, "status") => Has(back', "status")  BY DogKeeps
    <3>3. wire # <<>> /\ Head(wire).ask = "status" =>
              wire' = wire \/ (1 \in DOMAIN s /\ s[1].type = "status")
      BY DogAnswers
    <3> QED  BY <2>2, <3>1, <3>2, <3>3 DEF Has
  <2>5. ASSUME NEW i \in DOMAIN back', ~Carries(back'[i])
        PROVE  \E j \in DOMAIN back' : j < i /\ back'[j].type = "status"
    <3>1. /\ \A j \in DOMAIN back : j \in DOMAIN back' /\ back'[j] = back[j]
          /\ \A j \in DOMAIN back' :
                \/ j \in DOMAIN back
                \/ j > Len(back) /\ j - Len(back) \in DOMAIN s /\ back'[j] = s[j - Len(back)]
      BY DogMoves
    <3>2. CASE i \in DOMAIN back
      <4>1. PICK j \in DOMAIN back : j < i /\ back[j].type = "status"
        BY <2>2, <2>5, <3>1, <3>2
      <4> QED  BY <3>1, <4>1
    <3>3. CASE i \notin DOMAIN back
      <4>1. i > Len(back) /\ i - Len(back) \in DOMAIN s /\ back'[i] = s[i - Len(back)]
        BY <3>1, <3>3
      <4>2. PICK k \in DOMAIN s : back'[i] = s[k]  BY <4>1
      <4>3. ~Carries(s[k])  BY <2>5, <4>2
      <4>4. wire # <<>> /\ Head(wire).ask # "status"  BY <4>3, DogCopies
      <4>5. PICK j \in DOMAIN back : back[j].type = "status"  BY <2>2, <4>4 DEF Has
      <4>6. j < i
        <5>1. back' \in Seq(Messages)  BY DogMoves
        <5>2. i \in Nat /\ j \in 1 .. Len(back)  BY <1>0, <5>1, LenProperties
        <5> QED  BY <1>0, <4>1, <5>2
      <4> QED  BY <3>1, <4>5, <4>6
    <3> QED  BY <3>2, <3>3
  <2> QED  BY <2>3, <2>4, <2>5
<1>5. StatusFirst'  BY <1>4 DEF StatusFirst, Carries
<1> QED  BY <1>2, <1>3, <1>5

\* What a button waits for is on its way still, or it is answered: a vote by the news
\* of another version, which the answer to the status will show.
LEMMA DogAwaits ==
    ASSUME VoteInv, NEW s, DogStep(s) PROVE Awaited'
<1>0. /\ Awaited /\ StatusFirst
      /\ version \in Nat /\ known.version \in Int
  BY VotingTypes DEF VoteInv
<1>1. /\ known' = known /\ buttons' = buttons /\ link' = link
      /\ version' \in Nat /\ version <= version'
  BY DogMoves DEF pageVars
<1>2. /\ \A i \in DOMAIN back : i \in DOMAIN back' /\ back'[i] = back[i]
      /\ \A k \in DOMAIN s : Len(back) + k \in DOMAIN back' /\ back'[Len(back) + k] = s[k]
  BY DogMoves
<1> SUFFICES ASSUME link', Waits'
             PROVE  \/ Asked(wire', "queue") \/ Has(back', "queue")
                    \/ Asked(wire', "vote") \/ Asked(wire', "unvote")
                    \/ known'.version < version' /\ (Has(back', "done") \/ Asked(wire', "status"))
                    \/ Renews(back', known'.version)
  BY DEF Awaited, Renews
<1>3. /\ \/ Asked(wire, "queue") \/ Has(back, "queue")
         \/ Asked(wire, "vote") \/ Asked(wire, "unvote")
         \/ known.version < version /\ (Has(back, "done") \/ Asked(wire, "status"))
         \/ Renews(back, known.version)
      /\ known.version <= version
  <2>1. link /\ Waits  BY <1>1 DEF Waits
  <2>2. ~Bare  BY <2>1 DEF Bare, Waits
  <2>3. known.version <= version  BY <1>0, <2>1, <2>2 DEF StatusFirst
  <2> QED  BY <1>0, <2>1, <2>3 DEF Awaited
<1>4. CASE Asked(wire, "queue")
  <2>1. Asked(wire', "queue") \/ (1 \in DOMAIN s /\ s[1].type = "queue")  BY <1>4, DogAnswers
  <2>2. Has(s, "queue") => Has(back', "queue")  BY DogKeeps
  <2> QED  BY <2>1, <2>2 DEF Has
<1>5. CASE Has(back, "queue")  BY <1>5, DogKeeps
<1>6. ASSUME NEW ask \in {"vote", "unvote"}, Asked(wire, ask)
      PROVE  Asked(wire', ask) \/ (known'.version < version' /\ Has(back', "done"))
  <2>1. Asked(wire', ask) \/ (1 \in DOMAIN s /\ s[1].type = "done" /\ version' = version + 1)
    BY <1>6, DogAnswers
  <2>2. Has(s, "done") => Has(back', "done")  BY DogKeeps
  <2>3. version' = version + 1 => known'.version < version'  BY <1>0, <1>1, <1>3
  <2> QED  BY <2>1, <2>2, <2>3 DEF Has
<1>7. CASE known.version < version /\ (Has(back, "done") \/ Asked(wire, "status"))
  <2>1. known'.version < version'  BY <1>0, <1>1, <1>7
  <2>2. Has(back, "done") => Has(back', "done")  BY DogKeeps
  <2>3. CASE Asked(wire, "status") /\ ~Asked(wire', "status")
    <3>1. 1 \in DOMAIN s /\ s[1].type = "status"  BY <2>3, DogAnswers
    <3>2. s[1].version = version'  BY <3>1 DEF DogStep, Says
    <3>3. Len(back) + 1 \in DOMAIN back' /\ back'[Len(back) + 1] = s[1]  BY <1>2, <3>1
    <3>4. known'.version # version'  BY <1>0, <1>1, <2>1
    <3>5. Renews(back', known'.version)  BY <3>1, <3>2, <3>3, <3>4 DEF Renews
    <3> QED  BY <3>5
  <2> QED  BY <1>7, <2>1, <2>2, <2>3
<1>8. CASE Renews(back, known.version)
  <2>1. PICK i \in DOMAIN back : back[i].type = "status" /\ back[i].version # known.version
    BY <1>8 DEF Renews
  <2>2. Renews(back', known'.version)  BY <1>1, <1>2, <2>1 DEF Renews
  <2> QED  BY <2>2
<1>9. Asked(wire, "vote") => Asked(wire', "vote") \/ (known'.version < version' /\ Has(back', "done"))
  BY <1>6
<1>10. Asked(wire, "unvote") => Asked(wire', "unvote") \/ (known'.version < version' /\ Has(back', "done"))
  BY <1>6
<1> QED  BY <1>3, <1>4, <1>5, <1>7, <1>8, <1>9, <1>10

LEMMA DogKeepsInv ==
    ASSUME VoteInv, Serve \/ Elsewhere \/ EndOfStream PROVE VoteInv'
<1>1. PICK s : DogStep(s)  BY DogSays
<1> QED  BY <1>1, DogTypes, DogLinked, DogStamped, DogTellsVotes, DogCopiesVotes, DogShows,
            DogAwaits DEF VoteInv

-------------------------------------------------------------------------------
(* The page reads the next message. *)

\* It asks then for more, which goes to the dog while the connection is there.
Reads(then) ==
    /\ back # <<>> /\ back' = Tail(back) /\ wire' = wire \o then
    /\ then \in Seq(Commands) /\ UNCHANGED <<connected, link, dogVars>>

LEMMA ReadOf ==
    ASSUME VoteInv, NEW type, NEW then \in Seq(Commands), Read(type, then)
    PROVE  Reads(then) /\ Head(back).type = type /\ link /\ Head(back) \in Messages
<1>1. back \in Seq(Messages) /\ Linked  BY VotingTypes DEF VoteInv
<1>2. link  BY <1>1 DEF Read, Linked
<1>3. Head(back) \in Messages  BY <1>1, Beheaded DEF Read
<1>4. back' = Tail(back) /\ back # <<>> /\ wire' = wire \o then /\ Head(back).type = type
      /\ connected' = connected /\ link' = link /\ UNCHANGED dogVars
  BY <1>2 DEF Read, Asks
<1> QED  BY <1>2, <1>3, <1>4 DEF Reads

\* What is on its way then, and where.
LEMMA ReadMoves ==
    ASSUME VoteInv, NEW then, Reads(then)
    PROVE  /\ wire' \in Seq(Commands) /\ back' \in Seq(Messages) /\ link' = link /\ connected' = connected
           /\ 1 \in DOMAIN back /\ back[1] = Head(back)
           /\ \A i \in DOMAIN back' : i + 1 \in DOMAIN back /\ back'[i] = back[i + 1]
           /\ \A i \in DOMAIN back : i = 1 \/ (i - 1 \in DOMAIN back' /\ back'[i - 1] = back[i])
           /\ \A ask : Asked(wire', ask) <=> Asked(wire, ask) \/ Asked(then, ask)
           /\ \A type : Has(back, type) <=> Head(back).type = type \/ Has(back', type)
<1>1. /\ wire \in Seq(Commands) /\ back \in Seq(Messages) /\ back # <<>>
      /\ back' = Tail(back) /\ wire' = wire \o then /\ then \in Seq(Commands)
      /\ link' = link /\ connected' = connected
  BY VotingTypes DEF VoteInv, Reads
<1>2. wire' \in Seq(Commands)  BY <1>1, ConcatProperties
<1>3. PICK b : b = back'  OBVIOUS
<1>4. /\ b \in Seq(Messages) /\ 1 \in DOMAIN back /\ back[1] = Head(back)
      /\ \A i \in DOMAIN b : i + 1 \in DOMAIN back /\ b[i] = back[i + 1]
      /\ \A i \in DOMAIN back : i = 1 \/ (i - 1 \in DOMAIN b /\ b[i - 1] = back[i])
  <2>1. b = Tail(back)  BY <1>1, <1>3
  <2> QED  BY <1>1, <2>1, Beheaded
<1>5. \A ask : Asked(wire', ask) <=> Asked(wire, ask) \/ Asked(then, ask)  BY <1>1, AskedMore
<1>6. \A type : Has(back, type) <=> Head(back).type = type \/ Has(back', type)  BY <1>1, HasRest
<1> QED  BY <1>1, <1>2, <1>3, <1>4, <1>5, <1>6, Zenon

LEMMA DogStays ==
    ASSUME NEW then, Reads(then)
    PROVE  /\ queued' = queued /\ mine' = mine /\ due' = due /\ time' = time
           /\ version' = version /\ voteVersion' = voteVersion /\ told' = told
           /\ connected' = connected /\ link' = link
  BY DEF Reads, dogVars

\* Of what is on its way, the rest is as it was.
LEMMA ReadKeeps ==
    ASSUME VoteInv, NEW then, Reads(then) PROVE Linked' /\ Stamped' /\ Rising'
<1>0. Linked /\ Stamped /\ Rising /\ back # <<>>  BY DEF VoteInv, Reads
<1>1. /\ link' = link /\ connected' = connected
      /\ version' = version /\ voteVersion' = voteVersion
  BY DogStays
<1>2. Linked'
  <2>1. link  BY <1>0 DEF Linked
  <2> QED  BY <1>0, <1>1, <2>1 DEF Linked
<1>3. /\ \A i \in DOMAIN back' : i + 1 \in DOMAIN back /\ back'[i] = back[i + 1]
      /\ back' \in Seq(Messages)
  BY ReadMoves
<1>4. Stamped'  BY <1>0, <1>1, <1>3 DEF Stamped, Carries
<1>5. Rising'
  <2> SUFFICES ASSUME NEW i \in DOMAIN back', NEW j \in DOMAIN back', i < j,
                      Carries(back'[i]), Carries(back'[j])
               PROVE  back'[i].votes <= back'[j].votes
    BY DEF Rising, Carries
  <2>1. i \in Nat /\ j \in Nat
    <3>1. DOMAIN back' = 1 .. Len(back')  BY <1>3, LenProperties
    <3> QED  BY <3>1
  <2>2. i + 1 < j + 1  BY <2>1
  <2>3. /\ i + 1 \in DOMAIN back /\ j + 1 \in DOMAIN back
        /\ back'[i] = back[i + 1] /\ back'[j] = back[j + 1]
    BY <1>3
  <2> QED  BY <1>0, <2>2, <2>3 DEF Rising
<1> QED  BY <1>2, <1>4, <1>5

\* A vote_version that is read is known, and the next that is carried is not older.
LEMMA ReadTellsVotes ==
    ASSUME VoteInv, NEW then, Reads(then),
           known'.votes = IF Carries(Head(back)) THEN Head(back).votes ELSE known.votes
    PROVE  VotesTold'
<1> DEFINE Knows(v) == told + voteVersion <= v + time
<1>0. /\ VotesTold /\ Rising /\ time \in Nat /\ told \in Nat /\ voteVersion \in Nat
      /\ back \in Seq(Messages)
  BY VotingTypes DEF VoteInv
<1>1. time' = time /\ voteVersion' = voteVersion /\ told' = told /\ link' = link  BY DogStays
<1> SUFFICES ASSUME link', ~Asked(wire', "status")
             PROVE  \/ \E i \in DOMAIN back' : Carries(back'[i]) /\ Knows(back'[i].votes)
                    \/ ~Carried(back') /\ Knows(known'.votes)
  BY <1>1 DEF VotesTold, Informs, Carries
<1>2. /\ 1 \in DOMAIN back /\ back[1] = Head(back)
      /\ \A i \in DOMAIN back' : i + 1 \in DOMAIN back /\ back'[i] = back[i + 1]
      /\ \A i \in DOMAIN back : i = 1 \/ (i - 1 \in DOMAIN back' /\ back'[i - 1] = back[i])
      /\ Asked(wire, "status") => Asked(wire', "status")
  BY ReadMoves
<1>3. \/ \E i \in DOMAIN back : Carries(back[i]) /\ Knows(back[i].votes)
      \/ ~Carried(back) /\ Knows(known.votes)
  BY <1>0, <1>1, <1>2 DEF VotesTold, Informs
<1>4. ASSUME NEW i \in DOMAIN back, i # 1, Carries(back[i]), Knows(back[i].votes)
      PROVE  \E j \in DOMAIN back' : Carries(back'[j]) /\ Knows(back'[j].votes)
  <2>1. i - 1 \in DOMAIN back' /\ back'[i - 1] = back[i]  BY <1>2, <1>4
  <2> QED  BY <1>4, <2>1
<1>5. CASE ~Carried(back) /\ Knows(known.votes)
  <2>1. ~Carries(Head(back))  BY <1>2, <1>5 DEF Carried
  <2>2. ~Carried(back')
    <3> SUFFICES ASSUME NEW i \in DOMAIN back' PROVE ~Carries(back'[i])  BY DEF Carried, Carries
    <3> QED  BY <1>2, <1>5 DEF Carried
  <2> QED  BY <1>5, <2>1, <2>2
<1>6. CASE Carries(Head(back)) /\ Knows(Head(back).votes)
  <2>1. CASE ~Carried(back')  BY <1>6, <2>1
  <2>2. CASE Carried(back')
    <3>1. PICK j \in DOMAIN back' : Carries(back'[j])  BY <2>2 DEF Carried, Carries
    <3>2. j + 1 \in DOMAIN back /\ back'[j] = back[j + 1]  BY <1>2
    <3>3. 1 < j + 1
      <4>1. back' \in Seq(Messages)  BY ReadMoves
      <4>2. j \in 1 .. Len(back')  BY <4>1, LenProperties
      <4> QED  BY <4>2
    <3>4. back[1].votes <= back[j + 1].votes  BY <1>0, <1>2, <1>6, <3>1, <3>2, <3>3 DEF Rising
    <3>5. back[1].votes \in Nat /\ back[j + 1].votes \in Nat
      <4>1. back[1] \in Messages /\ back[j + 1] \in Messages  BY <1>0, <1>2, <3>2
      <4> QED  BY <1>2, <1>6, <3>1, <3>2, <4>1, MessageFields
    <3>6. Knows(back[j + 1].votes)  BY <1>0, <1>2, <1>6, <3>4, <3>5
    <3> QED  BY <3>1, <3>2, <3>6
  <2> QED  BY <2>1, <2>2
<1>7. CASE \E i \in DOMAIN back : Carries(back[i]) /\ Knows(back[i].votes)
  <2>1. PICK i \in DOMAIN back : Carries(back[i]) /\ Knows(back[i].votes)  BY <1>7
  <2>2. CASE i = 1  BY <1>2, <1>6, <2>1, <2>2
  <2>3. CASE i # 1  BY <1>4, <2>1, <2>3
  <2> QED  BY <2>2, <2>3
<1> QED  BY <1>3, <1>5, <1>7

\* A page that comes to know another vote_version asks for the votes.
LEMMA ReadCopies ==
    ASSUME VoteInv, NEW then, Reads(then), Head(back).type # "user",
           user' = user, missed' = missed,
           \/ ~Asked(then, "user") /\ known'.votes = known.votes
           \/ Asked(then, "user") /\ known'.votes <= voteVersion
    PROVE  VotesKnown' /\ VotesCopied'
<1>0. VotesKnown /\ VotesCopied /\ wire \in Seq(Commands) /\ back \in Seq(Messages)
  BY VotingTypes DEF VoteInv
<1>1. /\ time' = time /\ voteVersion' = voteVersion  BY DogStays
<1>2. /\ wire' \in Seq(Commands) /\ back' \in Seq(Messages)
      /\ Asked(wire', "user") <=> Asked(wire, "user") \/ Asked(then, "user")
      /\ Has(back, "user") <=> Head(back).type = "user" \/ Has(back', "user")
  BY ReadMoves
<1>3. CASE Asked(then, "user") /\ known'.votes <= voteVersion
  BY <1>1, <1>2, <1>3 DEF VotesKnown, VotesCopied
<1>4. CASE ~Asked(then, "user") /\ known'.votes = known.votes
  <2>1. Updating' => Updating  BY <1>0, <1>2, <1>4, UpdatingIs, UpdatingThen
  <2>2. Follows' => Follows  BY <2>1 DEF Follows
  <2>3. VotesKnown'  BY <1>0, <1>1, <1>4, <2>2 DEF VotesKnown
  <2>4. Newest(back', "user", user') \subseteq Newest(back, "user", user)
    BY <1>0, NewestOther DEF Reads
  <2>5. VotesCopied'  BY <1>0, <1>1, <1>2, <1>4, <2>2, <2>4 DEF VotesCopied
  <2> QED  BY <2>3, <2>5
<1> QED  BY <1>3, <1>4

\* A page that knows a version from before reads a status before anything else that
\* makes it draw.
LEMMA ReadFirst ==
    ASSUME VoteInv, NEW then, Reads(then), known'.version = known.version,
           Head(back).type # "status", ~Carries(Head(back)) \/ buttons' = buttons
    PROVE  StatusFirst'
<1>0. StatusFirst /\ wire \in Seq(Commands) /\ back \in Seq(Messages)
  BY VotingTypes DEF VoteInv
<1>1. version' = version /\ link' = link  BY DogStays
<1>2. /\ 1 \in DOMAIN back /\ back[1] = Head(back) /\ back' \in Seq(Messages)
      /\ \A i \in DOMAIN back' : i + 1 \in DOMAIN back /\ back'[i] = back[i + 1]
      /\ \A i \in DOMAIN back : i = 1 \/ (i - 1 \in DOMAIN back' /\ back'[i - 1] = back[i])
      /\ Has(back, "status") <=> Head(back).type = "status" \/ Has(back', "status")
  BY ReadMoves
<1>3. DOMAIN back = 1 .. Len(back) /\ DOMAIN back' = 1 .. Len(back')
  BY <1>0, <1>2, LenProperties
<1>4. ASSUME link', known'.version > version'
      PROVE  /\ Bare'
             /\ Has(back', "status") \/ (wire' # <<>> /\ Head(wire').ask = "status")
             /\ \A i \in DOMAIN back' :
                   Carries(back'[i]) \/ \E j \in DOMAIN back' : j < i /\ back'[j].type = "status"
  <2>1. /\ Bare
        /\ Has(back, "status") \/ (wire # <<>> /\ Head(wire).ask = "status")
        /\ \A i \in DOMAIN back :
              Carries(back[i]) \/ \E j \in DOMAIN back : j < i /\ back[j].type = "status"
    BY <1>0, <1>1, <1>4 DEF StatusFirst
  <2>2. Carries(Head(back))
    <3>1. ~\E j \in DOMAIN back : j < 1  BY <1>3
    <3> QED  BY <1>2, <2>1, <3>1
  <2>3. Bare'  BY <2>1, <2>2 DEF Bare
  <2>4. wire # <<>> => wire' # <<>> /\ Head(wire') = Head(wire)
    <3>1. PICK w : w = wire'  OBVIOUS
    <3>2. w = wire \o then /\ then \in Seq(Commands)  BY <3>1 DEF Reads
    <3>3. wire # <<>> => w # <<>> /\ Head(w) = Head(wire)
      BY <1>0, <3>2, ConcatProperties, EmptySeq
    <3> QED  BY <3>1, <3>3
  <2>5. ASSUME NEW i \in DOMAIN back', ~Carries(back'[i])
        PROVE  \E j \in DOMAIN back' : j < i /\ back'[j].type = "status"
    <3>1. i + 1 \in DOMAIN back /\ ~Carries(back[i + 1])  BY <1>2, <2>5
    <3>2. PICK j \in DOMAIN back : j < i + 1 /\ back[j].type = "status"  BY <2>1, <3>1
    <3>3. j # 1  BY <1>2, <3>2
    <3>4. j - 1 \in DOMAIN back' /\ back'[j - 1].type = "status"  BY <1>2, <3>2, <3>3
    <3>5. j - 1 < i
      <4>1. i \in Nat /\ j \in Nat  BY <1>3
      <4> QED  BY <3>2, <4>1
    <3> QED  BY <3>4, <3>5
  <2> QED  BY <1>2, <2>1, <2>3, <2>4, <2>5
<1> QED  BY <1>4 DEF StatusFirst, Carries

\* What a button waits for is not read, or it makes the page ask for more.
LEMMA ReadAwaits ==
    ASSUME VoteInv, NEW then, Reads(then), known'.version = known.version, buttons' = buttons,
           Head(back).type # "queue",
           Head(back).type = "status" => Head(back).version = known.version,
           Head(back).type = "done" => Asked(then, "status")
    PROVE  Awaited'
<1>0. Awaited  BY DEF VoteInv
<1>1. version' = version /\ link' = link  BY DogStays
<1>2. /\ 1 \in DOMAIN back /\ back[1] = Head(back)
      /\ \A i \in DOMAIN back : i = 1 \/ (i - 1 \in DOMAIN back' /\ back'[i - 1] = back[i])
      /\ \A ask : Asked(wire', ask) <=> Asked(wire, ask) \/ Asked(then, ask)
      /\ \A type : Has(back, type) <=> Head(back).type = type \/ Has(back', type)
  BY ReadMoves
<1>3. Renews(back, known.version) => Renews(back', known'.version)
  <2>1. ASSUME NEW i \in DOMAIN back, back[i].type = "status", back[i].version # known.version
        PROVE  Renews(back', known'.version)
    <3>1. i # 1  BY <1>2, <2>1
    <3>2. i - 1 \in DOMAIN back' /\ back'[i - 1] = back[i]  BY <1>2, <3>1
    <3> QED  BY <2>1, <3>2 DEF Renews
  <2> QED  BY <2>1 DEF Renews
<1>4. /\ Asked(wire, "queue") => Asked(wire', "queue")
      /\ Asked(wire, "vote") => Asked(wire', "vote")
      /\ Asked(wire, "unvote") => Asked(wire', "unvote")
      /\ Asked(wire, "status") => Asked(wire', "status")
      /\ Has(back, "queue") => Has(back', "queue")
      /\ Has(back, "done") => Has(back', "done") \/ Asked(wire', "status")
  BY <1>2
<1>5. Waits' => Waits  BY DEF Waits
<1>6. known'.version < version' <=> known.version < version  BY <1>1
<1> SUFFICES ASSUME link', Waits'
             PROVE  \/ Asked(wire', "queue") \/ Has(back', "queue")
                    \/ Asked(wire', "vote") \/ Asked(wire', "unvote")
                    \/ known'.version < version' /\ (Has(back', "done") \/ Asked(wire', "status"))
                    \/ Renews(back', known'.version)
  BY DEF Awaited, Renews
<1>7. \/ Asked(wire, "queue") \/ Has(back, "queue")
      \/ Asked(wire, "vote") \/ Asked(wire, "unvote")
      \/ known.version < version /\ (Has(back, "done") \/ Asked(wire, "status"))
      \/ Renews(back, known.version)
  BY <1>0, <1>1, <1>5 DEF Awaited
<1> QED  BY <1>3, <1>4, <1>6, <1>7

\* Buttons that are drawn are for what is known of the votes, and none of them waits.
LEMMA Drawn ==
    ASSUME NEW listed, NEW voted
    PROVE  /\ Buttons(listed, voted) \in [Tracks -> Looks]
           /\ \A t \in Tracks :
                 Buttons(listed, voted)[t] \in {"none", IF t \in voted THEN "undo" ELSE "vote"}
<1>1. ASSUME NEW t \in Tracks
      PROVE  Buttons(listed, voted)[t] \in {"none", IF t \in voted THEN "undo" ELSE "vote"}
  <2>1. CASE t \notin listed  BY <2>1 DEF Buttons
  <2>2. CASE t \in listed \cap voted  BY <2>2 DEF Buttons
  <2>3. CASE t \in listed /\ t \notin voted  BY <2>3 DEF Buttons
  <2> QED  BY <2>1, <2>2, <2>3
<1>2. Buttons(listed, voted) \in [Tracks -> Looks]
  <2>1. ASSUME NEW u \in Tracks
        PROVE  (CASE u \notin listed -> "none" [] u \in listed \cap voted -> "undo"
                  [] OTHER -> "vote") \in Looks
    <3>1. CASE u \notin listed  BY <3>1 DEF Looks
    <3>2. CASE u \in listed \cap voted  BY <3>2 DEF Looks
    <3>3. CASE u \in listed /\ u \notin voted  BY <3>3 DEF Looks
    <3> QED  BY <3>1, <3>2, <3>3
  <2> QED  BY <2>1 DEF Buttons
<1> QED  BY <1>1, <1>2

\* What a page asks for that is told of these versions.
LEMMA FetchesOf ==
    ASSUME NEW plays, NEW votes, NEW f, f = Fetches(plays, votes)
    PROVE  /\ f \in Seq(Commands)
           /\ Asked(f, "user") <=> votes # known.votes
           /\ Asked(f, "queue") <=> plays # known.version
<1> DEFINE a == IF votes = known.votes THEN <<>> ELSE <<Ask("activity"), Ask("user")>>
           q == IF plays = known.version THEN <<>> ELSE <<Ask("queue")>>
<1>0. Ask("activity") \in Commands /\ Ask("user") \in Commands /\ Ask("queue") \in Commands
  BY DEF Ask, Commands
<1>1. f = a \o q  BY DEF Fetches
<1>2. a \in Seq(Commands) /\ (Asked(a, "user") <=> votes # known.votes) /\ ~Asked(a, "queue")
  <2>1. CASE votes = known.votes
    <3>1. a = <<>>  BY <2>1
    <3> QED  BY <2>1, <3>1 DEF Asked
  <2>2. CASE votes # known.votes
    <3>1. a = <<Ask("activity"), Ask("user")>>  BY <2>2
    <3>2. a \in Seq(Commands) /\ DOMAIN a = 1 .. 2  BY <1>0, <3>1
    <3>3. a[1] = Ask("activity") /\ a[2] = Ask("user")  BY <3>1
    <3>4. a[1].ask = "activity" /\ a[2].ask = "user"  BY <3>3 DEF Ask
    <3>5. Asked(a, "user") /\ ~Asked(a, "queue")  BY <3>2, <3>4 DEF Asked
    <3> QED  BY <2>2, <3>2, <3>5
  <2> QED  BY <2>1, <2>2
<1>3. q \in Seq(Commands) /\ (Asked(q, "queue") <=> plays # known.version) /\ ~Asked(q, "user")
  <2>1. CASE plays = known.version
    <3>1. q = <<>>  BY <2>1
    <3> QED  BY <2>1, <3>1 DEF Asked
  <2>2. CASE plays # known.version
    <3>1. q = <<Ask("queue")>>  BY <2>2
    <3>2. q \in Seq(Commands) /\ DOMAIN q = 1 .. 1 /\ q[1] = Ask("queue")  BY <1>0, <3>1
    <3>3. q[1].ask = "queue"  BY <3>2 DEF Ask
    <3>4. Asked(q, "queue") /\ ~Asked(q, "user")  BY <3>2, <3>3 DEF Asked
    <3> QED  BY <2>2, <3>2, <3>4
  <2> QED  BY <2>1, <2>2
<1> HIDE DEF a, q
<1>4. f \in Seq(Commands)  BY <1>1, <1>2, <1>3, ConcatProperties
<1> QED  BY <1>1, <1>2, <1>3, <1>4, AskedMore

LEMMA ReadTypes ==
    ASSUME VoteInv, NEW then, Reads(then),
           known' \in [version : Nat \cup {Never}, votes : Nat \cup {Never}],
           user' \in [of : SUBSET Tracks, at : Nat \cup {Never}],
           items' \in SUBSET Tracks, happened' \in SUBSET Tracks, missed' \in BOOLEAN,
           buttons' \in [Tracks -> Looks], actions' \in [Tracks -> Looks]
    PROVE  VoteTypeOK'
<1>0. VoteTypeOK  BY DEF VoteInv
<1>1. /\ queued' = queued /\ mine' = mine /\ due' = due /\ time' = time
      /\ version' = version /\ voteVersion' = voteVersion /\ told' = told
      /\ connected' = connected /\ link' = link
  BY DogStays
<1>2. wire' \in Seq(Commands) /\ back' \in Seq(Messages)  BY ReadMoves
<1> QED  BY <1>0, <1>1, <1>2 DEF VoteTypeOK

\* Without a connection nothing is read.
LEMMA ReadShows == ASSUME VoteInv, NEW then, Reads(then) PROVE NothingShown'
<1>1. Linked /\ back # <<>> /\ connected' = connected  BY DogStays DEF VoteInv, Reads
<1>2. connected  BY <1>1 DEF Linked
<1> QED  BY <1>1, <1>2 DEF NothingShown

LEMMA StatusKeeps == ASSUME VoteInv, HandleStatus PROVE VoteInv'
<1> DEFINE m == Head(back)  then == Fetches(m.version, m.votes)
<1>1. PICK f : f = then  OBVIOUS
<1>2. /\ f \in Seq(Commands)
      /\ Asked(f, "user") <=> m.votes # known.votes
      /\ Asked(f, "queue") <=> m.version # known.version
  BY <1>1, FetchesOf
<1>3. Read("status", f)  BY <1>1 DEF HandleStatus
<1>4. Reads(f) /\ m.type = "status" /\ link /\ m \in Messages  BY <1>2, <1>3, ReadOf
<1>5. /\ known' = [version |-> m.version, votes |-> m.votes]
      /\ buttons' \in {buttons, Buttons(items, user.of)}
      /\ user' = user /\ items' = items /\ happened' = happened
      /\ actions' = actions /\ missed' = missed
  BY DEF HandleStatus
<1> HIDE DEF then, m
<1>6. Carries(m) /\ m.version \in Nat /\ m.votes \in Nat  BY <1>4, MessageFields DEF Carries
<1>7. m.version <= version /\ m.votes <= voteVersion
  <2>1. 1 \in DOMAIN back /\ back[1] = m  BY <1>4, ReadMoves DEF m
  <2>2. Stamped  BY DEF VoteInv
  <2> QED  BY <1>4, <1>6, <2>1, <2>2 DEF Stamped
<1>8. known'.version = m.version /\ known'.votes = m.votes  BY <1>5
<1>9. /\ VoteTypeOK /\ ButtonsRight
      /\ version \in Nat /\ known.version \in Int
  BY VotingTypes DEF VoteInv
<1>10. VoteTypeOK'
  <2>1. known' \in [version : Nat \cup {Never}, votes : Nat \cup {Never}]  BY <1>5, <1>6
  <2>2. buttons' \in [Tracks -> Looks]
    <3>1. CASE buttons' = buttons  BY <1>9, <3>1 DEF VoteTypeOK
    <3>2. CASE buttons' = Buttons(items, user.of)  BY <3>2, Drawn
    <3> QED  BY <1>5, <3>1, <3>2
  <2> QED  BY <1>4, <1>5, <1>9, <2>1, <2>2, ReadTypes DEF VoteTypeOK
<1>11. Linked' /\ Stamped' /\ Rising' /\ NothingShown'  BY <1>4, ReadKeeps, ReadShows
<1>12. VotesTold'  BY <1>4, <1>6, <1>8, ReadTellsVotes DEF m
<1>13. VotesKnown' /\ VotesCopied'
  <2>1. \/ ~Asked(f, "user") /\ known'.votes = known.votes
        \/ Asked(f, "user") /\ known'.votes <= voteVersion
    BY <1>2, <1>7, <1>8
  <2>2. Head(back).type # "user"  BY <1>4 DEF m
  <2> QED  BY <1>4, <1>5, <2>1, <2>2, ReadCopies
<1>14. ButtonsRight'
  <2> SUFFICES ASSUME NEW t \in Tracks
               PROVE  buttons'[t] \in {"none", Right(t)', "voting"}
                      /\ actions'[t] \in {"none", Right(t)', "voting"}
    BY DEF ButtonsRight
  <2>1. Right(t)' = Right(t)  BY <1>5 DEF Right
  <2>2. buttons[t] \in {"none", Right(t), "voting"} /\ actions[t] \in {"none", Right(t), "voting"}
    BY <1>9 DEF ButtonsRight
  <2>3. Buttons(items, user.of)[t] \in {"none", Right(t)}  BY Drawn DEF Right
  <2> QED  BY <1>5, <2>1, <2>2, <2>3
<1>15. StatusFirst'
  <2>1. ~(known'.version > version')
    <3>1. version' = version  BY <1>4, DogStays
    <3> QED  BY <1>6, <1>7, <1>8, <1>9, <3>1
  <2> QED  BY <2>1 DEF StatusFirst
<1>16. Awaited'
  <2>1. CASE buttons' = Buttons(items, user.of)
    <3>1. ~Waits'
      <4> SUFFICES ASSUME NEW t \in Tracks PROVE buttons'[t] # "voting"  BY DEF Waits
      <4> QED  BY <2>1, Drawn
    <3> QED  BY <3>1 DEF Awaited
  <2>2. CASE buttons' = buttons /\ m.version = known.version
    <3>1. Head(back).type = "status" /\ Head(back).version = known.version  BY <1>4, <2>2 DEF m
    <3> QED  BY <1>4, <1>8, <2>2, <3>1, ReadAwaits
  <2>3. CASE m.version # known.version
    <3>1. Asked(wire', "queue")  BY <1>2, <1>4, <2>3, ReadMoves
    <3> QED  BY <3>1 DEF Awaited
  <2> QED  BY <1>5, <2>1, <2>2, <2>3
<1> QED  BY <1>10, <1>11, <1>12, <1>13, <1>14, <1>15, <1>16 DEF VoteInv

LEMMA VotesKeep == ASSUME VoteInv, HandleVotes PROVE VoteInv'
<1> DEFINE m == Head(back)  then == Fetches(known.version, m.votes)
<1>1. PICK f : f = then  OBVIOUS
<1>2. f \in Seq(Commands) /\ (Asked(f, "user") <=> m.votes # known.votes)
  BY <1>1, FetchesOf
<1>3. Read("votes", f)  BY <1>1 DEF HandleVotes
<1>4. Reads(f) /\ m.type = "votes" /\ link /\ m \in Messages  BY <1>2, <1>3, ReadOf
<1>5. /\ known' = [known EXCEPT !.votes = m.votes]
      /\ user' = user /\ items' = items /\ happened' = happened
      /\ buttons' = buttons /\ actions' = actions /\ missed' = missed
  BY DEF HandleVotes
<1> HIDE DEF then, m
<1>6. Carries(m) /\ m.votes \in Nat  BY <1>4, MessageFields DEF Carries
<1>7. m.votes <= voteVersion
  <2>1. 1 \in DOMAIN back /\ back[1] = m  BY <1>4, ReadMoves DEF m
  <2>2. Stamped  BY DEF VoteInv
  <2> QED  BY <1>4, <1>6, <2>1, <2>2 DEF Stamped
<1>8. VoteTypeOK /\ ButtonsRight  BY DEF VoteInv
<1>9. /\ known'.version = known.version /\ known'.votes = m.votes
      /\ known' \in [version : Nat \cup {Never}, votes : Nat \cup {Never}]
  BY <1>5, <1>6, <1>8 DEF VoteTypeOK
<1>10. VoteTypeOK'  BY <1>4, <1>5, <1>8, <1>9, ReadTypes DEF VoteTypeOK
<1>11. Linked' /\ Stamped' /\ Rising' /\ NothingShown'  BY <1>4, ReadKeeps, ReadShows
<1>12. VotesTold'  BY <1>4, <1>6, <1>9, ReadTellsVotes DEF m
<1>13. VotesKnown' /\ VotesCopied'
  <2>1. \/ ~Asked(f, "user") /\ known'.votes = known.votes
        \/ Asked(f, "user") /\ known'.votes <= voteVersion
    BY <1>2, <1>7, <1>9
  <2>2. Head(back).type # "user"  BY <1>4 DEF m
  <2> QED  BY <1>4, <1>5, <2>1, <2>2, ReadCopies
<1>14. ButtonsRight'  BY <1>5, <1>8 DEF ButtonsRight, Right
<1>15. Head(back).type = "votes"  BY <1>4 DEF m
<1>16. StatusFirst'  BY <1>4, <1>5, <1>9, <1>15, ReadFirst
<1>17. Awaited'  BY <1>4, <1>5, <1>9, <1>15, ReadAwaits
<1> QED  BY <1>10, <1>11, <1>12, <1>13, <1>14, <1>16, <1>17 DEF VoteInv

\* A message that tells nothing of the versions; what it makes the page draw is right.
LEMMA OtherKeeps ==
    ASSUME VoteInv, NEW then, Reads(then), Head(back).type \in {"queue", "activity", "done"},
           known' = known, user' = user, missed' = missed,
           items' \in SUBSET Tracks, happened' \in SUBSET Tracks, ~Asked(then, "user"),
           Head(back).type = "done" => Asked(then, "status"),
           buttons' = Buttons(items', user.of) \/ (buttons' = buttons /\ Head(back).type # "queue"),
           actions' = Buttons(happened', user.of) \/ actions' = actions
    PROVE  VoteInv'
<1>0. VoteTypeOK /\ ButtonsRight  BY DEF VoteInv
<1>1. ~Carries(Head(back)) /\ Head(back).type # "status" /\ Head(back).type # "user"
  BY DEF Carries
<1>2. buttons' \in [Tracks -> Looks] /\ actions' \in [Tracks -> Looks]
  <2>1. buttons \in [Tracks -> Looks] /\ actions \in [Tracks -> Looks]  BY <1>0 DEF VoteTypeOK
  <2> QED  BY <2>1, Drawn
<1>3. VoteTypeOK'  BY <1>0, <1>2, ReadTypes DEF VoteTypeOK
<1>4. Linked' /\ Stamped' /\ Rising' /\ NothingShown'  BY ReadKeeps, ReadShows
<1>5. VotesTold'  BY <1>1, ReadTellsVotes
<1>6. VotesKnown' /\ VotesCopied'  BY <1>1, ReadCopies
<1>7. ButtonsRight'
  <2> SUFFICES ASSUME NEW t \in Tracks
               PROVE  buttons'[t] \in {"none", Right(t)', "voting"}
                      /\ actions'[t] \in {"none", Right(t)', "voting"}
    BY DEF ButtonsRight
  <2>1. Right(t)' = Right(t)  BY DEF Right
  <2>2. buttons[t] \in {"none", Right(t), "voting"} /\ actions[t] \in {"none", Right(t), "voting"}
    BY <1>0 DEF ButtonsRight
  <2>3. Buttons(items', user.of)[t] \in {"none", Right(t)}
        /\ Buttons(happened', user.of)[t] \in {"none", Right(t)}
    BY Drawn DEF Right
  <2> QED  BY <2>1, <2>2, <2>3
<1>8. StatusFirst'  BY <1>1, ReadFirst
<1>9. Awaited'
  <2>1. CASE buttons' = Buttons(items', user.of)
    <3>1. ASSUME NEW t \in Tracks PROVE buttons'[t] # "voting"
      <4>1. Buttons(items', user.of)[t] # "voting"  BY Drawn
      <4> QED  BY <2>1, <4>1
    <3> QED  BY <3>1 DEF Awaited, Waits
  <2>2. CASE buttons' = buttons /\ Head(back).type # "queue"  BY <1>1, <2>2, ReadAwaits
  <2> QED  BY <2>1, <2>2
<1> QED  BY <1>3, <1>4, <1>5, <1>6, <1>7, <1>8, <1>9 DEF VoteInv

LEMMA DrawQueueKeeps == ASSUME VoteInv, DrawQueue PROVE VoteInv'
<1>1. <<>> \in Seq(Commands) /\ ~Asked(<<>>, "user")  BY DEF Asked
<1>2. Read("queue", <<>>)  BY DEF DrawQueue
<1>3. Reads(<<>>) /\ Head(back).type = "queue" /\ Head(back) \in Messages  BY <1>1, <1>2, ReadOf
<1>4. Head(back).tracks \in SUBSET Tracks  BY <1>3, MessageFields
<1>5. /\ items' = Head(back).tracks /\ buttons' = Buttons(items', user.of)
      /\ known' = known /\ user' = user /\ happened' = happened
      /\ actions' = actions /\ missed' = missed
  BY DEF DrawQueue
<1>6. happened \in SUBSET Tracks  BY DEF VoteInv, VoteTypeOK
<1> QED  BY <1>1, <1>3, <1>4, <1>5, <1>6, OtherKeeps

LEMMA DrawActivityKeeps == ASSUME VoteInv, DrawActivity PROVE VoteInv'
<1>1. <<>> \in Seq(Commands) /\ ~Asked(<<>>, "user")  BY DEF Asked
<1>2. Read("activity", <<>>)  BY DEF DrawActivity
<1>3. Reads(<<>>) /\ Head(back).type = "activity" /\ Head(back) \in Messages  BY <1>1, <1>2, ReadOf
<1>4. Head(back).tracks \in SUBSET Tracks  BY <1>3, MessageFields
<1>5. /\ happened' = Head(back).tracks /\ actions' = Buttons(happened', user.of)
      /\ known' = known /\ user' = user /\ items' = items
      /\ buttons' = buttons /\ missed' = missed
  BY DEF DrawActivity
<1>6. items \in SUBSET Tracks  BY DEF VoteInv, VoteTypeOK
<1> QED  BY <1>1, <1>3, <1>4, <1>5, <1>6, OtherKeeps

LEMMA CallbackKeeps == ASSUME VoteInv, Callback PROVE VoteInv'
<1>1. PICK f : f = <<Ask("status")>>  OBVIOUS
<1>2. f \in Seq(Commands) /\ Asked(f, "status") /\ ~Asked(f, "user")
  <2>1. Ask("status") \in Commands /\ Ask("status").ask = "status"  BY DEF Ask, Commands
  <2>2. f \in Seq(Commands) /\ DOMAIN f = 1 .. 1 /\ f[1] = Ask("status")  BY <1>1, <2>1
  <2> QED  BY <2>1, <2>2 DEF Asked
<1>3. Read("done", f)  BY <1>1 DEF Callback
<1>4. Reads(f) /\ Head(back).type = "done"  BY <1>2, <1>3, ReadOf
<1>5. /\ known' = known /\ user' = user /\ items' = items /\ happened' = happened
      /\ buttons' = buttons /\ actions' = actions /\ missed' = missed
  BY DEF Callback, pageVars
<1>6. items \in SUBSET Tracks /\ happened \in SUBSET Tracks  BY DEF VoteInv, VoteTypeOK
<1> QED  BY <1>2, <1>4, <1>5, <1>6, OtherKeeps

\* An answer to User.update: it was on its way, so it is as new as it has to be.
LEMMA SetUserKeeps == ASSUME VoteInv, SetUser PROVE VoteInv'
<1> DEFINE m == Head(back)
<1>1. <<>> \in Seq(Commands) /\ Read("user", <<>>)  BY DEF SetUser
<1>2. Reads(<<>>) /\ m.type = "user" /\ m \in Messages  BY <1>1, ReadOf
<1>3. m.of \in SUBSET Tracks /\ m.at \in Nat  BY <1>2, MessageFields
<1>4. /\ user' = [of |-> m.of, at |-> m.at]
      /\ buttons' = Buttons(items, user'.of) /\ actions' = Buttons(happened, user'.of)
      /\ missed' = FALSE /\ known' = known /\ items' = items /\ happened' = happened
  BY DEF SetUser
<1> HIDE DEF m
<1>5. VoteTypeOK /\ wire \in Seq(Commands) /\ back \in Seq(Messages)  BY VotingTypes DEF VoteInv
<1>6. VoteTypeOK'
  <2>1. user' \in [of : SUBSET Tracks, at : Nat \cup {Never}]  BY <1>3, <1>4
  <2>2. buttons' \in [Tracks -> Looks] /\ actions' \in [Tracks -> Looks]  BY <1>4, Drawn
  <2> QED  BY <1>2, <1>4, <1>5, <2>1, <2>2, ReadTypes DEF VoteTypeOK
<1>7. Linked' /\ Stamped' /\ Rising' /\ NothingShown'  BY <1>2, ReadKeeps, ReadShows
<1>8. ~Carries(m)  BY <1>2 DEF Carries
<1>9. VotesTold'  BY <1>2, <1>4, <1>8, ReadTellsVotes DEF m
<1>10. Follows
  <2>1. Has(back, "user")  BY <1>2, ReadMoves DEF m
  <2> QED  BY <1>5, <2>1, UpdatingIs DEF Follows
<1>11. time' = time /\ voteVersion' = voteVersion  BY <1>2, DogStays
<1>12. VotesKnown'
  <2>1. known.votes <= voteVersion  BY <1>10 DEF VoteInv, VotesKnown
  <2> QED  BY <1>4, <1>11, <2>1 DEF VotesKnown
<1>13. VotesCopied'
  <2> SUFFICES ASSUME ~Asked(wire', "user"), NEW n \in Newest(back', "user", user')
               PROVE  known.votes + time <= n.at + voteVersion
    BY <1>4, <1>11 DEF VotesCopied
  <2>1. ~Asked(wire, "user")  BY <1>2, ReadMoves
  <2>2. \A c \in Newest(back, "user", user) : known.votes + time <= c.at + voteVersion
    BY <1>10, <2>1 DEF VoteInv, VotesCopied
  <2>3. back # <<>> /\ back' = Tail(back)  BY <1>2 DEF Reads
  <2>4. n \in Newest(back, "user", user) \/ (n = user' /\ m \in Newest(back, "user", user))
    BY <1>2, <1>5, <2>3, NewestRead DEF m
  <2>5. user'.at = m.at  BY <1>4
  <2> QED  BY <2>2, <2>4, <2>5
<1>14. ASSUME NEW t \in Tracks
       PROVE  buttons'[t] \in {"none", Right(t)'} /\ actions'[t] \in {"none", Right(t)'}
  <2>1. Right(t)' = IF t \in user'.of THEN "undo" ELSE "vote"  BY DEF Right
  <2>2. Buttons(items, user'.of)[t] \in {"none", IF t \in user'.of THEN "undo" ELSE "vote"}
        /\ Buttons(happened, user'.of)[t] \in {"none", IF t \in user'.of THEN "undo" ELSE "vote"}
    BY Drawn
  <2> QED  BY <1>4, <2>1, <2>2
<1>15. ButtonsRight'  BY <1>14 DEF ButtonsRight
<1>16. StatusFirst'
  <2>1. known'.version = known.version /\ Head(back).type # "status" /\ ~Carries(Head(back))
    BY <1>2, <1>4, <1>8 DEF m
  <2> QED  BY <1>2, <2>1, ReadFirst
<1>17. Awaited'
  <2>1. ASSUME NEW t \in Tracks PROVE buttons'[t] # "voting"
    <3>1. Right(t)' # "voting"  BY DEF Right
    <3> QED  BY <1>14, <3>1
  <2> QED  BY <2>1 DEF Awaited, Waits
<1> QED  BY <1>6, <1>7, <1>9, <1>12, <1>13, <1>15, <1>16, <1>17 DEF VoteInv

-------------------------------------------------------------------------------
(* A click, and what becomes of the connection *)

\* A button that is clicked was there, so the page had read a status and its queue.
LEMMA ClickKeeps == ASSUME VoteInv, Click PROVE VoteInv'
<1>0. /\ VoteTypeOK /\ Linked /\ Stamped /\ Rising
      /\ VotesTold /\ VotesKnown /\ VotesCopied
      /\ ButtonsRight /\ NothingShown /\ StatusFirst /\ Awaited
  BY DEF VoteInv
<1>1. /\ wire = <<>> /\ connected' = connected /\ link' = link /\ back' = back
      /\ queued' = queued /\ mine' = mine /\ due' = due /\ time' = time
      /\ version' = version /\ voteVersion' = voteVersion /\ told' = told
      /\ known' = known /\ user' = user /\ items' = items
      /\ happened' = happened /\ missed' = missed
  BY DEF Click, dogVars
<1>2. PICK t \in Tracks :
         \/ /\ Clicked(buttons[t], t) /\ buttons' = [buttons EXCEPT ![t] = "voting"]
            /\ actions' = actions
         \/ /\ Clicked(actions[t], t) /\ actions' = [actions EXCEPT ![t] = "voting"]
            /\ buttons' = buttons
  BY DEF Click
<1>3. PICK ask \in {"vote", "unvote"} : Asks(<<[ask |-> ask, track |-> t]>>)
  BY <1>2 DEF Clicked
<1>4. PICK f : f = <<[ask |-> ask, track |-> t]>>  OBVIOUS
<1>5. f \in Seq(Commands) /\ DOMAIN f = 1 .. 1 /\ f[1].ask = ask
  <2>1. [ask |-> ask, track |-> t] \in Commands  BY DEF Commands
  <2> QED  BY <1>4, <2>1
<1>6. wire' = IF link THEN f ELSE <<>>
  <2>1. wire' = IF link THEN <<>> \o f ELSE <<>>  BY <1>1, <1>3, <1>4 DEF Asks
  <2> QED  BY <1>5, <2>1, ConcatEmptySeq
<1>7. VoteTypeOK'
  <2>1. wire' \in Seq(Commands)  BY <1>5, <1>6
  <2>2. buttons' \in [Tracks -> Looks] /\ actions' \in [Tracks -> Looks]
    <3>1. buttons \in [Tracks -> Looks] /\ actions \in [Tracks -> Looks] /\ "voting" \in Looks
      BY <1>0 DEF VoteTypeOK, Looks
    <3> QED  BY <1>2, <3>1
  <2> QED  BY <1>0, <1>1, <2>1, <2>2 DEF VoteTypeOK
<1>8. Linked'  BY <1>0, <1>1, <1>6 DEF Linked
<1>9. Stamped' /\ Rising'  BY <1>0, <1>1 DEF Stamped, Rising, Carries
<1>10. ~Asked(wire, "status") /\ ~Asked(wire, "user")  BY <1>1 DEF Asked
<1>11. ~Asked(wire', "user")
  <2>1. \A i \in DOMAIN wire' : wire'[i].ask = ask  BY <1>5, <1>6
  <2>2. ask # "user"  OBVIOUS
  <2> QED  BY <2>1, <2>2 DEF Asked
<1>12. VotesTold'  BY <1>0, <1>1, <1>10 DEF VotesTold, Informs, Carried, Carries
<1>13. Follows' => Follows
  <2>1. wire \in Seq(Commands) /\ back \in Seq(Messages)  BY <1>0 DEF VoteTypeOK
  <2>2. wire' \in Seq(Commands) /\ back' \in Seq(Messages)  BY <1>7 DEF VoteTypeOK
  <2>3. Updating' => Updating  BY <1>1, <1>11, <2>1, <2>2, UpdatingIs, UpdatingThen
  <2> QED  BY <1>1, <2>3 DEF Follows
<1>14. VotesKnown'  BY <1>0, <1>1, <1>13 DEF VotesKnown
<1>15. VotesCopied'  BY <1>0, <1>1, <1>10, <1>13 DEF VotesCopied
<1>16. ButtonsRight'
  <2> SUFFICES ASSUME NEW u \in Tracks
               PROVE  buttons'[u] \in {"none", Right(u)', "voting"}
                      /\ actions'[u] \in {"none", Right(u)', "voting"}
    BY DEF ButtonsRight
  <2>1. Right(u)' = Right(u)  BY <1>1 DEF Right
  <2>2. buttons[u] \in {"none", Right(u), "voting"} /\ actions[u] \in {"none", Right(u), "voting"}
    BY <1>0 DEF ButtonsRight
  <2>3. DOMAIN buttons = Tracks /\ DOMAIN actions = Tracks  BY <1>0 DEF VoteTypeOK
  <2> QED  BY <1>2, <2>1, <2>2, <2>3
<1>17. Bare => buttons' = buttons
  <2>1. Clicked(buttons[t], t) => buttons[t] \in {"undo", "vote"}  BY DEF Clicked
  <2> QED  BY <1>2, <2>1 DEF Bare
<1>18. NothingShown'  BY <1>0, <1>1, <1>17 DEF NothingShown, Bare
<1>19. StatusFirst'
  <2>1. ASSUME link', known'.version > version'
        PROVE  /\ Bare /\ Has(back, "status")
               /\ \A i \in DOMAIN back :
                     Carries(back[i]) \/ \E j \in DOMAIN back : j < i /\ back[j].type = "status"
    BY <1>0, <1>1, <2>1 DEF StatusFirst
  <2> QED  BY <1>1, <1>17, <2>1 DEF StatusFirst, Bare, Has, Carries
<1>20. Awaited'
  <2>1. ASSUME link' PROVE Asked(wire', "vote") \/ Asked(wire', "unvote")
    <3>1. wire' = f  BY <1>1, <1>6, <2>1
    <3>2. 1 \in DOMAIN wire' /\ wire'[1].ask = ask  BY <1>5, <3>1
    <3> QED  BY <3>2 DEF Asked
  <2> QED  BY <2>1 DEF Awaited
<1> QED  BY <1>7, <1>8, <1>9, <1>12, <1>14, <1>15, <1>16, <1>18, <1>19, <1>20 DEF VoteInv

\* A new connection shows nothing yet, and asks for the status before all else.
LEMMA ConnectKeeps == ASSUME VoteInv, Connect PROVE VoteInv'
<1>0. /\ VoteTypeOK /\ Linked /\ VotesKnown /\ VotesCopied /\ ButtonsRight /\ NothingShown
  BY DEF VoteInv
<1>1. PICK f : f = <<Ask("status"), Ask("queue"), Ask("activity")>>  OBVIOUS
<1>2. /\ f \in Seq(Commands) /\ f # <<>> /\ Head(f).ask = "status"
      /\ Asked(f, "status") /\ ~Asked(f, "user")
  <2>1. /\ Ask("status") \in Commands /\ Ask("queue") \in Commands /\ Ask("activity") \in Commands
        /\ Ask("status").ask = "status" /\ Ask("queue").ask = "queue" /\ Ask("activity").ask = "activity"
    BY DEF Ask, Commands
  <2>2. /\ f \in Seq(Commands) /\ f # <<>> /\ DOMAIN f = 1 .. 3 /\ Head(f) = Ask("status")
        /\ f[1] = Ask("status") /\ f[2] = Ask("queue") /\ f[3] = Ask("activity")
    BY <1>1, <2>1
  <2>3. \A i \in 1 .. 3 : i = 1 \/ i = 2 \/ i = 3  OBVIOUS
  <2>4. \A i \in DOMAIN f : f[i].ask # "user"  BY <2>1, <2>2, <2>3
  <2>5. 1 \in DOMAIN f /\ f[1].ask = "status"  BY <2>1, <2>2
  <2> QED  BY <2>1, <2>2, <2>4, <2>5 DEF Asked
<1>3. /\ ~connected /\ connected' = TRUE /\ link' = TRUE /\ wire' = f /\ back' = <<>>
      /\ queued' = queued /\ mine' = mine /\ due' = due /\ time' = time
      /\ version' = version /\ voteVersion' = voteVersion /\ told' = told
      /\ known' = known /\ user' = user /\ items' = items /\ happened' = happened
      /\ buttons' = buttons /\ actions' = actions /\ missed' = missed
  BY <1>1 DEF Connect, Opens, dogVars, pageVars
<1>4. /\ wire = <<>> /\ back = <<>> /\ Bare  BY <1>0, <1>3 DEF Linked, NothingShown
<1>5. VoteTypeOK'  BY <1>0, <1>2, <1>3 DEF VoteTypeOK
<1>6. Linked' /\ NothingShown'  BY <1>3 DEF Linked, NothingShown
<1>7. DOMAIN back' = {}  BY <1>3
<1>8. Stamped' /\ Rising'  BY <1>7 DEF Stamped, Rising
<1>9. VotesTold'  BY <1>2, <1>3 DEF VotesTold
<1>10. Follows' => Follows
  <2>1. wire' \in Seq(Commands) /\ back' \in Seq(Messages)  BY <1>5 DEF VoteTypeOK
  <2>2. ~Updating'  BY <1>2, <1>3, <1>7, <2>1, UpdatingThen DEF Has
  <2> QED  BY <1>3, <2>2 DEF Follows
<1>11. VotesKnown'  BY <1>0, <1>3, <1>10 DEF VotesKnown
<1>12. VotesCopied'
  <2>1. ~Asked(wire, "user")  BY <1>4 DEF Asked
  <2> QED  BY <1>0, <1>3, <1>4, <1>10, <2>1 DEF VotesCopied
<1>13. ButtonsRight'  BY <1>0, <1>3 DEF ButtonsRight, Right
<1>14. Bare' /\ ~Waits'  BY <1>3, <1>4 DEF Bare, Waits
<1>15. StatusFirst'  BY <1>2, <1>3, <1>7, <1>14 DEF StatusFirst
<1>16. Awaited'  BY <1>14 DEF Awaited
<1> QED  BY <1>5, <1>6, <1>8, <1>9, <1>11, <1>12, <1>13, <1>15, <1>16 DEF VoteInv

LEMMA NoticeKeeps == ASSUME VoteInv, Notice PROVE VoteInv'
<1>0. /\ VoteTypeOK /\ Linked /\ Stamped /\ Rising /\ VotesKnown /\ VotesCopied /\ ButtonsRight
  BY DEF VoteInv
<1>1. /\ ~link /\ connected' = FALSE /\ link' = link /\ wire' = wire /\ back' = back
      /\ queued' = queued /\ mine' = mine /\ due' = due /\ time' = time
      /\ version' = version /\ voteVersion' = voteVersion /\ told' = told
      /\ known' = known /\ user' = user /\ items' = items /\ happened' = happened
      /\ buttons' = Buttons({}, {}) /\ actions' = actions /\ missed' = missed
  BY DEF Notice, dogVars
<1>2. \A t \in Tracks : buttons'[t] = "none"
  <2>1. \A t \in Tracks : Buttons({}, {})[t] = "none"  BY DEF Buttons
  <2> QED  BY <1>1, <2>1
<1>3. VoteTypeOK'
  <2>1. buttons' \in [Tracks -> Looks]  BY <1>1, Drawn
  <2> QED  BY <1>0, <1>1, <2>1 DEF VoteTypeOK
<1>4. Linked'  BY <1>0, <1>1 DEF Linked
<1>5. Stamped' /\ Rising'  BY <1>0, <1>1 DEF Stamped, Rising, Carries
<1>6. Follows' => Follows  BY <1>1 DEF Follows, Updating
<1>7. VotesKnown'  BY <1>0, <1>1, <1>6 DEF VotesKnown
<1>8. VotesCopied'  BY <1>0, <1>1, <1>6 DEF VotesCopied
<1>9. ButtonsRight'  BY <1>0, <1>1, <1>2 DEF ButtonsRight, Right
<1>10. NothingShown'  BY <1>2 DEF NothingShown, Bare
<1>11. VotesTold' /\ StatusFirst' /\ Awaited'  BY <1>1 DEF VotesTold, StatusFirst, Awaited
<1> QED  BY <1>3, <1>4, <1>5, <1>7, <1>8, <1>9, <1>10, <1>11 DEF VoteInv

\* What is left when the connection is gone, and the dog goes on or starts again.
LEMMA CutKeeps ==
    ASSUME VoteInv, Breaks, connected' = connected,
           queued' = queued, mine' = mine, time' = time, told' = told,
           known' = known, user' = user, items' = items, happened' = happened,
           buttons' = buttons, actions' = actions,
           version' \in Nat, voteVersion' \in 0 .. time, due' \in BOOLEAN, missed' \in BOOLEAN,
           ~missed' => ~missed /\ ~Updating /\ voteVersion' = voteVersion
    PROVE  VoteInv'
<1>0. /\ VoteTypeOK /\ VotesKnown /\ VotesCopied /\ ButtonsRight /\ NothingShown
  BY DEF VoteInv
<1>1. link' = FALSE /\ wire' = <<>> /\ back' = <<>> /\ DOMAIN wire' = {} /\ DOMAIN back' = {}
  BY DEF Breaks
<1>2. VoteTypeOK'
  <2>0. <<>> \in Seq(Commands) /\ <<>> \in Seq(Messages) /\ FALSE \in BOOLEAN  OBVIOUS
  <2>1. wire' \in Seq(Commands) /\ back' \in Seq(Messages) /\ link' \in BOOLEAN
    BY <1>1, <2>0, Zenon
  <2>2. /\ connected' \in BOOLEAN /\ queued' \in SUBSET Tracks /\ mine' \in SUBSET Tracks
        /\ time' \in Nat /\ told' \in 0 .. time'
    BY <1>0 DEF VoteTypeOK
  <2>3. /\ known' \in [version : Nat \cup {Never}, votes : Nat \cup {Never}]
        /\ user' \in [of : SUBSET Tracks, at : Nat \cup {Never}]
    BY <1>0, Zenon DEF VoteTypeOK
  <2>4. items' \in SUBSET Tracks /\ happened' \in SUBSET Tracks  BY <1>0 DEF VoteTypeOK
  <2>5. buttons' \in [Tracks -> Looks] /\ actions' \in [Tracks -> Looks]
    BY <1>0, Zenon DEF VoteTypeOK
  <2>6. voteVersion' \in 0 .. time'  BY Zenon
  <2> QED  BY <2>1, <2>2, <2>3, <2>4, <2>5, <2>6, Zenon DEF VoteTypeOK
<1>3. Linked' /\ Stamped' /\ Rising'  BY <1>1 DEF Linked, Stamped, Rising
<1>4. VotesTold' /\ StatusFirst' /\ Awaited'  BY <1>1 DEF VotesTold, StatusFirst, Awaited
<1>5. ButtonsRight' /\ NothingShown'  BY <1>0 DEF ButtonsRight, Right, NothingShown, Bare
<1>6. ASSUME Follows' PROVE ~missed /\ ~Updating /\ voteVersion' = voteVersion
  <2>1. wire' \in Seq(Commands) /\ back' \in Seq(Messages)  BY <1>2 DEF VoteTypeOK
  <2>2. ~Updating'  BY <1>1, <2>1, UpdatingThen DEF Asked, Has
  <2> QED  BY <1>6, <2>2 DEF Follows
<1>7. VotesKnown'  BY <1>0, <1>6 DEF VotesKnown, Follows
<1>8. VotesCopied'
  <2> SUFFICES ASSUME Follows', NEW m \in Newest(back', "user", user')
               PROVE  known.votes + time <= m.at + voteVersion
    BY <1>6 DEF VotesCopied
  <2>1. m = user  BY <1>1 DEF Newest, LastOf
  <2>2. wire \in Seq(Commands) /\ back \in Seq(Messages)  BY <1>0 DEF VoteTypeOK
  <2>3. ~Asked(wire, "user") /\ ~Has(back, "user")  BY <1>6, <2>2, UpdatingIs
  <2>4. user \in Newest(back, "user", user)  BY <2>3 DEF Newest
  <2> QED  BY <1>0, <1>6, <2>1, <2>3, <2>4 DEF VotesCopied, Follows
<1> QED  BY <1>2, <1>3, <1>4, <1>5, <1>7, <1>8 DEF VoteInv

LEMMA BreakKeeps == ASSUME VoteInv, Break PROVE VoteInv'
<1>1. VoteTypeOK  BY DEF VoteInv
<1>2. /\ Breaks /\ connected' = connected
      /\ queued' = queued /\ mine' = mine /\ due' = due /\ time' = time
      /\ version' = version /\ voteVersion' = voteVersion /\ told' = told
      /\ known' = known /\ user' = user /\ items' = items /\ happened' = happened
      /\ buttons' = buttons /\ actions' = actions /\ missed' = (missed \/ Updating)
  BY DEF Break, dogVars
<1>3. Updating \in BOOLEAN  BY DEF Updating
<1>4. version' \in Nat /\ voteVersion' \in 0 .. time /\ due' \in BOOLEAN  BY <1>1, <1>2 DEF VoteTypeOK
<1>5. missed' \in BOOLEAN  BY <1>1, <1>2, <1>3, Zenon DEF VoteTypeOK
<1>6. ~missed' => ~missed /\ ~Updating  BY <1>2, Zenon
<1> QED  BY <1>2, <1>4, <1>5, <1>6, CutKeeps, Zenon

LEMMA RestartKeeps == ASSUME VoteInv, Restart PROVE VoteInv'
<1>1. /\ Breaks /\ connected' = connected
      /\ queued' = queued /\ mine' = mine /\ time' = time /\ told' = told
      /\ version' = 0 /\ voteVersion' = 0 /\ due' = FALSE /\ missed' = TRUE
      /\ known' = known /\ user' = user /\ items' = items /\ happened' = happened
      /\ buttons' = buttons /\ actions' = actions
  BY DEF Restart
<1>2. time \in Nat  BY VotingTypes DEF VoteInv
<1>3. version' \in Nat /\ voteVersion' \in 0 .. time /\ due' \in BOOLEAN /\ missed' \in BOOLEAN
  <2>1. 0 \in Nat /\ 0 \in 0 .. time /\ FALSE \in BOOLEAN /\ TRUE \in BOOLEAN  BY <1>2
  <2> QED  BY <1>1, <2>1, Zenon
<1>4. ~missed' => ~missed /\ ~Updating /\ voteVersion' = voteVersion  BY <1>1, Zenon
<1> QED  BY <1>1, <1>3, <1>4, CutKeeps

-------------------------------------------------------------------------------
(* The copies of the listener's votes *)

\* None is newer than the dog's versions, and one that belongs to the newest is right
\* unless votes were given back since without being counted.
Copy(m) == m.at <= time /\ (m.at = time /\ ~quietly => m.of = mine)
Copies ==
    /\ Copy(user)
    /\ \A i \in DOMAIN back : back[i].type = "user" => Copy(back[i])

LEMMA DogKeepsCopies ==
    ASSUME VoteInv, Copies, NEW s, DogStep(s) PROVE Copies'
<1>1. PICK n \in Nat : time' = time + n  BY DogMoves
<1>2. /\ time \in Nat /\ user.at \in Int /\ user' = user
      /\ time' = time /\ ~quietly' => ~quietly /\ mine' = mine
  BY VotingTypes, DogMoves DEF VoteInv, DogStep, Says, pageVars
<1>3. \A i \in DOMAIN back : back[i].type = "user" => back[i].at \in Nat
  <2> SUFFICES ASSUME NEW i \in DOMAIN back, back[i].type = "user" PROVE back[i].at \in Nat
    OBVIOUS
  <2>1. back[i] \in Messages  BY VotingTypes DEF VoteInv
  <2> QED  BY <2>1, MessageFields
<1>4. ASSUME NEW m, m.at \in Int, Copy(m)
      PROVE  m.at <= time' /\ (m.at = time' /\ ~quietly' => m.of = mine')
  <2>1. m.at <= time' /\ (m.at = time' => time' = time)  BY <1>1, <1>2, <1>4 DEF Copy
  <2> QED  BY <1>2, <1>4, <2>1 DEF Copy
<1>5. ASSUME NEW i \in DOMAIN back', back'[i].type = "user"
      PROVE  /\ back'[i].at <= time'
             /\ back'[i].at = time' /\ ~quietly' => back'[i].of = mine'
  <2>1. CASE i \in DOMAIN back
    <3>1. back'[i] = back[i]  BY <2>1, DogMoves
    <3>2. back[i].at \in Int /\ Copy(back[i])  BY <1>3, <1>5, <2>1, <3>1 DEF Copies
    <3> QED  BY <1>4, <3>1, <3>2
  <2>2. CASE i \notin DOMAIN back
    <3>1. PICK k \in DOMAIN s : back'[i] = s[k]  BY <2>2, DogMoves
    <3>2. ~Carries(s[k])  BY <1>5, <3>1 DEF Carries
    <3>3. k = 1 /\ (s[1].type = "user" => s[1].at = time' /\ s[1].of = mine')
      BY <3>2 DEF DogStep, Serves, Pushes
    <3> QED  BY <1>1, <1>2, <1>5, <3>1, <3>3
  <2> QED  BY <2>1, <2>2
<1>6. user'.at <= time' /\ (user'.at = time' /\ ~quietly' => user'.of = mine')
  BY <1>2, <1>4 DEF Copies
<1> QED  BY <1>5, <1>6 DEF Copies, Copy

\* A step that leaves the dog alone, and brings no new copy.
LEMMA CopiesStay ==
    ASSUME Copies, time' = time, quietly' = quietly, mine' = mine,
           user' = user \/ (\E i \in DOMAIN back : back[i].type = "user"
                              /\ user'.at = back[i].at /\ user'.of = back[i].of),
           \A i \in DOMAIN back' : \E j \in DOMAIN back : back'[i] = back[j]
    PROVE  Copies'
<1>1. user'.at <= time' /\ (user'.at = time' /\ ~quietly' => user'.of = mine')
  BY DEF Copies, Copy
<1>2. ASSUME NEW i \in DOMAIN back', back'[i].type = "user"
      PROVE  /\ back'[i].at <= time'
             /\ back'[i].at = time' /\ ~quietly' => back'[i].of = mine'
  <2>1. PICK j \in DOMAIN back : back'[i] = back[j]  OBVIOUS
  <2> QED  BY <1>2, <2>1 DEF Copies, Copy
<1> QED  BY <1>1, <1>2 DEF Copies, Copy

LEMMA ReadKeepsCopies ==
    ASSUME VoteInv, Copies, NEW then \in Seq(Commands), NEW type, Read(type, then),
           user' = user \/ (type = "user" /\ user'.at = Head(back).at /\ user'.of = Head(back).of)
    PROVE  Copies'
<1>1. Reads(then) /\ Head(back).type = type  BY ReadOf
<1>2. /\ 1 \in DOMAIN back /\ back[1] = Head(back)
      /\ \A i \in DOMAIN back' : i + 1 \in DOMAIN back /\ back'[i] = back[i + 1]
  BY <1>1, ReadMoves
<1>3. time' = time /\ quietly' = quietly /\ mine' = mine  BY <1>1 DEF Reads, dogVars
<1>4. user' = user \/ (\E i \in DOMAIN back : back[i].type = "user"
                         /\ user'.at = back[i].at /\ user'.of = back[i].of)
  BY <1>1, <1>2
<1>5. \A i \in DOMAIN back' : \E j \in DOMAIN back : back'[i] = back[j]  BY <1>2
<1> QED  BY <1>3, <1>4, <1>5, CopiesStay

LEMMA NextCopies == VoteInv /\ Copies /\ [Next]_vars => Copies'
<1> SUFFICES ASSUME VoteInv, Copies, [Next]_vars PROVE Copies'  OBVIOUS
<1>1. CASE Serve \/ Elsewhere \/ EndOfStream
  <2>1. PICK s : DogStep(s)  BY <1>1, DogSays
  <2> QED  BY <2>1, DogKeepsCopies
<1>2. ASSUME time' = time, quietly' = quietly, mine' = mine, user' = user,
             back' = back \/ back' = <<>>
      PROVE  Copies'
  <2>1. \A i \in DOMAIN back' : \E j \in DOMAIN back : back'[i] = back[j]  BY <1>2
  <2> QED  BY <1>2, <2>1, CopiesStay
<1>3. CASE Restart  BY <1>2, <1>3 DEF Restart, Breaks
<1>4. CASE Break  BY <1>2, <1>4 DEF Break, Breaks, dogVars
<1>5. CASE Connect  BY <1>2, <1>5 DEF Connect, Opens, dogVars, pageVars
<1>6. CASE Notice  BY <1>2, <1>6 DEF Notice, dogVars
<1>7. CASE Click  BY <1>2, <1>7 DEF Click, dogVars
<1>8. CASE UNCHANGED vars  BY <1>2, <1>8 DEF vars, socketVars, dogVars, pageVars
<1>9. <<>> \in Seq(Commands) /\ <<Ask("status")>> \in Seq(Commands)  BY DEF Commands, Ask
<1>10. CASE HandleStatus
  <2>0. PICK then : then = Fetches(Head(back).version, Head(back).votes)  OBVIOUS
  <2>1. then \in Seq(Commands) /\ Read("status", then)
    BY <1>10, <2>0, FetchesOf DEF HandleStatus
  <2>2. user' = user  BY <1>10 DEF HandleStatus
  <2> QED  BY <2>1, <2>2, ReadKeepsCopies
<1>11. CASE HandleVotes
  <2>0. PICK then : then = Fetches(known.version, Head(back).votes)  OBVIOUS
  <2>1. then \in Seq(Commands) /\ Read("votes", then)
    BY <1>11, <2>0, FetchesOf DEF HandleVotes
  <2>2. user' = user  BY <1>11 DEF HandleVotes
  <2> QED  BY <2>1, <2>2, ReadKeepsCopies
<1>12. CASE DrawQueue  BY <1>9, <1>12, ReadKeepsCopies DEF DrawQueue
<1>13. CASE DrawActivity  BY <1>9, <1>13, ReadKeepsCopies DEF DrawActivity
<1>14. CASE SetUser
  <2>1. user'.at = Head(back).at /\ user'.of = Head(back).of  BY <1>14 DEF SetUser
  <2>2. Read("user", <<>>)  BY <1>14 DEF SetUser
  <2> QED  BY <1>9, <2>1, <2>2, ReadKeepsCopies
<1>15. CASE Callback
  <2>1. Read("done", <<Ask("status")>>) /\ user' = user  BY <1>15 DEF Callback, pageVars
  <2> QED  BY <1>9, <2>1, ReadKeepsCopies
<1> QED  BY <1>1, <1>3, <1>4, <1>5, <1>6, <1>7, <1>8, <1>10, <1>11, <1>12, <1>13, <1>14, <1>15
         DEF Next

-------------------------------------------------------------------------------
(* The theorems *)

LEMMA InitVote == Init => VoteInv
<1> SUFFICES ASSUME Init PROVE VoteInv  OBVIOUS
<1>1. /\ connected = FALSE /\ link = FALSE /\ wire = <<>> /\ back = <<>>
      /\ queued \in SUBSET Tracks /\ mine \in SUBSET queued
      /\ time = 0 /\ version = 0 /\ voteVersion = 0 /\ due = FALSE /\ told = 0
      /\ known = [version |-> Never, votes |-> Never] /\ user = [of |-> {}, at |-> Never]
      /\ items = {} /\ happened = {} /\ missed = FALSE
      /\ buttons = Buttons({}, {}) /\ actions = Buttons({}, {})
  BY DEF Init, SocketInit
<1>2. DOMAIN wire = {} /\ DOMAIN back = {} /\ wire \in Seq(Commands) /\ back \in Seq(Messages)
  BY <1>1
<1>3. VoteTypeOK
  <2>1. buttons \in [Tracks -> Looks] /\ actions \in [Tracks -> Looks]  BY <1>1, Drawn
  <2>2. /\ known \in [version : Nat \cup {Never}, votes : Nat \cup {Never}]
        /\ user \in [of : SUBSET Tracks, at : Nat \cup {Never}]
    BY <1>1
  <2>3. /\ connected \in BOOLEAN /\ link \in BOOLEAN /\ due \in BOOLEAN /\ missed \in BOOLEAN
        /\ queued \in SUBSET Tracks /\ mine \in SUBSET Tracks
        /\ items \in SUBSET Tracks /\ happened \in SUBSET Tracks
    BY <1>1
  <2>4. time \in Nat /\ version \in Nat /\ voteVersion \in 0 .. time /\ told \in 0 .. time  BY <1>1
  <2> QED  BY <1>2, <2>1, <2>2, <2>3, <2>4, Zenon DEF VoteTypeOK
<1>4. Linked /\ Stamped /\ Rising  BY <1>1, <1>2 DEF Linked, Stamped, Rising
<1>5. VotesTold /\ StatusFirst /\ Awaited  BY <1>1 DEF VotesTold, StatusFirst, Awaited
<1>6. VotesKnown  BY <1>1 DEF VotesKnown, Never
<1>7. VotesCopied
  <2>1. \A m \in Newest(back, "user", user) : m = user  BY <1>2 DEF Newest, LastOf
  <2> QED  BY <1>1, <2>1 DEF VotesCopied, Never
<1>8. \A t \in Tracks : buttons[t] = "none" /\ actions[t] = "none"
  <2>1. \A t \in Tracks : Buttons({}, {})[t] = "none"  BY DEF Buttons
  <2> QED  BY <1>1, <2>1
<1>9. ButtonsRight /\ NothingShown  BY <1>8 DEF ButtonsRight, NothingShown, Bare
<1> QED  BY <1>3, <1>4, <1>5, <1>6, <1>7, <1>9 DEF VoteInv

LEMMA StutterKeeps == ASSUME VoteInv, UNCHANGED vars PROVE VoteInv'
<1>1. /\ connected' = connected /\ link' = link /\ wire' = wire /\ back' = back
      /\ queued' = queued /\ mine' = mine /\ due' = due /\ time' = time
      /\ version' = version /\ voteVersion' = voteVersion /\ told' = told
      /\ known' = known /\ user' = user /\ items' = items /\ happened' = happened
      /\ buttons' = buttons /\ actions' = actions /\ missed' = missed
  BY DEF vars, socketVars, dogVars, pageVars
<1>2. VoteTypeOK' /\ Linked' /\ Stamped' /\ Rising'
  BY <1>1 DEF VoteInv, VoteTypeOK, Linked, Stamped, Rising, Carries
<1>3. VotesTold'  BY <1>1 DEF VoteInv, VotesTold, Informs, Carried, Carries
<1>4. Follows' => Follows  BY <1>1 DEF Follows, Updating
<1>5. VotesKnown' /\ VotesCopied'  BY <1>1, <1>4 DEF VoteInv, VotesKnown, VotesCopied
<1>6. ButtonsRight' /\ NothingShown'
  BY <1>1 DEF VoteInv, ButtonsRight, Right, NothingShown, Bare
<1>7. StatusFirst' /\ Awaited'
  BY <1>1 DEF VoteInv, StatusFirst, Bare, Has, Carries, Awaited, Waits, Asked, Renews
<1> QED  BY <1>2, <1>3, <1>5, <1>6, <1>7 DEF VoteInv

LEMMA NextVote == VoteInv /\ [Next]_vars => VoteInv'
<1> SUFFICES ASSUME VoteInv, [Next]_vars PROVE VoteInv'  OBVIOUS
<1>1. CASE Serve \/ Elsewhere \/ EndOfStream  BY <1>1, DogKeepsInv
<1>2. CASE Restart  BY <1>2, RestartKeeps
<1>3. CASE Break  BY <1>3, BreakKeeps
<1>4. CASE Connect  BY <1>4, ConnectKeeps
<1>5. CASE Notice  BY <1>5, NoticeKeeps
<1>6. CASE HandleStatus  BY <1>6, StatusKeeps
<1>7. CASE HandleVotes  BY <1>7, VotesKeep
<1>8. CASE DrawQueue  BY <1>8, DrawQueueKeeps
<1>9. CASE DrawActivity  BY <1>9, DrawActivityKeeps
<1>10. CASE SetUser  BY <1>10, SetUserKeeps
<1>11. CASE Callback  BY <1>11, CallbackKeeps
<1>12. CASE Click  BY <1>12, ClickKeeps
<1>13. CASE UNCHANGED vars  BY <1>13, StutterKeeps
<1> QED  BY <1>1, <1>2, <1>3, <1>4, <1>5, <1>6, <1>7, <1>8, <1>9, <1>10, <1>11, <1>12, <1>13
         DEF Next

\* What the page knows of the votes, and what its buttons wait for, is never wrong
\* without something on its way that will put it right (Dogvibes.handleStatus,
\* User.update, voteButton and the callback of a vote).
THEOREM VotePageInvariance == Spec => [](VoteInv /\ Copies)
<1>1. Init => VoteInv /\ Copies
  <2>1. Init => Copies
    <3> SUFFICES ASSUME Init PROVE Copies  OBVIOUS
    <3>1. time = 0 /\ user = [of |-> {}, at |-> -1] /\ back = <<>>
      BY DEF Init, SocketInit, Never
    <3>2. user.at = -1 /\ DOMAIN back = {}  BY <3>1
    <3>3. user.at <= time /\ user.at # time  BY <3>1, <3>2
    <3> QED  BY <3>2, <3>3 DEF Copies, Copy
  <2> QED  BY <2>1, InitVote
<1>2. VoteInv /\ Copies /\ [Next]_vars => (VoteInv /\ Copies)'  BY NextVote, NextCopies
<1> QED  BY <1>1, <1>2, PTL DEF Spec

\* Once the page and the dog have told each other everything, and since User.update was
\* last answered no answer to it was lost and the dog was not started again, the page's
\* votes are not older than the last vote_version that was pushed.  If vote_version was
\* not counted up since and no vote was given back without counting, they are the
\* listener's: User.update on Status.activity is enough for what vote_version counts.
THEOREM VotesAreFresh == Spec => []UserFresh
<1>1. VoteInv /\ Copies => UserFresh
  <2> SUFFICES ASSUME VoteInv, Copies, AllSaid, ~missed
               PROVE  user.at >= told /\ (told = time /\ ~quietly => user.of = mine)
    BY DEF UserFresh
  <2>1. /\ VotesTold /\ VotesCopied
        /\ time \in Nat /\ told \in Nat /\ voteVersion \in Nat /\ known.votes \in Int /\ user.at \in Int
    BY VotingTypes DEF VoteInv
  <2>2. link /\ DOMAIN wire = {} /\ DOMAIN back = {} /\ back = <<>>  BY DEF AllSaid
  <2>3. told + voteVersion <= known.votes + time
    BY <2>1, <2>2 DEF VotesTold, Informs, Asked
  <2>4. user \in Newest(back, "user", user)  BY <2>2, NewestThere
  <2>5. known.votes + time <= user.at + voteVersion
    BY <2>1, <2>2, <2>4 DEF VotesCopied, Follows, Asked
  <2>6. user.at >= told  BY <2>1, <2>3, <2>5
  <2>7. user.at <= time /\ (user.at = time /\ ~quietly => user.of = mine)
    BY DEF Copies, Copy
  <2> QED  BY <2>1, <2>6, <2>7
<1> QED  BY <1>1, VotePageInvariance, PTL

\* Once they have, no button of the queue is dead, whatever was clicked, answered or
\* lost before, and every button is for what the page knows of the votes (voteButton,
\* whose click kills the button until the list is drawn again).
THEOREM ButtonsAlive == Spec => []ButtonsLive
<1>1. VoteInv => ButtonsLive
  <2> SUFFICES ASSUME VoteInv, AllSaid, NEW t \in Tracks
               PROVE  buttons[t] \in {"none", Right(t)} /\ actions[t] \in {"none", Right(t), "voting"}
    BY DEF ButtonsLive, Right
  <2>1. Awaited /\ ButtonsRight  BY DEF VoteInv
  <2>2. link /\ DOMAIN wire = {} /\ DOMAIN back = {}  BY DEF AllSaid
  <2>3. ~Waits  BY <2>1, <2>2 DEF Awaited, Asked, Has, Renews
  <2> QED  BY <2>1, <2>3 DEF ButtonsRight, Waits
<1> QED  BY <1>1, VotePageInvariance, PTL

===============================================================================
