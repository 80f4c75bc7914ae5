-------------------------- MODULE PlaylistPageProofs --------------------------
(***************************************************************************)
(* Theorems about PlaylistPage, for any playlists: the variables have      *)
(* their types, and when everything was said the page shows every change   *)
(* of the version that the dog has pushed a status of, and its own moves.  *)
(*                                                                         *)
(* Freshness is about what is not said yet: a copy that is not current is  *)
(* fetched again by a command on its way or by a status on its way, and    *)
(* the newest answer on its way counts as the copy.  While a connection    *)
(* lasts, time and version of the dog grow together, so their difference   *)
(* tells whether the version that the page knows is that of its copies;    *)
(* after a restart of the dog it is the first status that the page asks    *)
(* for which makes it fetch them.                                          *)
(***************************************************************************)
EXTENDS PlaylistPage, PageSocketProofs

-------------------------------------------------------------------------------
(* What is on its way *)

\* A status that makes a page that knows version v fetch its copies again.
Renews(b, v) == \E i \in DOMAIN b : b[i].type = "status" /\ b[i].version # v

\* An answer that makes the page fetch the rows that it shows.
Recalls(b) == \E i \in DOMAIN b : b[i].type = "done" /\ b[i].callback = "setPage"

Callbacks == {"getStatus", "fetchAll", "setPage"}
Commands == {c \in [ask : {"status", "queue", "lists", "tracks", "edit", "move", "create", "remove"},
                    list : Lists \cup {Queue, None}, callback : Callbacks] :
                c.ask = "move" => c.callback = "setPage"}
Messages == [type : {"status"}, version : Nat, at : Nat]
            \cup [type : {"queue"}, at : Nat]
            \cup [type : {"lists"}, at : Nat, lists : SUBSET Lists]
            \cup [type : {"tracks"}, at : Nat, moved : Nat, of : Lists]
            \cup [type : {"error"}]
            \cup [type : {"done"}, callback : Callbacks]

-------------------------------------------------------------------------------
(* The inductive invariant *)

\* A status is of this run of the dog, and no copy is from the future.
Stamped ==
    /\ \A i \in DOMAIN back :
          /\ back[i].type = "status" => back[i].version <= version
          /\ back[i].type = "lists" => back[i].at <= time
    /\ nav.at <= time

\* A version that this run of the dog has not come to is soon replaced: what the page
\* asks for first is the status.
Replaced ==
    link /\ known > version => Has(back, "status") \/ (wire # <<>> /\ Head(wire).ask = "status")

\* A copy taken at that time is not older than the last push, nor than the version that
\* the page knows, when that is one of this run of the dog.
Current(at) == told <= at /\ known + time - version <= at

\* What the page has when all was read is current, unless it will be fetched again.
NavCurrent ==
    link =>
      \/ Asked(wire, "lists") \/ Renews(back, known)
      \/ \A m \in Newest(back, "lists", nav) : Current(m.at) /\ m.lists \subseteq lists

QueueCurrent ==
    link /\ page = Queue =>
      \/ Asked(wire, "queue") \/ Renews(back, known)
      \/ \A m \in Newest(back, "queue", [at |-> queue]) : Current(m.at)

\* The rows asked for last are those of the page.
RowsOfPage ==
    link /\ page \in Lists /\ Asked(wire, "tracks") =>
        selected = page /\ \A i \in DOMAIN wire : LastAsked(wire, "tracks", i) => wire[i].list = page

TableCurrent ==
    link /\ page \in nav.lists =>
      \/ Asked(wire, "lists") \/ Renews(back, known) \/ Has(back, "lists") \/ Asked(wire, "tracks")
      \/ Recalls(back)
      \/ /\ selected = page
         /\ \A m \in Newest(back, "tracks", table) :
               m.of = page /\ Current(m.at) /\ m.moved = moved

PageInv ==
    /\ PageTypeOK /\ wire \in Seq(Commands) /\ back \in Seq(Messages)
    /\ Stamped /\ Linked /\ Replaced
    /\ NavCurrent /\ QueueCurrent /\ RowsOfPage /\ TableCurrent

-------------------------------------------------------------------------------
(* A status on its way *)

\* A status that renews the copies stays on its way, whatever is said after it.
LEMMA RenewsMore ==
    ASSUME NEW S, NEW b \in Seq(S), NEW s \in Seq(S), NEW v
    PROVE  Renews(b \o s, v) <=> Renews(b, v) \/ Renews(s, v)
<1>1. Renews(b \o s, v) => Renews(b, v) \/ Renews(s, v)  BY Joined DEF Renews
<1>2. Renews(b, v) => Renews(b \o s, v)
  <2>1. \A i \in DOMAIN b : i \in DOMAIN (b \o s)  BY Joined
  <2> QED  BY <2>1, Joined DEF Renews
<1>3. Renews(s, v) => Renews(b \o s, v)
  <2>1. \A i \in DOMAIN s : Len(b) + i \in DOMAIN (b \o s)  BY Joined
  <2> QED  BY <2>1, Joined DEF Renews
<1> QED  BY <1>1, <1>2, <1>3

LEMMA RecallsMore ==
    ASSUME NEW S, NEW b \in Seq(S), NEW s \in Seq(S)
    PROVE  Recalls(b \o s) <=> Recalls(b) \/ Recalls(s)
<1>1. Recalls(b \o s) => Recalls(b) \/ Recalls(s)  BY Joined DEF Recalls
<1>2. Recalls(b) => Recalls(b \o s)
  <2>1. \A i \in DOMAIN b : i \in DOMAIN (b \o s)  BY Joined
  <2> QED  BY <2>1, Joined DEF Recalls
<1>3. Recalls(s) => Recalls(b \o s)
  <2>1. \A i \in DOMAIN s : Len(b) + i \in DOMAIN (b \o s)  BY Joined
  <2> QED  BY <2>1, Joined DEF Recalls
<1> QED  BY <1>1, <1>2, <1>3

\* Reading a message that does not recall the rows.
LEMMA RecallsRest ==
    ASSUME NEW S, NEW b \in Seq(S), b # <<>>, Recalls(b),
           ~(Head(b).type = "done" /\ Head(b).callback = "setPage")
    PROVE  Recalls(Tail(b))
<1>1. PICK i \in DOMAIN b : b[i].type = "done" /\ b[i].callback = "setPage"  BY DEF Recalls
<1>2. i - 1 \in DOMAIN Tail(b) /\ Tail(b)[i - 1] = b[i]  BY <1>1, Beheaded
<1> QED  BY <1>1, <1>2 DEF Recalls

-------------------------------------------------------------------------------
(* The types of what is on its way *)

\* What a message holds.
LEMMA MessageFields ==
    ASSUME NEW m \in Messages
    PROVE  /\ m.type \in {"status", "queue", "lists", "tracks", "error", "done"}
           /\ m.type = "status" => m.version \in Nat /\ m.at \in Nat
           /\ m.type = "queue" => m.at \in Nat
           /\ m.type = "lists" => m.at \in Nat /\ m.lists \subseteq Lists
           /\ m.type = "tracks" => m.at \in Nat /\ m.moved \in Nat /\ m.of \in Lists
           /\ m.type = "done" => m.callback \in Callbacks
  BY DEF Messages

\* What the page sends when it shows a page, and when it asks for anything else.
LEMMA SetPageSends ==
    ASSUME NEW p \in Pages
    PROVE  /\ SetPage(p) \in Seq(Commands) /\ FetchQueue(p) \in Seq(Commands)
           /\ FetchAll \in Seq(Commands)
<1>1. \A l \in Lists \cup {Queue, None}, a \in {"queue", "lists", "tracks"} : Ask(a, l) \in Commands
  BY DEF Ask, Commands, Callbacks
<1> QED  BY <1>1 DEF SetPage, FetchQueue, FetchAll, Pages

\* What is asked for by these.
LEMMA SetPageAsks ==
    ASSUME NEW p \in Pages, NEW ask
    PROVE  /\ Asked(SetPage(p), ask) <=> p \in Lists /\ ask = "tracks"
           /\ Asked(FetchQueue(p), ask) <=> p = Queue /\ ask = "queue"
           /\ Asked(FetchAll, ask) <=> ask = "lists"
<1>1. \A c : Asked(<<c>>, ask) <=> c.ask = ask  BY DEF Asked
<1>2. ~Asked(<<>>, ask)  BY DEF Asked
<1>3. \A a, l : Ask(a, l).ask = a  BY DEF Ask
<1> QED  BY <1>1, <1>2, <1>3 DEF SetPage, FetchQueue, FetchAll

-------------------------------------------------------------------------------
(* The dog *)

\* What a command does to the playlists and the version, and what it pushes.
LEMMA EffectOf ==
    ASSUME PageTypeOK, NEW ask, NEW l, NEW e \in Effects(ask, l)
    PROVE  /\ e.lists \subseteq Lists /\ e.ticks \in {0, 1} /\ e.pushes \in BOOLEAN
           /\ lists \subseteq e.lists \/ (e.ticks = 1 /\ e.pushes)
<1> DEFINE raises == {Effect(lists, t, FALSE) : t \in {0, 1}}
<1>1. ask \in {"status", "queue", "lists", "tracks"} => Effects(ask, l) = {Effect(lists, 0, FALSE)}
  BY DEF Effects
<1>2. ask = "create" => Effects(ask, l) = {Effect(lists \cup {n}, 0, FALSE) : n \in Lists \ lists}
  BY DEF Effects
<1>3. ask = "next" => Effects(ask, l) = {Effect(lists, 1, FALSE)}
  BY DEF Effects
<1>4. ask = "edit" => Effects(ask, l) = IF l \in lists \cup {Queue} THEN {Effect(lists, 1, TRUE)} ELSE raises
  BY DEF Effects
<1>5. ask = "move" => Effects(ask, l) = IF l \in lists THEN {Effect(lists, 0, TRUE)} ELSE raises
  BY DEF Effects
<1>6. ask = "remove" => Effects(ask, l) = IF l \in lists THEN {Effect(lists \ {l}, 1, TRUE)} ELSE raises
  BY DEF Effects
<1>7. ask \notin {"status", "queue", "lists", "tracks", "create", "next", "edit", "move", "remove"}
      => Effects(ask, l) = raises
  BY DEF Effects
<1>8. \A ls, t, p : Effect(ls, t, p).lists = ls /\ Effect(ls, t, p).ticks = t /\ Effect(ls, t, p).pushes = p
  BY DEF Effect
<1>9. lists \subseteq Lists  BY DEF PageTypeOK
<1>10. \/ \E t \in {0, 1}, p \in BOOLEAN : e = Effect(lists, t, p)
       \/ \E n \in Lists : e = Effect(lists \cup {n}, 0, FALSE)
       \/ e = Effect(lists \ {l}, 1, TRUE)
  BY <1>1, <1>2, <1>3, <1>4, <1>5, <1>6, <1>7
<1> HIDE DEF raises
<1>11. CASE \E t \in {0, 1}, p \in BOOLEAN : e = Effect(lists, t, p)
  BY <1>8, <1>9, <1>11
<1>12. CASE \E n \in Lists : e = Effect(lists \cup {n}, 0, FALSE)
  <2>1. PICK n \in Lists : e = Effect(lists \cup {n}, 0, FALSE)  BY <1>12
  <2>2. e.lists = lists \cup {n} /\ e.ticks = 0 /\ e.pushes = FALSE  BY <2>1 DEF Effect
  <2> QED  BY <1>9, <2>2
<1>13. CASE e = Effect(lists \ {l}, 1, TRUE)
  <2>1. e.lists = lists \ {l} /\ e.ticks = 1 /\ e.pushes = TRUE  BY <1>13 DEF Effect
  <2> QED  BY <1>9, <2>1
<1> QED  BY <1>10, <1>11, <1>12, <1>13

\* What the dog's time, version and last push are after a command, and what it writes
\* to the page: the answer, and a status if it pushes.
Ran(answer) ==
    /\ lists' \subseteq Lists /\ time' \in 0 .. MaxTime /\ version' \in 0 .. time'
    /\ time' - version' = time - version /\ time <= time' /\ version <= version'
    /\ due' = FALSE /\ told' \in 0 .. time'
    /\ \/ told' = time' /\ Tells(answer \o <<Status>>)
       \/ told' = told /\ lists \subseteq lists' /\ Tells(answer \o <<>>)
    /\ lists \subseteq lists' \/ version < version'

LEMMA RunEffect ==
    ASSUME PageTypeOK, NEW ask, NEW l, NEW answer, Run(ask, l, answer)
    PROVE  Ran(answer)
<1>1. PICK e \in Effects(ask, l) :
          /\ time + e.ticks <= MaxTime
          /\ lists' = e.lists /\ time' = time + e.ticks /\ version' = version + e.ticks
          /\ due' = FALSE
          /\ told' = IF e.pushes \/ due THEN time' ELSE told
          /\ Tells(answer \o IF e.pushes \/ due THEN <<Status>> ELSE <<>>)
  BY DEF Run
<1>2. /\ e.lists \subseteq Lists /\ e.ticks \in {0, 1} /\ e.pushes \in BOOLEAN
      /\ lists \subseteq e.lists \/ (e.ticks = 1 /\ e.pushes)
  BY EffectOf
<1>3. MaxTime \in Nat /\ time \in Nat /\ version \in 0 .. time /\ told \in 0 .. time /\ due \in BOOLEAN
  BY PageAssumption DEF PageTypeOK
<1>4. /\ time' \in 0 .. MaxTime /\ version' \in 0 .. time'
      /\ time' - version' = time - version /\ time <= time' /\ version <= version'
      /\ e.ticks = 1 => version < version'
  BY <1>1, <1>2, <1>3
<1>5. told' \in 0 .. time'  BY <1>1, <1>3, <1>4
<1>6. \/ told' = time' /\ Tells(answer \o <<Status>>)
      \/ told' = told /\ lists \subseteq lists' /\ Tells(answer \o <<>>)
  <2>1. CASE e.pushes \/ due  BY <1>1, <2>1
  <2>2. CASE ~(e.pushes \/ due)  BY <1>1, <1>2, <2>2
  <2> QED  BY <2>1, <2>2
<1> QED  BY <1>1, <1>2, <1>4, <1>5, <1>6 DEF Ran

\* The answer to a command is of the kind that was asked for, and is what the dog has.
LEMMA AnswerOf ==
    ASSUME NEW c \in Commands, PageTypeOK, Ran(<<Answer(c)>>)
    PROVE  /\ Answer(c) \in Messages
           /\ Answer(c).type = "status" => Answer(c) = Status
           /\ c.ask = "status" => Answer(c).type = "status"
           /\ (Answer(c).type = "lists") <=> (c.ask = "lists")
           /\ Answer(c).type = "lists" => Answer(c).at = time' /\ Answer(c).lists = lists'
           /\ (Answer(c).type = "queue") <=> (c.ask = "queue")
           /\ Answer(c).type = "queue" => Answer(c).at = time'
           /\ Answer(c).type = "tracks" => /\ c.ask = "tracks" /\ Answer(c).at = time'
                                           /\ Answer(c).moved = moved /\ Answer(c).of = c.list
           /\ c.ask = "tracks" /\ c.list \in lists => Answer(c).type = "tracks"
           /\ c.ask = "move" => Answer(c).type = "done" /\ Answer(c).callback = "setPage"
<1>0. /\ c.ask \in {"status", "queue", "lists", "tracks", "edit", "move", "create", "remove"}
      /\ c.callback \in Callbacks /\ lists \subseteq Lists /\ moved \in Nat
      /\ c.ask = "move" => c.callback = "setPage"
  BY DEF Commands, PageTypeOK
<1>1. time' \in Nat /\ version' \in Nat /\ lists' \subseteq Lists  BY PageAssumption DEF Ran
<1>2. CASE c.ask = "status"
  BY <1>1, <1>2 DEF Answer, Status, Messages
<1>3. CASE c.ask = "queue"
  BY <1>1, <1>3 DEF Answer, Messages
<1>4. CASE c.ask = "lists"
  BY <1>1, <1>4 DEF Answer, Messages
<1>5. CASE c.ask = "tracks" /\ c.list \in lists
  <2>1. Answer(c) = [type |-> "tracks", at |-> time', moved |-> moved, of |-> c.list]
    BY <1>5 DEF Answer
  <2>2. c.list \in Lists  BY <1>0, <1>5
  <2>3. Answer(c) \in Messages  BY <1>0, <1>1, <2>1, <2>2 DEF Messages
  <2>4. /\ Answer(c).type = "tracks" /\ Answer(c).at = time'
        /\ Answer(c).moved = moved /\ Answer(c).of = c.list
    BY <2>1
  <2> QED  BY <1>5, <2>3, <2>4
<1>6. CASE c.ask = "tracks" /\ c.list \notin lists
  BY <1>6 DEF Answer, Messages
<1>7. CASE c.ask \notin {"status", "queue", "lists", "tracks"}
  BY <1>0, <1>7 DEF Answer, Messages
<1> QED  BY <1>2, <1>3, <1>4, <1>5, <1>6, <1>7
\* A command of this page is run, or one of another client.
Served ==
    /\ wire # <<>> /\ wire' = Tail(wire) /\ Ran(<<Answer(Head(wire))>>)
    /\ moved' \in Nat /\ (Head(wire).ask # "move" => moved' = moved)
Heard == wire' = wire /\ Ran(<<>>) /\ moved' = moved
DogStep == (Served \/ Heard) /\ UNCHANGED <<connected, link, pageVars>>

\* s is what the dog writes to the page in such a step.
Says(s) ==
    /\ s \in Seq(Messages) /\ back' = back \o s
    /\ \A k \in DOMAIN s : s[k] = Status \/ (Served /\ s[k] = Answer(Head(wire)))
    /\ Served => \E k \in DOMAIN s : s[k] = Answer(Head(wire))
    /\ \/ told' = time' /\ \E k \in DOMAIN s : s[k] = Status
       \/ told' = told /\ lists \subseteq lists'

LEMMA DogSays ==
    ASSUME PageInv, link, DogStep
    PROVE  \E s : Says(s)
<1>1. time' \in Nat /\ version' \in Nat  BY PageAssumption DEF DogStep, Served, Heard, Ran
<1>2. Status \in Messages  BY <1>1 DEF Status, Messages
<1>3. CASE Served
  <2>1. Head(wire) \in Commands  BY <1>3, HeadTailProperties DEF PageInv, Served
  <2>2. Answer(Head(wire)) \in Messages  BY <1>3, <2>1, AnswerOf DEF PageInv, Served
  <2>3. CASE told' = time' /\ Tells(<<Answer(Head(wire))>> \o <<Status>>)
    <3>1. Says(<<Answer(Head(wire)), Status>>)
      BY <1>2, <1>3, <2>2, <2>3 DEF Says, Tells
    <3> QED  BY <3>1
  <2>4. CASE told' = told /\ lists \subseteq lists' /\ Tells(<<Answer(Head(wire))>> \o <<>>)
    <3>1. Says(<<Answer(Head(wire))>>)
      BY <1>2, <1>3, <2>2, <2>4 DEF Says, Tells
    <3> QED  BY <3>1
  <2> QED  BY <1>3, <2>3, <2>4 DEF Served, Ran
<1>4. CASE ~Served
  <2>1. Heard  BY <1>4 DEF DogStep
  <2>2. CASE told' = time' /\ Tells(<<>> \o <<Status>>)
    <3>1. Says(<<Status>>)
      BY <1>2, <1>4, <2>2 DEF Says, Tells
    <3> QED  BY <3>1
  <2>3. CASE told' = told /\ lists \subseteq lists' /\ Tells(<<>> \o <<>>)
    <3>1. Says(<<>>)
      BY <1>4, <2>3 DEF Says, Tells
    <3> QED  BY <3>1
  <2> QED  BY <2>1, <2>2, <2>3 DEF Heard, Ran
<1> QED  BY <1>3, <1>4

\* The version v that the dog counts keeps its distance to the time t.
LEMMA InStep ==
    ASSUME NEW t \in Int, NEW t1 \in Int, NEW v \in Int, NEW v1 \in Int, NEW k \in Int, NEW at \in Int,
           t1 - v1 = t - v, k + t - v <= at
    PROVE  k + t1 - v1 <= at /\ (v1 = k => t1 <= at)
  OBVIOUS

\* While no status that renews the copies is on its way, copies that are current stay
\* so, playlists do not go, and what is asked for next is of the version known.
LEMMA StillCurrent ==
    ASSUME PageInv, link, DogStep, NEW s, Says(s), ~Renews(back', known)
    PROVE  /\ ~Renews(back, known)
           /\ \A at \in Int : Current(at) => told' <= at /\ known + time' - version' <= at
           /\ \A at \in Int : Current(at) /\ at <= time => lists \subseteq lists'
           /\ known <= version' \/ (wire # <<>> /\ Head(wire).ask = "status")
<1>1. /\ time \in Int /\ version \in Int /\ told \in Int /\ known \in Int
      /\ time' \in Int /\ version' \in Int /\ told' \in Int
      /\ time' - version' = time - version /\ version <= version' /\ told' <= time'
      /\ lists \subseteq lists' \/ version < version'
  BY PageAssumption DEF PageInv, PageTypeOK, DogStep, Served, Heard, Ran, Never
<1>2. s \in Seq(Messages) /\ back' = back \o s /\ back \in Seq(Messages)  BY DEF Says, PageInv
<1>3. ~Renews(back, known) /\ ~Renews(s, known)  BY <1>2, RenewsMore
<1>4. (\E k \in DOMAIN s : s[k] = Status) => version' = known
  <2>1. Status.type = "status" /\ Status.version = version'  BY DEF Status
  <2> QED  BY <1>3, <2>1 DEF Renews
<1>5. \/ told' = time' /\ version' = known
      \/ told' = told /\ lists \subseteq lists'
  BY <1>4 DEF Says
<1>6. ASSUME NEW at \in Int, Current(at) PROVE told' <= at /\ known + time' - version' <= at
  <2>1. told <= at /\ known + time - version <= at  BY <1>6 DEF Current
  <2>2. known + time' - version' <= at /\ (version' = known => time' <= at)
    <3>1. \A t1, v1 \in Int : t1 - v1 = time - version =>
             known + t1 - v1 <= at /\ (v1 = known => t1 <= at)
      BY <1>1, <2>1, InStep
    <3> QED  BY <1>1, <3>1, Zenon
  <2> QED  BY <1>5, <2>1, <2>2
<1>7. ASSUME NEW at \in Int, Current(at), at <= time PROVE lists \subseteq lists'
  BY <1>1, <1>5, <1>7 DEF Current
<1>8. ASSUME known > version' PROVE wire # <<>> /\ Head(wire).ask = "status"
  <2>1. known > version  BY <1>1, <1>8
  <2>2. ASSUME NEW i \in DOMAIN back, back[i].type = "status" PROVE FALSE
    <3>1. back[i] \in Messages  BY <1>2, LenProperties, ElementOfSeq
    <3>2. back[i].version \in Nat /\ back[i].version <= version  BY <2>2, <3>1, MessageFields DEF PageInv, Stamped
    <3>3. back[i].version # known  BY <1>1, <2>1, <3>2
    <3> QED  BY <1>3, <2>2, <3>3 DEF Renews
  <2>3. ~Has(back, "status")  BY <2>2 DEF Has
  <2> QED  BY <2>1, <2>3 DEF PageInv, Replaced
<1>9. known <= version' \/ (wire # <<>> /\ Head(wire).ask = "status")  BY <1>1, <1>8
<1> QED  BY <1>3, <1>6, <1>7, <1>9
\* Times of the newest copies.
LEMMA NewestNav ==
    ASSUME PageInv, NEW m \in Newest(back, "lists", nav)
    PROVE  m.at \in Int /\ m.at <= time
<1>1. CASE m = nav
  BY <1>1 DEF PageInv, PageTypeOK, copies, Copies, Stamped
<1>2. CASE \E i \in DOMAIN back : LastOf(back, "lists", i) /\ m = back[i]
  <2>1. PICK i \in DOMAIN back : m = back[i] /\ m.type = "lists"  BY <1>2 DEF LastOf
  <2>2. m \in Messages  BY <2>1, LenProperties, ElementOfSeq DEF PageInv
  <2>3. m.at \in Nat  BY <2>1, <2>2, MessageFields
  <2>4. m.at <= time  BY <2>1 DEF PageInv, Stamped
  <2> QED  BY <2>3, <2>4
<1> QED  BY <1>1, <1>2 DEF Newest

LEMMA NewestTimed ==
    ASSUME PageInv
    PROVE  /\ \A m \in Newest(back, "queue", [at |-> queue]) : m.at \in Int
           /\ \A m \in Newest(back, "tracks", table) : m.at \in Int
<1>1. ASSUME NEW i \in DOMAIN back, back[i].type \in {"queue", "tracks"} PROVE back[i].at \in Int
  <2>1. back[i] \in Messages  BY LenProperties, ElementOfSeq DEF PageInv
  <2>2. back[i].at \in Nat  BY <1>1, <2>1, MessageFields
  <2> QED  BY <2>2
<1>2. table.at \in Int /\ queue \in Int  BY DEF PageInv, PageTypeOK, copies, Copies
<1>3. ASSUME NEW m \in Newest(back, "queue", [at |-> queue]) PROVE m.at \in Int
  BY <1>1, <1>2 DEF Newest, LastOf
<1>4. ASSUME NEW m \in Newest(back, "tracks", table) PROVE m.at \in Int
  BY <1>1, <1>2 DEF Newest, LastOf
<1> QED  BY <1>3, <1>4

\* What the page still waits for after the dog has run a command.
LEMMA StillAsked ==
    ASSUME PageInv, DogStep, NEW ask, Asked(wire, ask), ~Asked(wire', ask)
    PROVE  Served /\ Head(wire).ask = ask /\ Head(wire) \in Commands
<1>1. Served  BY DEF DogStep, Heard
<1>2. Head(wire).ask = ask  BY <1>1, AskedRest DEF PageInv, Served
<1>3. Head(wire) \in Commands  BY <1>1, HeadTailProperties DEF PageInv, Served
<1> QED  BY <1>1, <1>2, <1>3

\* A message that the dog writes, other than a status, answers the command it has run.
LEMMA AnswerSaid ==
    ASSUME PageInv, DogStep, NEW s, Says(s), NEW k \in DOMAIN s, s[k].type # "status"
    PROVE  Served /\ s[k] = Answer(Head(wire)) /\ Head(wire) \in Commands
<1>1. Status.type = "status"  BY DEF Status
<1>2. Served /\ s[k] = Answer(Head(wire))  BY <1>1 DEF Says
<1>3. Head(wire) \in Commands  BY <1>2, HeadTailProperties DEF PageInv, Served
<1> QED  BY <1>2, <1>3

\* The answer to a command, once it was run.
LEMMA AnswerServed ==
    ASSUME PageInv, Served, Head(wire) \in Commands
    PROVE  LET c == Head(wire) IN
           /\ c.ask = "status" => Answer(c).type = "status"
           /\ (Answer(c).type = "lists") <=> (c.ask = "lists")
           /\ Answer(c).type = "lists" => Answer(c).at = time' /\ Answer(c).lists = lists'
           /\ (Answer(c).type = "queue") <=> (c.ask = "queue")
           /\ Answer(c).type = "queue" => Answer(c).at = time'
           /\ Answer(c).type = "tracks" => /\ c.ask = "tracks" /\ Answer(c).at = time'
                                           /\ Answer(c).moved = moved /\ Answer(c).of = c.list
           /\ c.ask = "tracks" /\ c.list \in lists => Answer(c).type = "tracks"
           /\ c.ask = "move" => Answer(c).type = "done" /\ Answer(c).callback = "setPage"
<1> DEFINE c == Head(wire)
<1>1. c \in Commands /\ PageTypeOK /\ Ran(<<Answer(c)>>)  BY DEF PageInv, Served
<1> QED  BY <1>1, AnswerOf

\* A copy taken now is current, unless the command that took it was the status.
LEMMA NowCurrent ==
    ASSUME PageInv, link, DogStep, NEW s, Says(s), ~Renews(back', known),
           wire # <<>>, Head(wire).ask # "status"
    PROVE  told' <= time' /\ known + time' - version' <= time' /\ time' \in Int
<1>1. told' <= time' /\ time' \in Int /\ version' \in Int /\ known \in Int
  BY PageAssumption DEF PageInv, PageTypeOK, DogStep, Served, Heard, Ran, Never
<1>2. known <= version'  BY StillCurrent
<1>3. \A t, v, k \in Int : k <= v => k + t - v <= t  OBVIOUS
<1>4. known + time' - version' <= time'  BY <1>1, <1>2, <1>3, Zenon
<1> QED  BY <1>1, <1>4

\* A step of the dog keeps the navigation current.
LEMMA DogKeepsNav ==
    ASSUME PageInv, link, DogStep
    PROVE  NavCurrent'
<1>0. UNCHANGED <<link, known, nav>>  BY DEF DogStep, pageVars, copies
<1> SUFFICES ASSUME ~Asked(wire', "lists"), ~Renews(back', known),
                    NEW m \in Newest(back', "lists", nav)
             PROVE  told' <= m.at /\ known + time' - version' <= m.at /\ m.lists \subseteq lists'
  BY <1>0 DEF NavCurrent, Current
<1>1. PICK s : Says(s)  BY DogSays
<1>2. s \in Seq(Messages) /\ back \in Seq(Messages) /\ back' = back \o s  BY <1>1 DEF Says, PageInv
<1>3. CASE m \in Newest(back, "lists", nav) /\ ~Has(s, "lists")
  <2>1. ~Asked(wire, "lists")
    <3> SUFFICES ASSUME Asked(wire, "lists") PROVE FALSE  OBVIOUS
    <3>1. Served /\ Head(wire).ask = "lists" /\ Head(wire) \in Commands  BY StillAsked
    <3>2. Answer(Head(wire)).type = "lists"  BY <3>1, AnswerServed
    <3>3. Has(s, "lists")  BY <1>1, <3>1, <3>2 DEF Says, Has
    <3> QED  BY <1>3, <3>3
  <2>2. ~Renews(back, known)  BY <1>1, StillCurrent
  <2>3. Current(m.at) /\ m.lists \subseteq lists  BY <1>3, <2>1, <2>2 DEF PageInv, NavCurrent
  <2>4. m.at \in Int /\ m.at <= time  BY <1>3, NewestNav
  <2>5. told' <= m.at /\ known + time' - version' <= m.at /\ lists \subseteq lists'
    BY <1>1, <2>3, <2>4, StillCurrent
  <2> QED  BY <2>3, <2>5
<1>4. CASE \E k \in DOMAIN s : m = s[k] /\ m.type = "lists"
  <2>1. PICK k \in DOMAIN s : m = s[k] /\ m.type = "lists"  BY <1>4
  <2>2. Served /\ m = Answer(Head(wire)) /\ Head(wire) \in Commands  BY <1>1, <2>1, AnswerSaid
  <2>3. Head(wire).ask = "lists" /\ m.at = time' /\ m.lists = lists'  BY <2>1, <2>2, AnswerServed
  <2>4. told' <= time' /\ known + time' - version' <= time'
    BY <1>1, <2>2, <2>3, NowCurrent DEF Served
  <2> QED  BY <2>3, <2>4
<1>5. \/ m \in Newest(back, "lists", nav) /\ ~Has(s, "lists")
      \/ \E k \in DOMAIN s : m = s[k] /\ m.type = "lists"
  BY <1>2, NewestMore
<1> QED  BY <1>3, <1>4, <1>5

\* A step of the dog keeps the queue current.
LEMMA DogKeepsQueue ==
    ASSUME PageInv, link, DogStep
    PROVE  QueueCurrent'
<1>0. UNCHANGED <<link, known, page, queue>>  BY DEF DogStep, pageVars, copies
<1> SUFFICES ASSUME page = Queue, ~Asked(wire', "queue"), ~Renews(back', known),
                    NEW m \in Newest(back', "queue", [at |-> queue])
             PROVE  told' <= m.at /\ known + time' - version' <= m.at
  BY <1>0 DEF QueueCurrent, Current
<1>1. PICK s : Says(s)  BY DogSays
<1>2. s \in Seq(Messages) /\ back \in Seq(Messages) /\ back' = back \o s  BY <1>1 DEF Says, PageInv
<1>3. CASE m \in Newest(back, "queue", [at |-> queue]) /\ ~Has(s, "queue")
  <2>1. ~Asked(wire, "queue")
    <3> SUFFICES ASSUME Asked(wire, "queue") PROVE FALSE  OBVIOUS
    <3>1. Served /\ Head(wire).ask = "queue" /\ Head(wire) \in Commands  BY StillAsked
    <3>2. Answer(Head(wire)).type = "queue"  BY <3>1, AnswerServed
    <3>3. Has(s, "queue")  BY <1>1, <3>1, <3>2 DEF Says, Has
    <3> QED  BY <1>3, <3>3
  <2>2. ~Renews(back, known)  BY <1>1, StillCurrent
  <2>3. Current(m.at)  BY <1>3, <2>1, <2>2 DEF PageInv, QueueCurrent
  <2>4. m.at \in Int  BY <1>3, NewestTimed
  <2> QED  BY <1>1, <2>3, <2>4, StillCurrent
<1>4. CASE \E k \in DOMAIN s : m = s[k] /\ m.type = "queue"
  <2>1. PICK k \in DOMAIN s : m = s[k] /\ m.type = "queue"  BY <1>4
  <2>2. Served /\ m = Answer(Head(wire)) /\ Head(wire) \in Commands  BY <1>1, <2>1, AnswerSaid
  <2>3. Head(wire).ask = "queue" /\ m.at = time'  BY <2>1, <2>2, AnswerServed
  <2>4. told' <= time' /\ known + time' - version' <= time'
    BY <1>1, <2>2, <2>3, NowCurrent DEF Served
  <2> QED  BY <2>3, <2>4
<1>5. \/ m \in Newest(back, "queue", [at |-> queue]) /\ ~Has(s, "queue")
      \/ \E k \in DOMAIN s : m = s[k] /\ m.type = "queue"
  BY <1>2, NewestMore
<1> QED  BY <1>3, <1>4, <1>5
\* When nothing makes the page fetch its playlists again, those it shows are there.
LEMMA ShownThere ==
    ASSUME PageInv, link, ~Asked(wire, "lists"), ~Renews(back, known), ~Has(back, "lists"),
           page \in nav.lists
    PROVE  page \in lists /\ page \in Lists
<1>1. nav \in Newest(back, "lists", nav)  BY DEF Newest
<1>2. nav.lists \subseteq lists  BY <1>1 DEF PageInv, NavCurrent
<1> QED  BY <1>2 DEF PageInv, PageTypeOK

\* The last command of the kind, once the first command has gone.
LEMMA LastRest ==
    ASSUME NEW S, NEW w \in Seq(S), w # <<>>, NEW ask
    PROVE  /\ \A i \in DOMAIN Tail(w) : LastAsked(Tail(w), ask, i) =>
                 i + 1 \in DOMAIN w /\ LastAsked(w, ask, i + 1) /\ Tail(w)[i] = w[i + 1]
           /\ Head(w).ask = ask /\ ~Asked(Tail(w), ask) =>
                 1 \in DOMAIN w /\ LastAsked(w, ask, 1) /\ w[1] = Head(w)
<1>1. ASSUME NEW i \in DOMAIN Tail(w), LastAsked(Tail(w), ask, i)
      PROVE  i + 1 \in DOMAIN w /\ LastAsked(w, ask, i + 1) /\ Tail(w)[i] = w[i + 1]
  <2>1. i + 1 \in DOMAIN w /\ Tail(w)[i] = w[i + 1]  BY Beheaded
  <2>2. ASSUME NEW j \in DOMAIN w, j > i + 1 PROVE w[j].ask # ask
    <3>1. j - 1 \in DOMAIN Tail(w) /\ j - 1 > i  BY <2>2, Beheaded
    <3>2. Tail(w)[j - 1] = w[j]  BY <2>2, Beheaded
    <3> QED  BY <1>1, <3>1, <3>2 DEF LastAsked
  <2> QED  BY <1>1, <2>1, <2>2 DEF LastAsked
<1>2. ASSUME Head(w).ask = ask, ~Asked(Tail(w), ask)
      PROVE  1 \in DOMAIN w /\ LastAsked(w, ask, 1) /\ w[1] = Head(w)
  <2>1. 1 \in DOMAIN w /\ w[1] = Head(w)  BY Beheaded
  <2>2. ASSUME NEW j \in DOMAIN w, j > 1 PROVE w[j].ask # ask
    <3>1. j - 1 \in DOMAIN Tail(w) /\ Tail(w)[j - 1] = w[j]  BY <2>2, Beheaded
    <3> QED  BY <1>2, <3>1 DEF Asked
  <2> QED  BY <1>2, <2>1, <2>2 DEF LastAsked
<1> QED  BY <1>1, <1>2

\* When the rows asked for last are asked of the dog, they are those of the page.
LEMMA RowsServed ==
    ASSUME PageInv, link, page \in Lists, wire # <<>>,
           Head(wire).ask = "tracks", ~Asked(Tail(wire), "tracks")
    PROVE  Head(wire).list = page /\ selected = page
<1>1. 1 \in DOMAIN wire /\ LastAsked(wire, "tracks", 1) /\ wire[1] = Head(wire)
  BY LastRest DEF PageInv
<1>2. Asked(wire, "tracks")  BY <1>1 DEF Asked
<1> QED  BY <1>1, <1>2 DEF PageInv, RowsOfPage

\* A step of the dog keeps the rows asked for those of the page.
LEMMA DogKeepsRows ==
    ASSUME PageInv, link, DogStep
    PROVE  RowsOfPage'
<1>0. UNCHANGED <<link, page, selected>>  BY DEF DogStep, pageVars
<1>1. CASE wire' = wire
  BY <1>0, <1>1 DEF PageInv, RowsOfPage, Asked, LastAsked
<1>2. CASE wire # <<>> /\ wire' = Tail(wire)
  <2> SUFFICES ASSUME page \in Lists, Asked(Tail(wire), "tracks")
               PROVE  selected = page /\ \A i \in DOMAIN Tail(wire) :
                         LastAsked(Tail(wire), "tracks", i) => Tail(wire)[i].list = page
    BY <1>0, <1>2 DEF RowsOfPage
  <2>1. Asked(wire, "tracks")  BY <1>2, AskedRest DEF PageInv
  <2>2. selected = page /\ \A i \in DOMAIN wire : LastAsked(wire, "tracks", i) => wire[i].list = page
    BY <2>1 DEF PageInv, RowsOfPage
  <2> QED  BY <1>2, <2>2, LastRest DEF PageInv
<1> QED  BY <1>1, <1>2 DEF DogStep, Served, Heard

\* A step of the dog keeps the rows that are shown current.
LEMMA DogKeepsTable ==
    ASSUME PageInv, link, DogStep
    PROVE  TableCurrent'
<1>0. UNCHANGED <<link, known, page, nav, selected, table>>  BY DEF DogStep, pageVars, copies
<1> SUFFICES ASSUME page \in nav.lists, ~Asked(wire', "lists"), ~Renews(back', known),
                    ~Has(back', "lists"), ~Asked(wire', "tracks"), ~Recalls(back')
             PROVE  /\ selected = page
                    /\ \A m \in Newest(back', "tracks", table) :
                          /\ m.of = page /\ told' <= m.at /\ known + time' - version' <= m.at
                          /\ m.moved = moved'
  BY <1>0 DEF TableCurrent, Current
<1>1. PICK s : Says(s)  BY DogSays
<1>2. s \in Seq(Messages) /\ back \in Seq(Messages) /\ back' = back \o s  BY <1>1 DEF Says, PageInv
<1>3. ~Renews(back, known)  BY <1>1, StillCurrent
<1>4. ~Has(back, "lists") /\ ~Has(s, "lists")  BY <1>2, HasMore
<1>10. ~Recalls(back) /\ ~Recalls(s)  BY <1>2, RecallsMore
<1>11. moved' = moved
  <2>1. CASE Served /\ Head(wire).ask = "move"
    <3>1. Head(wire) \in Commands  BY <2>1, HeadTailProperties DEF PageInv, Served
    <3>2. Answer(Head(wire)).type = "done" /\ Answer(Head(wire)).callback = "setPage"
      BY <2>1, <3>1, AnswerServed
    <3> QED  BY <1>1, <1>10, <2>1, <3>2 DEF Says, Recalls
  <2>2. CASE ~(Served /\ Head(wire).ask = "move")
    BY <2>2 DEF DogStep, Served, Heard
  <2> QED  BY <2>1, <2>2
<1>5. ~Asked(wire, "lists")
  <2> SUFFICES ASSUME Asked(wire, "lists") PROVE FALSE  OBVIOUS
  <2>1. Served /\ Head(wire).ask = "lists" /\ Head(wire) \in Commands  BY StillAsked
  <2>2. Answer(Head(wire)).type = "lists"  BY <2>1, AnswerServed
  <2>3. Has(s, "lists")  BY <1>1, <2>1, <2>2 DEF Says, Has
  <2> QED  BY <1>4, <2>3
<1>6. page \in lists /\ page \in Lists  BY <1>3, <1>4, <1>5, ShownThere
<1>7. ASSUME Asked(wire, "tracks")
      PROVE  /\ Served /\ Head(wire).ask = "tracks" /\ Head(wire) \in Commands
             /\ Head(wire).list = page /\ selected = page
             /\ Has(s, "tracks")
  <2>1. Served /\ Head(wire).ask = "tracks" /\ Head(wire) \in Commands  BY <1>7, StillAsked
  <2>2. wire # <<>> /\ ~Asked(Tail(wire), "tracks")  BY <2>1 DEF Served
  <2>3. Head(wire).list = page /\ selected = page  BY <1>6, <2>1, <2>2, RowsServed
  <2>4. Answer(Head(wire)).type = "tracks"  BY <1>6, <2>1, <2>3, AnswerServed
  <2>5. Has(s, "tracks")  BY <1>1, <2>1, <2>4 DEF Says, Has
  <2> QED  BY <2>1, <2>3, <2>5
<1>8. CASE Asked(wire, "tracks")
  <2> SUFFICES ASSUME NEW m \in Newest(back', "tracks", table)
               PROVE  /\ m.of = page /\ told' <= m.at /\ known + time' - version' <= m.at
                      /\ m.moved = moved'
    BY <1>7, <1>8
  <2>1. PICK k \in DOMAIN s : m = s[k] /\ m.type = "tracks"
    <3>1. \/ m \in Newest(back, "tracks", table) /\ ~Has(s, "tracks")
          \/ \E k \in DOMAIN s : m = s[k] /\ m.type = "tracks"
      BY <1>2, NewestMore
    <3> QED  BY <1>7, <1>8, <3>1
  <2>2. Served /\ m = Answer(Head(wire)) /\ Head(wire) \in Commands  BY <1>1, <2>1, AnswerSaid
  <2>3. Head(wire).ask = "tracks" /\ m.at = time' /\ m.moved = moved /\ m.of = Head(wire).list
    BY <2>1, <2>2, AnswerServed
  <2>4. told' <= time' /\ known + time' - version' <= time'
    BY <1>1, <2>2, <2>3, NowCurrent DEF Served
  <2>5. m.of = page  BY <1>7, <1>8, <2>3
  <2> QED  BY <1>11, <2>3, <2>4, <2>5
<1>9. CASE ~Asked(wire, "tracks")
  <2>1. /\ selected = page
        /\ \A m \in Newest(back, "tracks", table) : m.of = page /\ Current(m.at) /\ m.moved = moved
    BY <1>3, <1>4, <1>5, <1>9, <1>10 DEF PageInv, TableCurrent
  <2> SUFFICES ASSUME NEW m \in Newest(back', "tracks", table)
               PROVE  /\ m.of = page /\ told' <= m.at /\ known + time' - version' <= m.at
                      /\ m.moved = moved'
    BY <2>1
  <2>2. CASE m \in Newest(back, "tracks", table)
    <3>1. m.at \in Int  BY <2>2, NewestTimed
    <3> QED  BY <1>1, <1>11, <2>1, <2>2, <3>1, StillCurrent
  <2>3. CASE \E k \in DOMAIN s : m = s[k] /\ m.type = "tracks"
    <3>1. PICK k \in DOMAIN s : m = s[k] /\ m.type = "tracks"  BY <2>3
    <3>2. Served /\ m = Answer(Head(wire)) /\ Head(wire) \in Commands  BY <1>1, <3>1, AnswerSaid
    <3>3. Head(wire).ask = "tracks"  BY <3>1, <3>2, AnswerServed
    <3>4. Asked(wire, "tracks")  BY <3>2, <3>3, AskedRest DEF PageInv, Served
    <3> QED  BY <1>9, <3>4
  <2>4. \/ m \in Newest(back, "tracks", table) /\ ~Has(s, "tracks")
        \/ \E k \in DOMAIN s : m = s[k] /\ m.type = "tracks"
    BY <1>2, NewestMore
  <2> QED  BY <2>2, <2>3, <2>4
<1> QED  BY <1>8, <1>9

\* A step of the dog keeps the types, the stamps and the first question.
LEMMA DogKeepsRest ==
    ASSUME PageInv, DogStep, link
    PROVE  /\ PageTypeOK' /\ wire' \in Seq(Commands) /\ back' \in Seq(Messages)
           /\ Stamped' /\ Linked' /\ Replaced'
<1>0. /\ UNCHANGED <<connected, link, pageVars>> /\ UNCHANGED copies /\ UNCHANGED nav
      /\ UNCHANGED <<page, leaving, selected, known>>
  BY DEF DogStep, pageVars, copies
<1>1. /\ lists' \subseteq Lists /\ time' \in 0 .. MaxTime /\ version' \in 0 .. time'
      /\ time <= time' /\ version <= version' /\ due' \in BOOLEAN /\ told' \in 0 .. time'
      /\ time' \in Int /\ version' \in Int
  <2>1. /\ lists' \subseteq Lists /\ time' \in 0 .. MaxTime /\ version' \in 0 .. time'
        /\ time <= time' /\ version <= version' /\ due' = FALSE /\ told' \in 0 .. time'
    BY DEF DogStep, Served, Heard, Ran
  <2>2. time' \in Int  BY <2>1, PageAssumption
  <2>3. version' \in Int  BY <2>1, <2>2
  <2> QED  BY <2>1, <2>2, <2>3
<1>10. moved' \in Nat  BY DEF DogStep, Served, Heard, PageInv, PageTypeOK
<1>2. PageTypeOK'  BY <1>0, <1>1, <1>10 DEF PageInv, PageTypeOK
<1>3. wire' \in Seq(Commands)
  BY HeadTailProperties DEF PageInv, DogStep, Served, Heard
<1>4. PICK s : Says(s)  BY DogSays
<1>5. s \in Seq(Messages) /\ back \in Seq(Messages) /\ back' = back \o s  BY <1>4 DEF Says, PageInv
<1>6. back' \in Seq(Messages)  BY <1>5, ConcatProperties
<1>7. Stamped'
  <2>1. nav.at <= time'  BY <1>1, PageAssumption DEF PageInv, Stamped, PageTypeOK, copies, Copies
  <2>2. time \in Int /\ version \in Int  BY PageAssumption DEF PageInv, PageTypeOK
  <2>3. ASSUME NEW m \in Messages,
               (m.type = "status" => m.version <= version) /\ (m.type = "lists" => m.at <= time)
        PROVE  (m.type = "status" => m.version <= version') /\ (m.type = "lists" => m.at <= time')
    <3>1. (m.type = "status" => m.version \in Int) /\ (m.type = "lists" => m.at \in Int)
      BY MessageFields
    <3> QED  BY <1>1, <2>2, <2>3, <3>1
  <2>4. ASSUME NEW i \in DOMAIN back'
        PROVE  /\ back'[i].type = "status" => back'[i].version <= version'
               /\ back'[i].type = "lists" => back'[i].at <= time'
    <3>1. CASE i \in DOMAIN back
      <4>1. back'[i] = back[i] /\ back[i] \in Messages
        BY <1>5, <3>1, Joined, LenProperties, ElementOfSeq
      <4>2. /\ back[i].type = "status" => back[i].version <= version
            /\ back[i].type = "lists" => back[i].at <= time
        BY <3>1 DEF PageInv, Stamped
      <4> QED  BY <2>3, <4>1, <4>2
    <3>2. CASE i - Len(back) \in DOMAIN s /\ back'[i] = s[i - Len(back)]
      <4>1. PICK k \in DOMAIN s : back'[i] = s[k]  BY <3>2
      <4>2. CASE s[k].type = "status"
        <5>1. s[k] = Status
          <6>1. CASE Served /\ s[k] = Answer(Head(wire))
            <7>1. Head(wire) \in Commands  BY <6>1, HeadTailProperties DEF PageInv, Served
            <7> QED  BY <4>2, <6>1, <7>1, AnswerOf DEF PageInv, Served
          <6> QED  BY <1>4, <6>1 DEF Says
        <5>2. s[k].version = version'  BY <5>1 DEF Status
        <5> QED  BY <1>1, <4>1, <4>2, <5>2
      <4>3. CASE s[k].type = "lists"
        <5>1. Served /\ s[k] = Answer(Head(wire)) /\ Head(wire) \in Commands
          BY <1>4, <4>3, AnswerSaid
        <5>2. s[k].at = time'  BY <4>3, <5>1, AnswerServed
        <5> QED  BY <1>1, <4>1, <4>3, <5>2
      <4> QED  BY <4>1, <4>2, <4>3
    <3> QED  BY <1>5, <3>1, <3>2, Joined
  <2> QED  BY <1>0, <2>1, <2>4 DEF Stamped
<1>8. Linked'  BY <1>0 DEF PageInv, Linked
<1>9. Replaced'
  <2> SUFFICES ASSUME known > version', ~Has(back', "status")
               PROVE  wire' # <<>> /\ Head(wire').ask = "status"
    BY <1>0 DEF Replaced
  <2>1. known > version
    <3>1. known \in Int /\ version \in Int  BY PageAssumption DEF PageInv, PageTypeOK, Never
    <3> QED  BY <1>1, <3>1
  <2>2. ~Has(back, "status") /\ ~Has(s, "status")  BY <1>5, HasMore
  <2>3. wire # <<>> /\ Head(wire).ask = "status"  BY <2>1, <2>2 DEF PageInv, Replaced
  <2>4. ~Served
    <3> SUFFICES ASSUME Served PROVE FALSE  OBVIOUS
    <3>1. Head(wire) \in Commands  BY <2>3, HeadTailProperties DEF PageInv
    <3>2. Answer(Head(wire)).type = "status"  BY <2>3, <3>1, AnswerServed
    <3>3. Has(s, "status")  BY <1>4, <3>2 DEF Says, Has
    <3> QED  BY <2>2, <3>3
  <2> QED  BY <2>3, <2>4 DEF DogStep, Heard
<1> QED  BY <1>2, <1>3, <1>6, <1>7, <1>8, <1>9
-------------------------------------------------------------------------------
(* The page *)

\* What was current stays so while the page asks for more and loses nothing that
\* renews its copies.
LEMMA PageKeeps ==
    ASSUME PageInv, link, UNCHANGED <<link, known, dogVars>>,
           NEW then \in Seq(Commands), wire' = wire \o then,
           Renews(back, known) => Renews(back', known)
    PROVE  /\ nav' = nav /\ Newest(back', "lists", nav) \subseteq Newest(back, "lists", nav)
              => NavCurrent'
           /\ /\ page' = page /\ queue' = queue
              /\ Newest(back', "queue", [at |-> queue]) \subseteq Newest(back, "queue", [at |-> queue])
              => QueueCurrent'
           /\ page' = page /\ selected' = selected /\ ~Asked(then, "tracks") => RowsOfPage'
           /\ /\ page' = page /\ selected' \in {selected, page} /\ nav' = nav /\ table' = table
              /\ Has(back, "lists") => Has(back', "lists")
              /\ Recalls(back) => \/ Recalls(back') \/ Asked(then, "tracks")
                                  \/ page \notin nav.lists
              /\ Newest(back', "tracks", table) \subseteq Newest(back, "tracks", table)
              => TableCurrent'
           /\ (Has(back, "status") => Has(back', "status")) => Replaced'
<1>1. \A ask : Asked(wire, ask) => Asked(wire', ask)  BY AskedMore DEF PageInv
<1>2. /\ link' /\ known' = known /\ told' = told /\ time' = time /\ version' = version
      /\ lists' = lists /\ moved' = moved
  BY DEF dogVars
<1>3. \A at : Current(at) => told' <= at /\ known' + time' - version' <= at
  BY <1>2 DEF Current
<1>4. ASSUME nav' = nav, Newest(back', "lists", nav) \subseteq Newest(back, "lists", nav)
      PROVE  NavCurrent'
  <2> SUFFICES ASSUME ~Asked(wire', "lists"), ~Renews(back', known),
                      NEW m \in Newest(back', "lists", nav)
               PROVE  Current(m.at) /\ m.lists \subseteq lists
    BY <1>2, <1>3, <1>4 DEF NavCurrent, Current
  <2> QED  BY <1>1, <1>4 DEF PageInv, NavCurrent
<1>5. ASSUME page' = page, queue' = queue,
             Newest(back', "queue", [at |-> queue]) \subseteq Newest(back, "queue", [at |-> queue])
      PROVE  QueueCurrent'
  <2> SUFFICES ASSUME page = Queue, ~Asked(wire', "queue"), ~Renews(back', known),
                      NEW m \in Newest(back', "queue", [at |-> queue])
               PROVE  Current(m.at)
    BY <1>2, <1>3, <1>5 DEF QueueCurrent, Current
  <2> QED  BY <1>1, <1>5 DEF PageInv, QueueCurrent
<1>6. ASSUME page' = page, selected' = selected, ~Asked(then, "tracks") PROVE RowsOfPage'
  <2> SUFFICES ASSUME page \in Lists, Asked(wire', "tracks")
               PROVE  selected = page /\ \A i \in DOMAIN wire' :
                         LastAsked(wire', "tracks", i) => wire'[i].list = page
    BY <1>6 DEF RowsOfPage
  <2>1. Asked(wire, "tracks")  BY <1>6, AskedMore DEF PageInv
  <2>2. ASSUME NEW i \in DOMAIN wire', LastAsked(wire', "tracks", i) PROVE wire'[i].list = page
    <3>1. CASE i \in DOMAIN wire
      <4>0. DOMAIN wire \subseteq DOMAIN wire'  BY Joined DEF PageInv
      <4>1. \A j \in DOMAIN wire : j \in DOMAIN wire' /\ wire'[j] = wire[j]
        BY <4>0, Joined DEF PageInv
      <4>2. LastAsked(wire, "tracks", i)  BY <2>2, <3>1, <4>1 DEF LastAsked
      <4> QED  BY <2>1, <3>1, <4>1, <4>2 DEF PageInv, RowsOfPage
    <3>2. CASE i - Len(wire) \in DOMAIN then /\ wire'[i] = then[i - Len(wire)]
      BY <1>6, <2>2, <3>2 DEF Asked, LastAsked
    <3> QED  BY <3>1, <3>2, Joined DEF PageInv
  <2> QED  BY <2>1, <2>2 DEF PageInv, RowsOfPage
<1>7. ASSUME page' = page, selected' \in {selected, page}, nav' = nav, table' = table,
             Has(back, "lists") => Has(back', "lists"),
             Recalls(back) => Recalls(back') \/ Asked(then, "tracks") \/ page \notin nav.lists,
             Newest(back', "tracks", table) \subseteq Newest(back, "tracks", table)
      PROVE  TableCurrent'
  <2> SUFFICES ASSUME page \in nav.lists, ~Asked(wire', "lists"), ~Renews(back', known),
                      ~Has(back', "lists"), ~Asked(wire', "tracks"), ~Recalls(back')
               PROVE  selected = page /\ \A m \in Newest(back', "tracks", table) :
                         m.of = page /\ Current(m.at) /\ m.moved = moved
    BY <1>2, <1>3, <1>7 DEF TableCurrent, Current
  <2>1. ~Asked(then, "tracks")  BY AskedMore DEF PageInv
  <2> QED  BY <1>1, <1>7, <2>1 DEF PageInv, TableCurrent
<1>8. ASSUME Has(back, "status") => Has(back', "status") PROVE Replaced'
  <2> SUFFICES ASSUME known > version, ~Has(back', "status")
               PROVE  wire' # <<>> /\ Head(wire').ask = "status"
    BY <1>2 DEF Replaced
  <2>1. wire # <<>> /\ Head(wire).ask = "status"  BY <1>8 DEF PageInv, Replaced
  <2>2. wire' # <<>> /\ Head(wire') = Head(wire)
    <3>1. /\ wire \in Seq(Commands) /\ wire' \in Seq(Commands) /\ Len(wire) \in Nat \ {0}
          /\ Len(wire') = Len(wire) + Len(then) /\ Len(then) \in Nat
      BY <2>1, ConcatProperties, EmptySeq, LenProperties DEF PageInv
    <3>2. 1 \in DOMAIN wire /\ wire[1] = Head(wire)  BY <2>1, Beheaded DEF PageInv
    <3>3. wire'[1] = wire[1]  BY <3>1, <3>2, Joined
    <3>4. wire' # <<>>  BY <3>1, EmptySeq
    <3>5. wire'[1] = Head(wire')  BY <3>1, <3>4, Beheaded
    <3> QED  BY <3>2, <3>3, <3>4, <3>5
  <2> QED  BY <2>1, <2>2
<1> QED  BY <1>4, <1>5, <1>6, <1>7, <1>8

\* When rows are asked for, and only those of the page, then it is these that come last.
LEMMA RowsSent ==
    ASSUME NEW p, NEW w \in Seq(Commands), NEW then \in Seq(Commands), Asked(then, "tracks"),
           \A k \in DOMAIN then : then[k].ask = "tracks" => then[k].list = p
    PROVE  \A i \in DOMAIN (w \o then) :
              LastAsked(w \o then, "tracks", i) => (w \o then)[i].list = p
<1> SUFFICES ASSUME NEW i \in DOMAIN (w \o then), LastAsked(w \o then, "tracks", i)
             PROVE  (w \o then)[i].list = p
  OBVIOUS
<1>1. CASE i \in DOMAIN w
  <2>1. PICK k \in DOMAIN then : then[k].ask = "tracks"  BY DEF Asked
  <2>2. Len(w) + k \in DOMAIN (w \o then) /\ Len(w) + k > i  BY <1>1, Joined
  <2>3. (w \o then)[Len(w) + k] = then[k]  BY Joined
  <2> QED  BY <2>1, <2>2, <2>3 DEF LastAsked
<1>2. CASE i - Len(w) \in DOMAIN then /\ (w \o then)[i] = then[i - Len(w)]
  BY <1>2 DEF LastAsked
<1> QED  BY <1>1, <1>2, Joined

\* So they are when the page asks for the rows of the playlist that it shows and selects.
LEMMA RowsAsked ==
    ASSUME NEW p, NEW then \in Seq(Commands), wire \in Seq(Commands), wire' = wire \o then,
           page' = p, selected' = Select(p), p \in Lists => Asked(then, "tracks"),
           \A k \in DOMAIN then : then[k].ask = "tracks" => then[k].list = p
    PROVE  RowsOfPage'
<1>0. SUFFICES ASSUME p \in Lists
               PROVE  selected' = p /\ \A i \in DOMAIN (wire \o then) :
                         LastAsked(wire \o then, "tracks", i) => (wire \o then)[i].list = p
  BY DEF RowsOfPage
<1>1. selected' = p  BY <1>0 DEF Select
<1>2. Asked(then, "tracks")  BY <1>0
<1>3. \A i \in DOMAIN (wire \o then) :
         LastAsked(wire \o then, "tracks", i) => (wire \o then)[i].list = p
  BY <1>2, RowsSent, Zenon
<1> QED  BY <1>1, <1>3

\* What is read, and what is left.
LEMMA Reads ==
    ASSUME PageInv, NEW type, NEW then \in Seq(Commands), Read(type, then)
    PROVE  /\ link /\ link' /\ connected' = connected /\ UNCHANGED dogVars
           /\ page' = page /\ leaving' = leaving
           /\ back \in Seq(Messages) /\ back # <<>> /\ back' = Tail(back) /\ back' \in Seq(Messages)
           /\ wire \in Seq(Commands) /\ wire' = wire \o then /\ wire' \in Seq(Commands)
           /\ Head(back) \in Messages /\ Head(back).type = type
           /\ type = "status" => Head(back).version <= version
           /\ type = "lists" => Head(back).at <= time
           /\ nav'.at <= time => Stamped'
           /\ Linked'
<1>1. /\ back # <<>> /\ Head(back).type = type /\ back' = Tail(back) /\ Asks(then)
      /\ UNCHANGED <<connected, link, dogVars, page, leaving>>
  BY DEF Read
<1>2. link /\ link'  BY <1>1 DEF PageInv, Linked
<1>3. back \in Seq(Messages) /\ back' \in Seq(Messages) /\ Head(back) \in Messages
  BY <1>1, HeadTailProperties DEF PageInv
<1>4. wire \in Seq(Commands) /\ wire' = wire \o then /\ wire' \in Seq(Commands)
  BY <1>1, <1>2, ConcatProperties DEF PageInv, Asks
<1>5. 1 \in DOMAIN back /\ back[1] = Head(back)  BY <1>1, <1>3, Beheaded
<1>6. /\ type = "status" => Head(back).version <= version
      /\ type = "lists" => Head(back).at <= time
  BY <1>1, <1>5 DEF PageInv, Stamped
<1>7. version' = version /\ time' = time  BY <1>1 DEF dogVars
<1>8. ASSUME nav'.at <= time PROVE Stamped'
  <2>1. ASSUME NEW i \in DOMAIN back'
        PROVE  /\ back'[i].type = "status" => back'[i].version <= version
               /\ back'[i].type = "lists" => back'[i].at <= time
    <3>1. i + 1 \in DOMAIN back /\ back'[i] = back[i + 1]  BY <1>1, <1>3, Beheaded
    <3> QED  BY <3>1 DEF PageInv, Stamped
  <2> QED  BY <1>7, <1>8, <2>1 DEF Stamped
<1>9. Linked'  BY <1>1, <1>2 DEF PageInv, Linked
<1> QED  BY <1>1, <1>2, <1>3, <1>4, <1>6, <1>8, <1>9

\* What renews the copies, once a message was read.
LEMMA RenewsRest ==
    ASSUME NEW S, NEW b \in Seq(S), b # <<>>, NEW v
    PROVE  Renews(b, v) <=> \/ Head(b).type = "status" /\ Head(b).version # v
                            \/ Renews(Tail(b), v)
<1>1. ASSUME Renews(b, v), ~(Head(b).type = "status" /\ Head(b).version # v)
      PROVE  Renews(Tail(b), v)
  <2>1. PICK i \in DOMAIN b : b[i].type = "status" /\ b[i].version # v  BY <1>1 DEF Renews
  <2>2. i - 1 \in DOMAIN Tail(b) /\ Tail(b)[i - 1] = b[i]  BY <1>1, <2>1, Beheaded
  <2> QED  BY <2>1, <2>2 DEF Renews
<1>2. ASSUME Renews(Tail(b), v) PROVE Renews(b, v)
  <2>1. PICK i \in DOMAIN Tail(b) : Tail(b)[i].type = "status" /\ Tail(b)[i].version # v
    BY <1>2 DEF Renews
  <2>2. i + 1 \in DOMAIN b /\ Tail(b)[i] = b[i + 1]  BY <2>1, Beheaded
  <2> QED  BY <2>1, <2>2 DEF Renews
<1>3. 1 \in DOMAIN b /\ b[1] = Head(b)  BY Beheaded
<1> QED  BY <1>1, <1>2, <1>3 DEF Renews
\* What the page asks for when it fetches everything again.
LEMMA FetchesAll ==
    ASSUME NEW p \in Pages
    PROVE  LET then == FetchQueue(p) \o SetPage(p) \o FetchAll IN
           /\ then \in Seq(Commands)
           /\ Asked(then, "lists")
           /\ p = Queue => Asked(then, "queue")
           /\ p \in Lists => Asked(then, "tracks")
           /\ \A k \in DOMAIN then : then[k].ask = "tracks" => then[k].list = p
<1> DEFINE fq == FetchQueue(p)  sp == SetPage(p)  fa == FetchAll
<1>1. fq \in Seq(Commands) /\ sp \in Seq(Commands) /\ fa \in Seq(Commands)  BY SetPageSends
<1>2. /\ \A ask : Asked(sp, ask) <=> p \in Lists /\ ask = "tracks"
      /\ \A ask : Asked(fq, ask) <=> p = Queue /\ ask = "queue"
      /\ \A ask : Asked(fa, ask) <=> ask = "lists"
  BY SetPageAsks
<1>3. \A k \in DOMAIN sp : sp[k].list = p  BY DEF SetPage, Ask
<1>4. \A k \in DOMAIN fq : fq[k].ask # "tracks"  BY DEF FetchQueue, Ask
<1>5. \A k \in DOMAIN fa : fa[k].ask # "tracks"  BY DEF FetchAll, Ask
<1> HIDE DEF fq, sp, fa
<1>6. fq \o sp \in Seq(Commands) /\ (fq \o sp) \o fa \in Seq(Commands)  BY <1>1, ConcatProperties
<1>7. \A ask : Asked((fq \o sp) \o fa, ask) <=> Asked(fq, ask) \/ Asked(sp, ask) \/ Asked(fa, ask)
  BY <1>1, <1>6, AskedMore
<1>8. \A k \in DOMAIN (fq \o sp) : (fq \o sp)[k].ask = "tracks" => (fq \o sp)[k].list = p
  <2> SUFFICES ASSUME NEW k \in DOMAIN (fq \o sp), (fq \o sp)[k].ask = "tracks"
               PROVE  (fq \o sp)[k].list = p
    OBVIOUS
  <2>1. \/ k \in DOMAIN fq /\ (fq \o sp)[k] = fq[k]
        \/ k - Len(fq) \in DOMAIN sp /\ (fq \o sp)[k] = sp[k - Len(fq)]
    BY <1>1, Joined
  <2> QED  BY <1>3, <1>4, <2>1
<1>9. \A k \in DOMAIN ((fq \o sp) \o fa) :
         ((fq \o sp) \o fa)[k].ask = "tracks" => ((fq \o sp) \o fa)[k].list = p
  <2> DEFINE q == fq \o sp
  <2> HIDE DEF q
  <2> SUFFICES ASSUME NEW k \in DOMAIN (q \o fa), (q \o fa)[k].ask = "tracks"
               PROVE  (q \o fa)[k].list = p
    BY DEF q
  <2>1. \/ k \in DOMAIN q /\ (q \o fa)[k] = q[k]
        \/ k - Len(q) \in DOMAIN fa /\ (q \o fa)[k] = fa[k - Len(q)]
    BY <1>1, <1>6, Joined DEF q
  <2>2. \A j \in DOMAIN q : q[j].ask = "tracks" => q[j].list = p  BY <1>8 DEF q
  <2> QED  BY <1>5, <2>1, <2>2
<1>10. (fq \o sp) \o fa \in Seq(Commands) /\ Asked((fq \o sp) \o fa, "lists")
       /\ (p = Queue => Asked((fq \o sp) \o fa, "queue"))
       /\ (p \in Lists => Asked((fq \o sp) \o fa, "tracks"))
  BY <1>2, <1>6, <1>7
<1> QED  BY <1>9, <1>10 DEF fq, sp, fa

\* What it asks for when it shows a page.
LEMMA FetchesPage ==
    ASSUME NEW p \in Pages
    PROVE  LET then == FetchQueue(p) \o SetPage(p) IN
           /\ then \in Seq(Commands)
           /\ p = Queue => Asked(then, "queue")
           /\ p \in Lists => Asked(then, "tracks")
           /\ \A k \in DOMAIN then : then[k].ask = "tracks" => then[k].list = p
<1> DEFINE fq == FetchQueue(p)  sp == SetPage(p)
<1>1. fq \in Seq(Commands) /\ sp \in Seq(Commands)  BY SetPageSends
<1>2. /\ \A ask : Asked(sp, ask) <=> p \in Lists /\ ask = "tracks"
      /\ \A ask : Asked(fq, ask) <=> p = Queue /\ ask = "queue"
  BY SetPageAsks
<1>3. \A k \in DOMAIN sp : sp[k].list = p  BY DEF SetPage, Ask
<1>4. \A k \in DOMAIN fq : fq[k].ask # "tracks"  BY DEF FetchQueue, Ask
<1> HIDE DEF fq, sp
<1>6. fq \o sp \in Seq(Commands)  BY <1>1, ConcatProperties
<1>7. \A ask : Asked(fq \o sp, ask) <=> Asked(fq, ask) \/ Asked(sp, ask)
  BY <1>1, AskedMore
<1>8. \A k \in DOMAIN (fq \o sp) : (fq \o sp)[k].ask = "tracks" => (fq \o sp)[k].list = p
  <2> SUFFICES ASSUME NEW k \in DOMAIN (fq \o sp), (fq \o sp)[k].ask = "tracks"
               PROVE  (fq \o sp)[k].list = p
    OBVIOUS
  <2>1. \/ k \in DOMAIN fq /\ (fq \o sp)[k] = fq[k]
        \/ k - Len(fq) \in DOMAIN sp /\ (fq \o sp)[k] = sp[k - Len(fq)]
    BY <1>1, Joined
  <2> QED  BY <1>3, <1>4, <2>1
<1>9. fq \o sp \in Seq(Commands) /\ (p = Queue => Asked(fq \o sp, "queue"))
      /\ (p \in Lists => Asked(fq \o sp, "tracks"))
  BY <1>2, <1>6, <1>7
<1> QED  BY <1>8, <1>9 DEF fq, sp

\* The types of the copies, part by part.
LEMMA CopyTypes ==
    PageTypeOK <=>
      /\ connected \in BOOLEAN /\ link \in BOOLEAN
      /\ lists \subseteq Lists /\ time \in 0 .. MaxTime /\ version \in 0 .. time
      /\ due \in BOOLEAN /\ told \in 0 .. time /\ moved \in Nat
      /\ page \in Pages /\ leaving \in BOOLEAN /\ selected \in Lists \cup {None}
      /\ known \in Never .. MaxTime
      /\ nav \in [at : Int, lists : SUBSET Lists]
      /\ table \in [at : Int, moved : Int, of : Lists \cup {None}]
      /\ queue \in Int
  BY DEF PageTypeOK, copies, Copies

\* A status is read: either the page knows its version, or it fetches everything again.
LEMMA HandleStatusKeeps ==
    ASSUME PageInv, HandleStatus
    PROVE  PageInv'
<1> DEFINE then == FetchQueue(page) \o SetPage(page) \o FetchAll
<1>0. page \in Pages /\ PageTypeOK  BY DEF PageInv, PageTypeOK
<1>1. /\ back # <<>> /\ Head(back).type = "status" /\ known' = Head(back).version
      /\ UNCHANGED copies
      /\ \/ known' = known /\ Read("status", <<>>) /\ selected' = selected
         \/ known' # known /\ selected' = Select(page) /\ Read("status", then)
  BY DEF HandleStatus
<1>2. then \in Seq(Commands) /\ <<>> \in Seq(Commands)  BY <1>0, FetchesAll
<1> HIDE DEF then
<1>3. PICK sent \in Seq(Commands) :
         /\ Read("status", sent)
         /\ \/ known' = known /\ sent = <<>> /\ selected' = selected
            \/ known' # known /\ sent = then /\ selected' = Select(page)
  BY <1>1, <1>2
<1>4. /\ link /\ link' /\ connected' = connected /\ UNCHANGED dogVars
      /\ page' = page /\ leaving' = leaving
      /\ back \in Seq(Messages) /\ back # <<>> /\ back' = Tail(back) /\ back' \in Seq(Messages)
      /\ wire \in Seq(Commands) /\ wire' = wire \o sent /\ wire' \in Seq(Commands)
      /\ Head(back) \in Messages /\ Head(back).version <= version
      /\ nav'.at <= time => Stamped'
      /\ Linked'
  BY <1>3, Reads
<1>5. /\ lists' = lists /\ time' = time /\ version' = version /\ due' = due /\ told' = told
      /\ moved' = moved
      /\ nav' = nav /\ table' = table /\ queue' = queue
  BY <1>1, <1>4 DEF dogVars, copies
<1>6. Head(back).version \in Nat  BY <1>1, <1>4, MessageFields
<1>7. known' \in 0 .. version /\ version \in Int /\ time \in Int  BY <1>0, <1>1, <1>4, <1>6, PageAssumption DEF PageTypeOK
<1>8. PageTypeOK'
  <2>1. known' \in Never .. MaxTime  BY <1>0, <1>7, PageAssumption DEF PageTypeOK, Never
  <2>2. selected' \in Lists \cup {None}  BY <1>0, <1>3 DEF PageTypeOK, Select
  <2> QED  BY <1>0, <1>4, <1>5, <2>1, <2>2 DEF PageTypeOK, copies, Copies
<1>9. Stamped'  BY <1>4, <1>5 DEF PageInv, Stamped
<1>10. Replaced'
  <2>1. ~(known' > version')  BY <1>5, <1>7
  <2> QED  BY <2>1 DEF Replaced
<1>11. CASE known' = known /\ sent = <<>> /\ selected' = selected
  <2>1. Renews(back, known) => Renews(back', known)  BY <1>1, <1>4, <1>11, RenewsRest
  <2>2. Newest(back', "lists", nav) \subseteq Newest(back, "lists", nav)
    BY <1>1, <1>4, NewestOther
  <2>3. Newest(back', "queue", [at |-> queue]) \subseteq Newest(back, "queue", [at |-> queue])
    BY <1>1, <1>4, NewestOther
  <2>4. Newest(back', "tracks", table) \subseteq Newest(back, "tracks", table)
    BY <1>1, <1>4, NewestOther
  <2>5. Has(back, "lists") => Has(back', "lists")  BY <1>1, <1>4, HasRest
  <2>6. ~Asked(sent, "tracks")  BY <1>11 DEF Asked
  <2>8. Recalls(back) => Recalls(back')  BY <1>1, <1>4, RecallsRest
  <2>7. NavCurrent' /\ QueueCurrent' /\ RowsOfPage' /\ TableCurrent'
    BY <1>4, <1>5, <1>11, <2>1, <2>2, <2>3, <2>4, <2>5, <2>6, <2>8, PageKeeps
  <2> QED  BY <1>4, <1>8, <1>9, <1>10, <2>7 DEF PageInv
<1>12. CASE known' # known /\ sent = then /\ selected' = Select(page)
  <2>1. /\ Asked(then, "lists") /\ (page = Queue => Asked(then, "queue"))
        /\ page \in Lists => Asked(then, "tracks")
        /\ \A k \in DOMAIN then : then[k].ask = "tracks" => then[k].list = page
    BY <1>0, FetchesAll DEF then
  <2>2. \A ask : Asked(then, ask) => Asked(wire', ask)  BY <1>2, <1>4, <1>12, AskedMore
  <2>3. NavCurrent' /\ TableCurrent'  BY <2>1, <2>2 DEF NavCurrent, TableCurrent
  <2>4. QueueCurrent'  BY <1>4, <2>1, <2>2 DEF QueueCurrent
  <2>5. RowsOfPage'
    <3>1. wire' = wire \o then /\ selected' = Select(page)  BY <1>4, <1>12
    <3> QED  BY <1>2, <1>4, <2>1, <3>1, RowsAsked
  <2> QED  BY <1>4, <1>8, <1>9, <1>10, <2>3, <2>4, <2>5 DEF PageInv
<1> QED  BY <1>3, <1>11, <1>12
\* What reading any message but a status leaves as it was.
LEMMA ReadsOther ==
    ASSUME PageInv, NEW type \in {"queue", "lists", "tracks", "error", "done"},
           NEW then \in Seq(Commands), Read(type, then), known' = known
    PROVE  /\ UNCHANGED <<link, known, dogVars>>
           /\ Renews(back, known) => Renews(back', known)
           /\ Replaced'
           /\ type # "lists" =>
                 /\ Has(back, "lists") => Has(back', "lists")
                 /\ Newest(back', "lists", nav) \subseteq Newest(back, "lists", nav)
           /\ type # "queue" =>
                 Newest(back', "queue", [at |-> queue]) \subseteq Newest(back, "queue", [at |-> queue])
           /\ type # "tracks" => Newest(back', "tracks", table) \subseteq Newest(back, "tracks", table)
           /\ type # "done" \/ Head(back).callback # "setPage" => (Recalls(back) => Recalls(back'))
<1>0. type # "status"  OBVIOUS
<1>1. /\ link /\ link' /\ UNCHANGED dogVars /\ wire' = wire \o then
      /\ back \in Seq(Messages) /\ back # <<>> /\ back' = Tail(back) /\ Head(back).type = type
  BY Reads
<1>2. UNCHANGED <<link, known, dogVars>>  BY <1>1
<1>3. Renews(back, known) => Renews(back', known)  BY <1>0, <1>1, RenewsRest
<1>4. \A other : other # type /\ Has(back, other) => Has(back', other)  BY <1>1, HasRest
<1>5. ASSUME NEW other, NEW copy, other # type
      PROVE  Newest(back', other, copy) \subseteq Newest(back, other, copy)
  BY <1>1, <1>5, NewestOther
<1>6. Replaced'
  <2>1. Has(back, "status") => Has(back', "status")  BY <1>0, <1>4
  <2> QED  BY <1>1, <1>2, <1>3, <2>1, PageKeeps
<1>7. type # "lists" => /\ Has(back, "lists") => Has(back', "lists")
                        /\ Newest(back', "lists", nav) \subseteq Newest(back, "lists", nav)
  BY <1>4, <1>5
<1>8. type # "queue" =>
         Newest(back', "queue", [at |-> queue]) \subseteq Newest(back, "queue", [at |-> queue])
  BY <1>5
<1>9. type # "tracks" => Newest(back', "tracks", table) \subseteq Newest(back, "tracks", table)
  BY <1>5
<1>10. ASSUME type # "done" \/ Head(back).callback # "setPage", Recalls(back)
       PROVE  Recalls(back')
  BY <1>1, <1>10, RecallsRest
<1> QED  BY <1>2, <1>3, <1>6, <1>7, <1>8, <1>9, <1>10

\* The rows of the queue are read.
LEMMA UpdateQueueKeeps ==
    ASSUME PageInv, UpdateQueue
    PROVE  PageInv'
<1>0. <<>> \in Seq(Commands) /\ ~Asked(<<>>, "tracks") /\ PageTypeOK  BY DEF Asked, PageInv
<1>1. /\ Read("queue", <<>>) /\ queue' = Head(back).at
      /\ selected' = selected /\ known' = known /\ nav' = nav /\ table' = table
  BY DEF UpdateQueue
<1>2. /\ link /\ link' /\ connected' = connected /\ UNCHANGED dogVars
      /\ page' = page /\ leaving' = leaving
      /\ back \in Seq(Messages) /\ back # <<>> /\ back' = Tail(back) /\ back' \in Seq(Messages)
      /\ wire' = wire \o <<>> /\ wire' \in Seq(Commands)
      /\ Head(back) \in Messages /\ Head(back).type = "queue"
      /\ nav'.at <= time => Stamped'
      /\ Linked'
  BY <1>0, <1>1, Reads
<1>3. /\ UNCHANGED <<link, known, dogVars>> /\ (Renews(back, known) => Renews(back', known)) /\ Replaced'
      /\ Has(back, "lists") => Has(back', "lists")
      /\ Newest(back', "lists", nav) \subseteq Newest(back, "lists", nav)
      /\ Newest(back', "tracks", table) \subseteq Newest(back, "tracks", table)
      /\ Recalls(back) => Recalls(back')
  BY <1>0, <1>1, ReadsOther
<1>4. NavCurrent' /\ RowsOfPage' /\ TableCurrent'
  BY <1>0, <1>1, <1>2, <1>3, PageKeeps
<1>5. Head(back).at \in Nat  BY <1>2, MessageFields
<1>6. lists' = lists /\ time' = time /\ version' = version /\ due' = due /\ told' = told
      /\ moved' = moved
  BY <1>2 DEF dogVars
<1>7. PageTypeOK'
  BY <1>0, <1>1, <1>2, <1>5, <1>6 DEF PageTypeOK, copies, Copies
<1>8. Stamped'  BY <1>1, <1>2 DEF PageInv, Stamped
<1>9. QueueCurrent'
  <2> SUFFICES ASSUME page = Queue, ~Asked(wire', "queue"), ~Renews(back', known),
                      NEW m \in Newest(back', "queue", [at |-> queue'])
               PROVE  Current(m.at)
    BY <1>1, <1>2, <1>6 DEF QueueCurrent, Current
  <2>1. ~Asked(wire, "queue") /\ ~Renews(back, known)
    BY <1>0, <1>2, <1>3, AskedMore DEF PageInv
  <2>2. \A n \in Newest(back, "queue", [at |-> queue]) : Current(n.at)
    BY <1>2, <2>1 DEF PageInv, QueueCurrent
  <2>3. m \in Newest(back, "queue", [at |-> queue])
        \/ (m = [at |-> queue'] /\ Head(back) \in Newest(back, "queue", [at |-> queue]))
    BY <1>2, NewestRead
  <2>4. m.at = Head(back).at \/ m \in Newest(back, "queue", [at |-> queue])  BY <1>1, <2>3
  <2> QED  BY <2>2, <2>3, <2>4
<1> QED  BY <1>2, <1>3, <1>4, <1>7, <1>8, <1>9 DEF PageInv

\* The playlists are read: the page asks for the rows that it shows.
LEMMA UpdateKeeps ==
    ASSUME PageInv, Update
    PROVE  PageInv'
<1>0. page \in Pages /\ PageTypeOK  BY DEF PageInv, PageTypeOK
<1>1. /\ Read("lists", SetPage(page)) /\ nav' = [at |-> Head(back).at, lists |-> Head(back).lists]
      /\ selected' = Select(page) /\ known' = known /\ table' = table /\ queue' = queue
  BY DEF Update
<1>2. /\ SetPage(page) \in Seq(Commands)
      /\ \A ask : Asked(SetPage(page), ask) <=> page \in Lists /\ ask = "tracks"
      /\ \A k \in DOMAIN SetPage(page) : SetPage(page)[k].list = page
  <2>1. \A k \in DOMAIN SetPage(page) : SetPage(page)[k].list = page  BY DEF SetPage, Ask
  <2> QED  BY <1>0, <2>1, SetPageSends, SetPageAsks
<1>3. /\ link /\ link' /\ connected' = connected /\ UNCHANGED dogVars
      /\ page' = page /\ leaving' = leaving
      /\ back \in Seq(Messages) /\ back # <<>> /\ back' = Tail(back) /\ back' \in Seq(Messages)
      /\ wire \in Seq(Commands) /\ wire' = wire \o SetPage(page) /\ wire' \in Seq(Commands)
      /\ Head(back) \in Messages /\ Head(back).type = "lists" /\ Head(back).at <= time
      /\ nav'.at <= time => Stamped'
      /\ Linked'
  BY <1>1, <1>2, Reads
<1>4. /\ UNCHANGED <<link, known, dogVars>> /\ (Renews(back, known) => Renews(back', known)) /\ Replaced'
      /\ Newest(back', "queue", [at |-> queue]) \subseteq Newest(back, "queue", [at |-> queue])
  BY <1>1, <1>2, ReadsOther
<1>5. QueueCurrent'  BY <1>1, <1>2, <1>3, <1>4, PageKeeps
<1>6. Head(back).at \in Nat /\ Head(back).lists \subseteq Lists  BY <1>3, MessageFields
<1>7. lists' = lists /\ time' = time /\ version' = version /\ due' = due /\ told' = told
      /\ moved' = moved
  BY <1>3 DEF dogVars
<1>8. nav'.at = Head(back).at /\ nav'.lists = Head(back).lists
      /\ nav' \in [at : Int, lists : SUBSET Lists]
  BY <1>1, <1>6
<1>9. PageTypeOK'
  <2>1. selected' \in Lists \cup {None}  BY <1>0, <1>1 DEF PageTypeOK, Select
  <2> QED  BY <1>0, <1>1, <1>3, <1>7, <1>8, <2>1 DEF PageTypeOK, copies, Copies
<1>10. Stamped'  BY <1>3, <1>8
<1>11. NavCurrent'
  <2> SUFFICES ASSUME ~Asked(wire', "lists"), ~Renews(back', known),
                      NEW m \in Newest(back', "lists", nav')
               PROVE  Current(m.at) /\ m.lists \subseteq lists
    BY <1>1, <1>3, <1>7 DEF NavCurrent, Current
  <2>1. ~Asked(wire, "lists") /\ ~Renews(back, known)
    BY <1>2, <1>3, <1>4, AskedMore
  <2>2. \A n \in Newest(back, "lists", nav) : Current(n.at) /\ n.lists \subseteq lists
    BY <1>3, <2>1 DEF PageInv, NavCurrent
  <2>3. m \in Newest(back, "lists", nav) \/ (m = nav' /\ Head(back) \in Newest(back, "lists", nav))
    BY <1>3, NewestRead
  <2> QED  BY <1>8, <2>2, <2>3
<1>12. page \in Lists => Asked(wire', "tracks")  BY <1>2, <1>3, AskedMore
<1>13. TableCurrent'  BY <1>3, <1>6, <1>8, <1>12 DEF TableCurrent
<1>14. RowsOfPage'
  <2>1. page \in Lists => Asked(SetPage(page), "tracks")  BY <1>2
  <2> QED  BY <1>1, <1>2, <1>3, <2>1, RowsAsked
<1> QED  BY <1>3, <1>4, <1>5, <1>9, <1>10, <1>11, <1>13, <1>14 DEF PageInv
\* Rows, or the error instead of rows, are read.
LEMMA HandleResponseKeeps ==
    ASSUME PageInv, HandleResponse
    PROVE  PageInv'
<1>0. <<>> \in Seq(Commands) /\ ~Asked(<<>>, "tracks") /\ PageTypeOK  BY DEF Asked, PageInv
<1>1. PICK type \in {"tracks", "error"} :
         /\ Read(type, <<>>)
         /\ IF type = "tracks"
            THEN table' = [at |-> Head(back).at, moved |-> Head(back).moved, of |-> Head(back).of]
            ELSE table' = table
  BY DEF HandleResponse
<1>2. selected' = selected /\ known' = known /\ nav' = nav /\ queue' = queue  BY DEF HandleResponse
<1>3. /\ link /\ link' /\ connected' = connected /\ UNCHANGED dogVars
      /\ page' = page /\ leaving' = leaving
      /\ back \in Seq(Messages) /\ back # <<>> /\ back' = Tail(back) /\ back' \in Seq(Messages)
      /\ wire' = wire \o <<>> /\ wire' \in Seq(Commands)
      /\ Head(back) \in Messages /\ Head(back).type = type
      /\ nav'.at <= time => Stamped'
      /\ Linked'
  BY <1>0, <1>1, Reads
<1>4. /\ UNCHANGED <<link, known, dogVars>> /\ (Renews(back, known) => Renews(back', known)) /\ Replaced'
      /\ Has(back, "lists") => Has(back', "lists")
      /\ Newest(back', "lists", nav) \subseteq Newest(back, "lists", nav)
      /\ Newest(back', "queue", [at |-> queue]) \subseteq Newest(back, "queue", [at |-> queue])
      /\ type # "tracks" => Newest(back', "tracks", table) \subseteq Newest(back, "tracks", table)
      /\ Recalls(back) => Recalls(back')
  BY <1>0, <1>1, <1>2, ReadsOther
<1>5. NavCurrent' /\ QueueCurrent' /\ RowsOfPage' /\ (type # "tracks" => TableCurrent')
  BY <1>0, <1>1, <1>2, <1>3, <1>4, PageKeeps
<1>6. type = "tracks" =>
         Head(back).at \in Nat /\ Head(back).moved \in Nat /\ Head(back).of \in Lists
  BY <1>3, MessageFields
<1>7. lists' = lists /\ time' = time /\ version' = version /\ due' = due /\ told' = told
      /\ moved' = moved
  BY <1>3 DEF dogVars
<1>8. PageTypeOK'
  <2>1. table' \in [at : Int, moved : Int, of : Lists \cup {None}]
    BY <1>0, <1>1, <1>6 DEF PageTypeOK, copies, Copies
  <2> QED  BY <1>0, <1>2, <1>3, <1>7, <2>1 DEF PageTypeOK, copies, Copies
<1>9. Stamped'  BY <1>2, <1>3 DEF PageInv, Stamped
<1>10. ASSUME type = "tracks" PROVE TableCurrent'
  <2>0. table'.at = Head(back).at /\ table'.moved = Head(back).moved /\ table'.of = Head(back).of
    BY <1>1, <1>10
  <2> SUFFICES ASSUME page \in nav.lists, ~Asked(wire', "lists"), ~Renews(back', known),
                      ~Has(back', "lists"), ~Asked(wire', "tracks"), ~Recalls(back')
               PROVE  selected = page /\ \A m \in Newest(back', "tracks", table') :
                         m.of = page /\ Current(m.at) /\ m.moved = moved
    BY <1>2, <1>3, <1>7 DEF TableCurrent, Current
  <2>1. ~Asked(wire, "lists") /\ ~Renews(back, known) /\ ~Has(back, "lists") /\ ~Asked(wire, "tracks")
    BY <1>0, <1>3, <1>4, AskedMore DEF PageInv
  <2>2. /\ selected = page
        /\ \A n \in Newest(back, "tracks", table) : n.of = page /\ Current(n.at) /\ n.moved = moved
    BY <1>3, <1>4, <2>1 DEF PageInv, TableCurrent
  <2>3. ASSUME NEW m \in Newest(back', "tracks", table')
        PROVE  m.of = page /\ Current(m.at) /\ m.moved = moved
    <3>1. m \in Newest(back, "tracks", table)
          \/ (m = table' /\ Head(back) \in Newest(back, "tracks", table))
      BY <1>3, <1>10, NewestRead
    <3> QED  BY <2>0, <2>2, <3>1
  <2> QED  BY <2>2, <2>3
<1> QED  BY <1>3, <1>4, <1>5, <1>8, <1>9, <1>10 DEF PageInv

\* A command was done: its callback asks for the status, for the playlists, or for rows.
LEMMA CallbackKeeps ==
    ASSUME PageInv, Callback
    PROVE  PageInv'
<1>0. page \in Pages /\ PageTypeOK  BY DEF PageInv, PageTypeOK
<1> DEFINE c == Head(back).callback
           then == CASE c = "getStatus" -> <<Ask("status", None)>>
                     [] c = "fetchAll" -> FetchAll
                     [] c = "setPage" -> SetPage(page)
<1>1. /\ back # <<>> /\ Head(back).type = "done" /\ Read("done", then)
      /\ selected' = IF c = "setPage" THEN Select(page) ELSE selected
      /\ known' = known /\ nav' = nav /\ table' = table /\ queue' = queue
  BY DEF Callback, copies
<1>2. c \in Callbacks
  <2>1. Head(back) \in Messages  BY <1>1, HeadTailProperties DEF PageInv
  <2> QED  BY <1>1, <2>1, MessageFields
<1>3. /\ c = "getStatus" => then = <<Ask("status", None)>>
      /\ c = "fetchAll" => then = FetchAll
      /\ c = "setPage" => then = SetPage(page)
  OBVIOUS
<1> HIDE DEF then, c
<1>4. /\ then \in Seq(Commands)
      /\ c # "setPage" => ~Asked(then, "tracks")
      /\ c = "setPage" => /\ page \in Lists => Asked(then, "tracks")
                          /\ \A k \in DOMAIN then : then[k].ask = "tracks" => then[k].list = page
  <2>1. /\ <<Ask("status", None)>> \in Seq(Commands) /\ ~Asked(<<Ask("status", None)>>, "tracks")
    BY DEF Ask, Commands, Callbacks, Asked
  <2>2. FetchAll \in Seq(Commands) /\ ~Asked(FetchAll, "tracks")
    BY <1>0, SetPageSends, SetPageAsks
  <2>3. /\ SetPage(page) \in Seq(Commands)
        /\ page \in Lists => Asked(SetPage(page), "tracks")
    BY <1>0, SetPageSends, SetPageAsks
  <2>4. \A k \in DOMAIN SetPage(page) : SetPage(page)[k].list = page  BY DEF SetPage, Ask
  <2>5. CASE c = "getStatus"  BY <1>3, <2>1, <2>5
  <2>6. CASE c = "fetchAll"  BY <1>3, <2>2, <2>6
  <2>7. CASE c = "setPage"  BY <1>3, <2>3, <2>4, <2>7
  <2> QED  BY <1>2, <2>5, <2>6, <2>7 DEF Callbacks
<1>5. /\ link /\ link' /\ connected' = connected /\ UNCHANGED dogVars
      /\ page' = page /\ leaving' = leaving
      /\ back' \in Seq(Messages)
      /\ wire \in Seq(Commands) /\ wire' = wire \o then /\ wire' \in Seq(Commands)
      /\ nav'.at <= time => Stamped'
      /\ Linked'
  BY <1>1, <1>4, Reads
<1>6. /\ UNCHANGED <<link, known, dogVars>> /\ (Renews(back, known) => Renews(back', known)) /\ Replaced'
      /\ Has(back, "lists") => Has(back', "lists")
      /\ Newest(back', "lists", nav) \subseteq Newest(back, "lists", nav)
      /\ Newest(back', "queue", [at |-> queue]) \subseteq Newest(back, "queue", [at |-> queue])
      /\ Newest(back', "tracks", table) \subseteq Newest(back, "tracks", table)
      /\ c # "setPage" => (Recalls(back) => Recalls(back'))
  BY <1>1, <1>4, ReadsOther DEF c
<1>7. selected' \in {selected, page}  BY <1>1 DEF Select
<1>13. nav.lists \subseteq Lists  BY <1>0 DEF PageTypeOK, copies, Copies
<1>8. NavCurrent' /\ QueueCurrent' /\ TableCurrent'
  BY <1>1, <1>4, <1>5, <1>6, <1>7, <1>13, PageKeeps
<1>9. RowsOfPage'
  <2>1. CASE c = "setPage"  BY <1>1, <1>4, <1>5, <2>1, RowsAsked
  <2>2. CASE c # "setPage"  BY <1>1, <1>4, <1>5, <1>6, <2>2, PageKeeps
  <2> QED  BY <2>1, <2>2
<1>10. lists' = lists /\ time' = time /\ version' = version /\ due' = due /\ told' = told
      /\ moved' = moved
  BY <1>5 DEF dogVars
<1>11. PageTypeOK'
  <2>1. selected' \in Lists \cup {None}  BY <1>0, <1>1 DEF PageTypeOK, Select
  <2> QED  BY <1>0, <1>1, <1>5, <1>10, <2>1 DEF PageTypeOK, copies, Copies
<1>12. Stamped'  BY <1>1, <1>5 DEF PageInv, Stamped
<1> QED  BY <1>5, <1>6, <1>8, <1>9, <1>11, <1>12 DEF PageInv
\* Without a connection nothing is to be fresh.
LEMMA Unlinked ==
    ASSUME ~link'
    PROVE  NavCurrent' /\ QueueCurrent' /\ RowsOfPage' /\ TableCurrent' /\ Replaced'
  BY DEF NavCurrent, QueueCurrent, RowsOfPage, TableCurrent, Replaced

\* Another page is shown.
LEMMA ShowKeeps ==
    ASSUME PageInv, NEW p \in Pages, Show(p)
    PROVE  PageInv'
<1> DEFINE then == FetchQueue(p) \o SetPage(p)
<1>0. PageTypeOK /\ wire \in Seq(Commands) /\ back \in Seq(Messages) /\ Linked  BY DEF PageInv
<1>1. /\ page' = p /\ leaving' = FALSE
      /\ connected => Asks(then) /\ selected' = Select(p)
      /\ ~connected => wire' = wire /\ selected' = selected
      /\ connected' = connected /\ link' = link /\ back' = back /\ UNCHANGED dogVars /\ known' = known
      /\ nav' = nav /\ table' = table /\ queue' = queue
  BY DEF Show, copies
<1>2. /\ then \in Seq(Commands)
      /\ p = Queue => Asked(then, "queue")
      /\ p \in Lists => Asked(then, "tracks")
      /\ \A k \in DOMAIN then : then[k].ask = "tracks" => then[k].list = p
  BY FetchesPage
<1> HIDE DEF then
<1>3. lists' = lists /\ time' = time /\ version' = version /\ due' = due /\ told' = told
      /\ moved' = moved
  BY <1>1 DEF dogVars
<1>4. selected' \in Lists \cup {None}  BY <1>0, <1>1 DEF PageTypeOK, Select
<1>5. PageTypeOK'  BY <1>0, <1>1, <1>3, <1>4 DEF PageTypeOK, copies, Copies
<1>6. Stamped'  BY <1>1, <1>3 DEF PageInv, Stamped
<1>7. CASE link
  <2>1. connected /\ link' /\ wire' = wire \o then /\ selected' = Select(p)
    BY <1>0, <1>1, <1>7 DEF Linked, Asks
  <2>2. UNCHANGED <<link, known, dogVars>>  BY <1>1
  <2>3. /\ Newest(back', "lists", nav) \subseteq Newest(back, "lists", nav)
        /\ Renews(back, known) => Renews(back', known)
        /\ Has(back, "status") => Has(back', "status")
    BY <1>1
  <2>4. NavCurrent' /\ Replaced'  BY <1>1, <1>2, <1>7, <2>1, <2>2, <2>3, PageKeeps
  <2>5. \A ask : Asked(then, ask) => Asked(wire', ask)  BY <1>0, <1>2, <2>1, AskedMore
  <2>6. QueueCurrent'  BY <1>1, <1>2, <2>5 DEF QueueCurrent
  <2>7. p \in nav.lists => p \in Lists  BY <1>0 DEF PageTypeOK, copies, Copies
  <2>8. TableCurrent'  BY <1>1, <1>2, <2>5, <2>7 DEF TableCurrent
  <2>9. RowsOfPage'  BY <1>0, <1>1, <1>2, <2>1, RowsAsked
  <2>10. wire' \in Seq(Commands) /\ back' \in Seq(Messages)  BY <1>0, <1>1, <1>2, <2>1, ConcatProperties
  <2>11. Linked'  BY <1>0, <1>1, <1>7 DEF Linked
  <2> QED  BY <1>5, <1>6, <2>4, <2>6, <2>8, <2>9, <2>10, <2>11 DEF PageInv
<1>8. CASE ~link
  <2>1. wire' = wire  BY <1>1, <1>8 DEF Asks
  <2>2. Linked'  BY <1>0, <1>1, <2>1 DEF Linked
  <2>3. NavCurrent' /\ QueueCurrent' /\ RowsOfPage' /\ TableCurrent' /\ Replaced'
    BY <1>1, <1>8, Unlinked
  <2> QED  BY <1>0, <1>1, <1>5, <1>6, <2>1, <2>2, <2>3 DEF PageInv
<1> QED  BY <1>7, <1>8

LEMMA CheckLocationKeeps ==
    ASSUME PageInv, CheckLocation
    PROVE  PageInv'
<1>1. Home \in Pages /\ Queue \in Pages /\ nav.lists \subseteq Pages
  BY DEF PageInv, PageTypeOK, copies, Copies, Pages
<1>2. PICK p \in Pages : Show(p)  BY <1>1 DEF CheckLocation
<1> QED  BY <1>2, ShowKeeps

\* The listener edits.
LEMMA EditKeeps ==
    ASSUME PageInv, Edit
    PROVE  PageInv'
<1>0. PageTypeOK /\ wire \in Seq(Commands) /\ back \in Seq(Messages) /\ Linked  BY DEF PageInv
<1>1. /\ link /\ link' /\ wire = <<>> /\ connected' = connected /\ link' = link /\ back' = back
      /\ UNCHANGED dogVars /\ page' = page /\ selected' = selected /\ known' = known
      /\ nav' = nav /\ table' = table /\ queue' = queue
  BY DEF Edit, copies
<1>2. nav.lists \subseteq Lists /\ selected \in Lists \cup {None} /\ leaving \in BOOLEAN
  BY <1>0 DEF PageTypeOK, copies, Copies
<1>3. PICK c \in Commands : Asks(<<c>>) /\ c.ask # "tracks" /\ leaving' \in BOOLEAN
  <2>1. CASE (\E l \in nav.lists \cup {Queue} : Asks(<<Ask("edit", l)>>)) /\ UNCHANGED leaving
    <3>1. PICK l \in Lists \cup {Queue} : Asks(<<Ask("edit", l)>>)  BY <1>2, <2>1
    <3>2. Ask("edit", l) \in Commands /\ Ask("edit", l).ask # "tracks"  BY DEF Ask, Commands, Callbacks
    <3> QED  BY <1>2, <2>1, <3>1, <3>2
  <2>2. CASE Asks(<<AskThen("move", selected, "setPage")>>) /\ UNCHANGED leaving
    <3>2. /\ AskThen("move", selected, "setPage") \in Commands
          /\ AskThen("move", selected, "setPage").ask # "tracks"
      BY <1>2 DEF Ask, AskThen, Commands, Callbacks
    <3> QED  BY <1>2, <2>2, <3>2
  <2>3. CASE Asks(<<AskThen("create", None, "fetchAll")>>) /\ UNCHANGED leaving
    <3>2. /\ AskThen("create", None, "fetchAll") \in Commands
          /\ AskThen("create", None, "fetchAll").ask # "tracks"
      BY DEF Ask, AskThen, Commands, Callbacks
    <3> QED  BY <1>2, <2>3, <3>2
  <2>4. CASE \E l \in nav.lists : /\ Asks(<<AskThen("remove", l, "fetchAll")>>)
                                  /\ leaving' = (leaving \/ (l = selected /\ page # Home))
    <3>1. PICK l \in Lists : /\ Asks(<<AskThen("remove", l, "fetchAll")>>)
                             /\ leaving' = (leaving \/ (l = selected /\ page # Home))
      BY <1>2, <2>4
    <3>2. /\ AskThen("remove", l, "fetchAll") \in Commands
          /\ AskThen("remove", l, "fetchAll").ask # "tracks"
      BY DEF Ask, AskThen, Commands, Callbacks
    <3>3. leaving' \in BOOLEAN  BY <3>1, Zenon
    <3> QED  BY <3>1, <3>2, <3>3
  <2> QED  BY <2>1, <2>2, <2>3, <2>4 DEF Edit
<1>4. /\ <<c>> \in Seq(Commands) /\ wire' = wire \o <<c>> /\ ~Asked(<<c>>, "tracks")
  BY <1>1, <1>3 DEF Asks, Asked
<1>5. lists' = lists /\ time' = time /\ version' = version /\ due' = due /\ told' = told
      /\ moved' = moved
  BY <1>1 DEF dogVars
<1>6. PageTypeOK'  BY <1>0, <1>1, <1>3, <1>5 DEF PageTypeOK, copies, Copies
<1>7. Stamped'  BY <1>1, <1>5 DEF PageInv, Stamped
<1>8. /\ Newest(back', "lists", nav) \subseteq Newest(back, "lists", nav)
      /\ Newest(back', "queue", [at |-> queue]) \subseteq Newest(back, "queue", [at |-> queue])
      /\ Newest(back', "tracks", table) \subseteq Newest(back, "tracks", table)
      /\ Renews(back, known) => Renews(back', known)
      /\ Has(back, "status") => Has(back', "status")
      /\ Has(back, "lists") => Has(back', "lists")
      /\ Recalls(back) => Recalls(back')
      /\ UNCHANGED <<link, known, dogVars>>
  BY <1>1
<1>9. NavCurrent' /\ QueueCurrent' /\ RowsOfPage' /\ TableCurrent' /\ Replaced'
  BY <1>1, <1>4, <1>8, PageKeeps
<1>10. wire' \in Seq(Commands) /\ back' \in Seq(Messages)  BY <1>0, <1>1, <1>4, ConcatProperties
<1>11. Linked'  BY <1>0, <1>1 DEF Linked
<1> QED  BY <1>6, <1>7, <1>9, <1>10, <1>11 DEF PageInv

\* The page connects: it asks for the status first, and for its copies.
LEMMA ConnectKeeps ==
    ASSUME PageInv, Connect
    PROVE  PageInv'
<1>0. PageTypeOK /\ page \in Pages  BY DEF PageInv, PageTypeOK
<1> DEFINE st == <<Ask("status", None)>>
<1>1. /\ connected' = TRUE /\ link' = TRUE /\ back' = <<>>
      /\ wire' = (st \o FetchQueue(page)) \o FetchAll
      /\ UNCHANGED dogVars /\ page' = page /\ leaving' = leaving /\ selected' = selected
      /\ known' = known /\ nav' = nav /\ table' = table /\ queue' = queue
  BY DEF Connect, Opens, pageVars, copies
<1>2. lists' = lists /\ time' = time /\ version' = version /\ due' = due /\ told' = told
      /\ moved' = moved
  BY <1>1 DEF dogVars
<1>3. /\ st \in Seq(Commands) /\ FetchQueue(page) \in Seq(Commands) /\ FetchAll \in Seq(Commands)
      /\ \A ask : Asked(FetchQueue(page), ask) <=> page = Queue /\ ask = "queue"
      /\ \A ask : Asked(FetchAll, ask) <=> ask = "lists"
  <2>1. st \in Seq(Commands)  BY DEF Ask, Commands, Callbacks
  <2> QED  BY <1>0, <2>1, SetPageSends, SetPageAsks
<1>4. \A ask : Asked(st, ask) <=> ask = "status"  BY DEF Asked, Ask
<1>5. st \o FetchQueue(page) \in Seq(Commands) /\ wire' \in Seq(Commands)
  BY <1>1, <1>3, ConcatProperties
<1>6. \A ask : Asked(wire', ask)
               <=> Asked(st, ask) \/ Asked(FetchQueue(page), ask) \/ Asked(FetchAll, ask)
  <2> HIDE DEF st
  <2>1. \A ask : Asked(st \o FetchQueue(page), ask) <=> Asked(st, ask) \/ Asked(FetchQueue(page), ask)
    BY <1>3, AskedMore
  <2>2. \A ask : Asked(wire', ask) <=> Asked(st \o FetchQueue(page), ask) \/ Asked(FetchAll, ask)
    BY <1>1, <1>3, <1>5, AskedMore
  <2> QED  BY <2>1, <2>2
<1>7. Asked(wire', "lists") /\ (page = Queue => Asked(wire', "queue")) /\ ~Asked(wire', "tracks")
  BY <1>3, <1>4, <1>6
<1>8. wire' # <<>> /\ Head(wire').ask = "status"
  <2>1. 1 \in DOMAIN st /\ st[1].ask = "status" /\ Len(st) = 1  BY DEF Ask
  <2> HIDE DEF st
  <2>2. /\ 1 \in DOMAIN (st \o FetchQueue(page)) /\ (st \o FetchQueue(page))[1] = st[1]
    BY <1>3, <2>1, Joined
  <2>3. 1 \in DOMAIN wire' /\ wire'[1] = (st \o FetchQueue(page))[1]
    BY <1>1, <1>3, <1>5, <2>2, Joined
  <2>4. wire' # <<>>  BY <2>3
  <2>5. wire'[1] = Head(wire')  BY <1>5, <2>4, Beheaded
  <2> QED  BY <2>1, <2>2, <2>3, <2>4, <2>5
<1>9. PageTypeOK'  BY <1>0, <1>1, <1>2 DEF PageTypeOK, copies, Copies
<1>10. NavCurrent' /\ QueueCurrent' /\ RowsOfPage' /\ TableCurrent' /\ Replaced'
  BY <1>1, <1>7, <1>8 DEF NavCurrent, QueueCurrent, RowsOfPage, TableCurrent, Replaced
<1>11. Stamped' /\ Linked' /\ back' \in Seq(Messages)
  BY <1>1, <1>2 DEF PageInv, Stamped, Linked
<1> QED  BY <1>5, <1>9, <1>10, <1>11 DEF PageInv
\* The page notices that the connection is gone, and empties its tables.
LEMMA NoticeKeeps ==
    ASSUME PageInv, Notice
    PROVE  PageInv'
<1>1. /\ ~link /\ ~link' /\ connected' = FALSE /\ wire' = wire /\ back' = back
      /\ table' = Empty /\ queue' = Never /\ nav' = nav /\ known' = known
      /\ page' = page /\ leaving' = leaving /\ selected' = selected
      /\ lists' = lists /\ time' = time /\ version' = version /\ due' = due /\ told' = told
      /\ moved' = moved
  BY DEF Notice, dogVars
<1>2. PageTypeOK'
  <2>1. Empty \in [at : Int, moved : Int, of : Lists \cup {None}] /\ Never \in Int  BY DEF Empty, Never
  <2>2. table' \in [at : Int, moved : Int, of : Lists \cup {None}]  BY <1>1, <2>1
  <2>3. queue' \in Int  BY <1>1, <2>1
  <2>4. link' \in BOOLEAN /\ connected' \in BOOLEAN
    <3>1. link' = link  BY DEF Notice
    <3> QED  BY <1>1, <3>1 DEF PageInv, PageTypeOK
  <2> QED  BY <1>1, <2>2, <2>3, <2>4 DEF PageInv, PageTypeOK, copies, Copies
<1>3. Linked' /\ Stamped'  BY <1>1 DEF PageInv, Linked, Stamped
<1>4. NavCurrent' /\ QueueCurrent' /\ RowsOfPage' /\ TableCurrent' /\ Replaced'  BY <1>1, Unlinked
<1> QED  BY <1>1, <1>2, <1>3, <1>4 DEF PageInv

\* The connection breaks, with or without the dog.
LEMMA BreakKeeps ==
    ASSUME PageInv, Break \/ Restart
    PROVE  PageInv'
<1>1. /\ link' = FALSE /\ wire' = <<>> /\ back' = <<>> /\ connected' = connected
      /\ version' \in {0, version} /\ due' \in {FALSE, due}
      /\ lists' = lists /\ time' = time /\ told' = told /\ moved' = moved
      /\ page' = page /\ leaving' = leaving /\ selected' = selected /\ known' = known
      /\ nav' = nav /\ table' = table /\ queue' = queue
  BY DEF Break, Restart, Breaks, dogVars, pageVars, copies
<1>2. PageTypeOK'
  <2>1. time \in Nat  BY PageAssumption DEF PageInv, PageTypeOK
  <2>2. version' \in 0 .. time'  BY <1>1, <2>1 DEF PageInv, PageTypeOK
  <2>3. due' \in BOOLEAN  BY <1>1 DEF PageInv, PageTypeOK
  <2> QED  BY <1>1, <2>2, <2>3 DEF PageInv, PageTypeOK, copies, Copies
<1>3. Linked' /\ Stamped'  BY <1>1 DEF PageInv, Linked, Stamped
<1>4. NavCurrent' /\ QueueCurrent' /\ RowsOfPage' /\ TableCurrent' /\ Replaced'  BY <1>1, Unlinked
<1>5. wire' \in Seq(Commands) /\ back' \in Seq(Messages)  BY <1>1
<1> QED  BY <1>2, <1>3, <1>4, <1>5 DEF PageInv

\* A stream ends: the version and the time go on together, and nothing is pushed yet.
LEMMA EndOfStreamKeeps ==
    ASSUME PageInv, EndOfStream
    PROVE  PageInv'
<1>0. time \in Int /\ version \in Int /\ known \in Int /\ MaxTime \in Int
  BY PageAssumption DEF PageInv, PageTypeOK, Never
<1>1. /\ time < MaxTime /\ time' = time + 1 /\ version' = version + 1 /\ due' = TRUE
      /\ lists' = lists /\ told' = told /\ moved' = moved
      /\ connected' = connected /\ link' = link /\ wire' = wire /\ back' = back
      /\ page' = page /\ leaving' = leaving /\ selected' = selected /\ known' = known
      /\ nav' = nav /\ table' = table /\ queue' = queue
  BY DEF EndOfStream, socketVars, pageVars, copies
<1>2. PageTypeOK'
  <2>1. time' \in 0 .. MaxTime /\ version' \in 0 .. time' /\ told' \in 0 .. time'
    BY <1>0, <1>1 DEF PageInv, PageTypeOK
  <2> QED  BY <1>1, <2>1 DEF PageInv, PageTypeOK, copies, Copies
<1>3. \A at : Current(at) => told' <= at /\ known' + time' - version' <= at
  <2>1. known' + time' - version' = known + time - version  BY <1>0, <1>1
  <2> QED  BY <1>1, <2>1 DEF Current
<1>4. Stamped'
  <2>1. ASSUME NEW i \in DOMAIN back
        PROVE  /\ back[i].type = "status" => back[i].version <= version + 1
               /\ back[i].type = "lists" => back[i].at <= time + 1
    <3>1. back[i] \in Messages  BY LenProperties, ElementOfSeq DEF PageInv
    <3>2. (back[i].type = "status" => back[i].version \in Int) /\ (back[i].type = "lists" => back[i].at \in Int)
      BY <3>1, MessageFields
    <3>3. /\ back[i].type = "status" => back[i].version <= version
          /\ back[i].type = "lists" => back[i].at <= time
      BY DEF PageInv, Stamped
    <3> QED  BY <1>0, <3>2, <3>3
  <2>2. nav.at \in Int /\ nav.at <= time  BY DEF PageInv, PageTypeOK, copies, Copies, Stamped
  <2> QED  BY <1>0, <1>1, <2>1, <2>2 DEF Stamped
<1>5. Linked'  BY <1>1 DEF PageInv, Linked
<1>6. Replaced'
  <2>1. known > version' => known > version  BY <1>0, <1>1
  <2> QED  BY <1>1, <2>1 DEF PageInv, Replaced
<1>7. NavCurrent'  BY <1>1, <1>3 DEF PageInv, NavCurrent, Current
<1>8. QueueCurrent'  BY <1>1, <1>3 DEF PageInv, QueueCurrent, Current
<1>9. RowsOfPage'  BY <1>1 DEF PageInv, RowsOfPage
<1>10. TableCurrent'  BY <1>1, <1>3 DEF PageInv, TableCurrent, Current
<1> QED  BY <1>1, <1>2, <1>4, <1>5, <1>6, <1>7, <1>8, <1>9, <1>10 DEF PageInv

\* A command is run, of this page or of another client.
LEMMA DogKeeps ==
    ASSUME PageInv, Serve \/ Elsewhere
    PROVE  PageInv'
<1>1. DogStep
  <2>1. CASE Serve
    <3>1. /\ wire # <<>> /\ wire' = Tail(wire) /\ Run(Head(wire).ask, Head(wire).list, <<Answer(Head(wire))>>)
          /\ UNCHANGED <<connected, link, pageVars>>
          /\ moved' \in {moved, moved + 1} /\ (Head(wire).ask # "move" => moved' = moved)
      BY <2>1 DEF Serve
    <3>2. Ran(<<Answer(Head(wire))>>)  BY <3>1, RunEffect DEF PageInv
    <3>3. moved' \in Nat  BY <3>1 DEF PageInv, PageTypeOK
    <3> QED  BY <3>1, <3>2, <3>3 DEF DogStep, Served
  <2>2. CASE Elsewhere
    <3>1. PICK ask, l : Run(ask, l, <<>>)  BY <2>2 DEF Elsewhere
    <3>2. Ran(<<>>)  BY <3>1, RunEffect DEF PageInv
    <3>3. wire' = wire /\ moved' = moved /\ UNCHANGED <<connected, link, pageVars>>
      BY <2>2 DEF Elsewhere
    <3> QED  BY <3>2, <3>3 DEF DogStep, Heard
  <2> QED  BY <2>1, <2>2
<1>2. CASE link
  BY <1>1, <1>2, DogKeepsRest, DogKeepsNav, DogKeepsQueue, DogKeepsRows, DogKeepsTable DEF PageInv
<1>3. CASE ~link
  <2>1. wire = <<>> /\ back = <<>>  BY <1>3 DEF PageInv, Linked
  <2>2. Heard  BY <1>1, <2>1 DEF DogStep, Served
  <2>3. wire' = <<>> /\ back' = <<>>  BY <1>3, <2>1, <2>2 DEF Heard, Ran, Tells
  <2>4. /\ connected' = connected /\ link' = link /\ page' = page /\ leaving' = leaving
        /\ selected' = selected /\ known' = known /\ nav' = nav /\ table' = table /\ queue' = queue
    BY <1>1 DEF DogStep, pageVars, copies
  <2>5. /\ lists' \subseteq Lists /\ time' \in 0 .. MaxTime /\ version' \in 0 .. time'
        /\ due' = FALSE /\ told' \in 0 .. time' /\ time <= time' /\ moved' = moved
    BY <2>2 DEF Heard, Ran
  <2>6. PageTypeOK'  BY <2>4, <2>5 DEF PageInv, PageTypeOK, copies, Copies
  <2>7. Linked'  BY <2>3, <2>4 DEF PageInv, Linked
  <2>8. Stamped'
    <3>1. nav.at \in Int /\ nav.at <= time /\ time \in Int
      BY PageAssumption DEF PageInv, PageTypeOK, copies, Copies, Stamped
    <3>2. time' \in Int  BY <2>5, PageAssumption
    <3>3. nav.at <= time'  BY <2>5, <3>1, <3>2
    <3> QED  BY <2>3, <2>4, <3>3 DEF Stamped
  <2>9. NavCurrent' /\ QueueCurrent' /\ RowsOfPage' /\ TableCurrent' /\ Replaced'
    BY <1>3, <2>4, Unlinked
  <2>10. wire' \in Seq(Commands) /\ back' \in Seq(Messages)  BY <2>3
  <2> QED  BY <2>6, <2>7, <2>8, <2>9, <2>10 DEF PageInv
<1> QED  BY <1>2, <1>3

-------------------------------------------------------------------------------
(* Theorems *)

LEMMA InitPage == Init => PageInv
<1> SUFFICES ASSUME Init PROVE PageInv
  OBVIOUS
<1>1. PageTypeOK
  <2>1. /\ connected = FALSE /\ link = FALSE /\ lists \subseteq Lists /\ time = 0 /\ version = 0
        /\ due = FALSE /\ told = 0 /\ moved = 0 /\ page = Home /\ leaving = FALSE /\ selected = None /\ known = -1
    BY DEF Init, SocketInit, Never
  <2>2. /\ nav \in [at : Int, lists : SUBSET Lists] /\ table \in [at : Int, moved : Int, of : Lists \cup {None}]
        /\ queue \in Int
    BY DEF Init, Empty, Never
  <2>3. Home \in Pages  BY DEF Pages
  <2>4. 0 \in 0 .. MaxTime /\ 0 \in 0 .. 0 /\ -1 \in -1 .. MaxTime  BY PageAssumption
  <2> QED  BY <2>1, <2>2, <2>3, <2>4 DEF PageTypeOK, copies, Copies, Never
<1>2. wire \in Seq(Commands) /\ back \in Seq(Messages)  BY DEF Init, SocketInit
<1>3. Stamped /\ Linked  BY DEF Init, SocketInit, Stamped, Linked, Never
<1>4. ~link  BY DEF Init, SocketInit
<1>5. NavCurrent /\ QueueCurrent /\ RowsOfPage /\ TableCurrent /\ Replaced
  BY <1>4 DEF NavCurrent, QueueCurrent, RowsOfPage, TableCurrent, Replaced
<1> QED  BY <1>1, <1>2, <1>3, <1>5 DEF PageInv

LEMMA NextPage == PageInv /\ [Next]_vars => PageInv'
<1> SUFFICES ASSUME PageInv, [Next]_vars PROVE PageInv'
  OBVIOUS
<1>1. CASE Serve \/ Elsewhere  BY <1>1, DogKeeps
<1>2. CASE EndOfStream  BY <1>2, EndOfStreamKeeps
<1>3. CASE Break \/ Restart  BY <1>3, BreakKeeps
<1>4. CASE Connect  BY <1>4, ConnectKeeps
<1>5. CASE Notice  BY <1>5, NoticeKeeps
<1>6. CASE HandleStatus  BY <1>6, HandleStatusKeeps
<1>7. CASE UpdateQueue  BY <1>7, UpdateQueueKeeps
<1>8. CASE Update  BY <1>8, UpdateKeeps
<1>9. CASE HandleResponse  BY <1>9, HandleResponseKeeps
<1>10. CASE Callback  BY <1>10, CallbackKeeps
<1>11. CASE CheckLocation  BY <1>11, CheckLocationKeeps
<1>12. CASE Edit  BY <1>12, EditKeeps
<1>13. CASE UNCHANGED vars
  <2>1. /\ connected' = connected /\ link' = link /\ wire' = wire /\ back' = back
        /\ lists' = lists /\ time' = time /\ version' = version /\ due' = due /\ told' = told
        /\ moved' = moved
        /\ page' = page /\ leaving' = leaving /\ selected' = selected /\ known' = known
        /\ nav' = nav /\ table' = table /\ queue' = queue
    BY <1>13 DEF vars, socketVars, dogVars, pageVars, copies
  <2>2. PageTypeOK'  BY <2>1 DEF PageInv, PageTypeOK, copies, Copies
  <2>3. Stamped' /\ Linked' /\ Replaced'  BY <2>1 DEF PageInv, Stamped, Linked, Replaced
  <2>4. NavCurrent' /\ QueueCurrent'  BY <2>1 DEF PageInv, NavCurrent, QueueCurrent, Current
  <2>5. RowsOfPage' /\ TableCurrent'  BY <2>1 DEF PageInv, RowsOfPage, TableCurrent, Current
  <2> QED  BY <2>1, <2>2, <2>3, <2>4, <2>5 DEF PageInv
<1> QED
  BY <1>1, <1>2, <1>3, <1>4, <1>5, <1>6, <1>7, <1>8, <1>9, <1>10, <1>11, <1>12, <1>13 DEF Next

\* The inductive invariant of the page and of what is on its way.
THEOREM PageInvariance == Spec => []PageInv
<1> QED  BY InitPage, NextPage, PTL DEF Spec

\* For any playlists, the variables of the page and of the dog have their types.
THEOREM PageTyped == Spec => []PageTypeOK
<1>1. PageInv => PageTypeOK  BY DEF PageInv
<1> QED  BY <1>1, PageInvariance, PTL

\* For any playlists, however connections break, the dog is started again, and lists are
\* edited here and elsewhere: when everything was said, the page shows, in the navigation,
\* the rows and the queue, every change of playlistversion that the dog has pushed a
\* status of, and in the rows every move that it has made itself.
THEOREM PageIsFresh == Spec => []TableFresh
<1>1. PageInv => TableFresh
  <2> SUFFICES ASSUME PageInv, AllSaid PROVE TableFresh
    BY DEF TableFresh
  <2>1. link /\ wire = <<>> /\ back = <<>>  BY DEF AllSaid
  <2>2. /\ \A ask : ~Asked(wire, ask)
        /\ \A type : ~Has(back, type)
        /\ ~Renews(back, known) /\ ~Recalls(back)
    BY <2>1 DEF Asked, Has, Renews, Recalls
  <2>3. \A type, copy : copy \in Newest(back, type, copy)  BY <2>1, NewestThere
  <2>4. Current(nav.at)  BY <2>1, <2>2, <2>3 DEF PageInv, NavCurrent
  <2>5. page = Queue => Current(queue)
    <3>1. [at |-> queue] \in Newest(back, "queue", [at |-> queue])  BY <2>3
    <3>2. [at |-> queue].at = queue  OBVIOUS
    <3> QED  BY <2>1, <2>2, <3>1, <3>2 DEF PageInv, QueueCurrent
  <2>6. page \in nav.lists =>
           selected = page /\ table.of = page /\ Current(table.at) /\ table.moved = moved
    BY <2>1, <2>2, <2>3 DEF PageInv, TableCurrent
  <2>7. told \in Int /\ nav.at \in Int /\ queue \in Int /\ table.at \in Int
    BY PageAssumption DEF PageInv, PageTypeOK, copies, Copies
  <2> QED  BY <2>4, <2>5, <2>6, <2>7 DEF TableFresh, Current
<1> QED  BY <1>1, PageInvariance, PTL
===============================================================================
