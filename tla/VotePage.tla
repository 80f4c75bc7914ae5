------------------------------- MODULE VotePage -------------------------------
(***************************************************************************)
(* The voting page of dogbark over a web socket (Playqueue, voteButton,    *)
(* User and Activity in dogbark's dogbone-modules.js).  The play queue and *)
(* the list of activity show a button for each track, by what the page     *)
(* knows of the listener's votes when it draws them; a button that was     *)
(* clicked is dead until it is drawn again.  The page keeps the votes and  *)
(* fetches them again when a status brings another vote_version.           *)
(*                                                                         *)
(* Of the dog there is what the listener's votes and the queue are, and    *)
(* when a command counts versions up and pushes.  Time counts the changes  *)
(* of vote_version over all runs of the dog.  The first track, which shows *)
(* no button, and what plays are left out; buttons of searches and albums, *)
(* too.                                                                    *)
(***************************************************************************)
EXTENDS PageSocket, FiniteSets

CONSTANTS
    Tracks,
    Votes,      \* the votes of a listener
    MaxTime,    \* bound on the changes of vote_version
    MaxVersion, \* bound on playlistversion
    MaxWaiting  \* bound: people act while fewer messages are under way

Never == -1

VARIABLES
    queued,     \* the tracks in the queue
    mine,       \* those that the listener has voted for
    time,       \* how often vote_version was counted up
    version, voteVersion,   \* playlistversion and vote_version of this run
    due,        \* needs_push_update, raised by the end of a stream
    told,       \* when the last vote_version was pushed
    quietly,    \* history: votes were given back that vote_version has not counted since
    known,      \* Dogvibes.status: playlistversion and vote_version
    user,       \* User.votes [of], and when the dog took them [at]
    items, happened,    \* Playqueue.items and Activity.items
    buttons, actions,   \* what the two lists show for a track
    missed      \* history: an answer to User.update was lost, or the dog restarted

dogVars == <<queued, mine, time, version, voteVersion, due, told, quietly>>
pageVars == <<known, user, items, happened, buttons, actions, missed>>
vars == <<socketVars, dogVars, pageVars>>

\* voteButton for what is listed
Buttons(listed, voted) ==
    [t \in Tracks |-> CASE t \notin listed -> "none"
                        [] t \in listed \cap voted -> "undo"
                        [] OTHER -> "vote"]

Init ==
    /\ SocketInit
    /\ queued \in SUBSET Tracks /\ mine \in {m \in SUBSET queued : Cardinality(m) <= Votes}
    /\ time = 0 /\ version = 0 /\ voteVersion = 0 /\ due = FALSE
    /\ told = 0 /\ quietly = FALSE
    /\ known = [version |-> Never, votes |-> Never] /\ user = [of |-> {}, at |-> Never]
    /\ items = {} /\ happened = {} /\ missed = FALSE
    /\ buttons = Buttons({}, {}) /\ actions = Buttons({}, {})

-------------------------------------------------------------------------------
(* The dog *)

Effect(q, m, counts, pushes) == [queued |-> q, mine |-> m, counts |-> counts, pushes |-> pushes]

\* add_vote for this listener: it is ignored without votes left.
Voted(t) ==
    IF t \notin mine /\ Cardinality(mine) < Votes
      THEN Effect(queued \cup {t}, mine \cup {t}, TRUE, TRUE)
      ELSE Effect(queued, mine, TRUE, TRUE)

\* remove_vote: the track goes with its last vote.  In a queue of one row that others
\* voted for it raises, and nothing is counted or pushed.
Unvoted(t) ==
    IF t \notin mine THEN {Effect(queued, mine, TRUE, TRUE)}
    ELSE {Effect(q, mine \ {t}, TRUE, TRUE) : q \in {queued, queued \ {t}}}
         \cup IF queued = {t} THEN {Effect(queued, mine, FALSE, FALSE)} ELSE {}

\* What others do that counts: vote; take their last vote back, or remove the track.
\* Without counting, they queue a track; remove it by queueAndPlay or through a
\* playlist; remove another row of it there, which clears its votes although it stays;
\* and go to the next track, which is not even pushed.
Others(t) ==
    {Effect(queued \cup {t}, mine, TRUE, TRUE), Effect(queued \ {t}, mine \ {t}, TRUE, TRUE),
     Effect(queued \cup {t}, mine, FALSE, TRUE), Effect(queued \ {t}, mine \ {t}, FALSE, TRUE),
     Effect(queued, mine \ {t}, FALSE, TRUE), Effect(queued \ {t}, mine \ {t}, FALSE, FALSE)}

\* Variant of Count for the checks: a vote does not change vote_version.
CountPlays(counts) ==
    LET n == IF counts THEN 1 ELSE 0
    IN  /\ version < MaxVersion /\ version' = version + 1
        /\ time + n <= MaxTime /\ time' = time + n /\ voteVersion' = voteVersion

\* tick_version, and vote_version if the command counts it
Count(counts) ==
    LET n == IF counts THEN 1 ELSE 0
    IN  /\ version < MaxVersion /\ version' = version + 1
        /\ time + n <= MaxTime /\ time' = time + n /\ voteVersion' = voteVersion + n

Status == [type |-> "status", version |-> version', votes |-> voteVersion']

\* push_status, and the push of a vote_version that comes before it
Pushed(counts, pushes) ==
    (IF counts THEN <<[type |-> "votes", votes |-> voteVersion']>> ELSE <<>>)
    \o IF pushes \/ due THEN <<Status>> ELSE <<>>

\* A command that changes something is run, answered and pushed.
Run(e, answer) ==
    /\ Count(e.counts)
    /\ queued' = e.queued /\ mine' = e.mine
    /\ quietly' = (~e.counts /\ (quietly \/ e.mine # mine))
    /\ told' = IF e.counts \/ e.pushes \/ due THEN time' ELSE told
    /\ Tells(answer \o Pushed(e.counts, e.pushes)) /\ due' = FALSE

\* The answer to a command that only reads
Answer(ask) ==
    CASE ask = "status" -> Status
      [] ask = "queue" -> [type |-> "queue", tracks |-> queued]
      [] ask = "activity" -> [type |-> "activity", tracks |-> queued]
      [] ask = "user" -> [type |-> "user", of |-> mine, at |-> time]

\* The next command of this page
Serve ==
    /\ wire # <<>> /\ wire' = Tail(wire)
    /\ LET c == Head(wire)
           done == <<[type |-> "done"]>>
       IN  \/ c.ask = "vote" /\ Run(Voted(c.track), done)
           \/ c.ask = "unvote" /\ \E e \in Unvoted(c.track) : Run(e, done)
           \/ /\ c.ask \in {"status", "queue", "activity", "user"}
              /\ UNCHANGED <<queued, mine, time, version, voteVersion, quietly>>
              /\ told' = (IF due THEN time ELSE told) /\ due' = FALSE
              /\ Tells(<<Answer(c.ask)>> \o Pushed(FALSE, FALSE))
    /\ UNCHANGED <<connected, link, pageVars>>

\* A command of another client
Elsewhere ==
    /\ Len(back) < MaxWaiting
    /\ \E t \in Tracks : \E e \in Others(t) : Run(e, <<>>)
    /\ UNCHANGED <<connected, link, wire, pageVars>>

\* A stream ends: next_track and pipeline_message on the GLib thread
EndOfStream ==
    /\ Count(TRUE) /\ due' = TRUE /\ quietly' = FALSE
    /\ \E t \in queued : queued' = queued \ {t} /\ mine' = mine \ {t}
    /\ UNCHANGED <<told, socketVars, pageVars>>

\* The dog is started again; the relay closes the sockets of the old one.
Restart ==
    /\ Breaks /\ version' = 0 /\ voteVersion' = 0 /\ due' = FALSE /\ missed' = TRUE
    /\ UNCHANGED <<connected, queued, mine, time, told, quietly,
                   known, user, items, happened, buttons, actions>>

\* An answer to User.update is under way.
Updating ==
    \/ \E i \in 1 .. Len(wire) : wire[i].ask = "user"
    \/ \E i \in 1 .. Len(back) : back[i].type = "user"

Break ==
    /\ Breaks /\ missed' = (missed \/ Updating)
    /\ UNCHANGED <<connected, dogVars, known, user, items, happened, buttons, actions>>

-------------------------------------------------------------------------------
(* The page *)

Ask(what) == [ask |-> what]

\* onopen and Server.connected: Playqueue.fetch and Activity.fetch, not User.update
Connect ==
    /\ Opens(<<Ask("status"), Ask("queue"), Ask("activity")>>)
    /\ UNCHANGED <<dogVars, pageVars>>

\* WSocket.error and Server.error: the list of tracks is emptied.
Notice ==
    /\ connected /\ ~link /\ connected' = FALSE
    /\ buttons' = Buttons({}, {})
    /\ UNCHANGED <<link, wire, back, dogVars, known, user, items, happened, actions, missed>>

\* The next message is read.
Read(type, then) ==
    /\ back # <<>> /\ Head(back).type = type
    /\ back' = Tail(back) /\ Asks(then)
    /\ UNCHANGED <<connected, link, dogVars>>

\* Activity.fetch and User.update on Status.activity, Playqueue.fetch on
\* Status.playlistchange
Fetches(plays, votes) ==
    (IF votes = known.votes THEN <<>> ELSE <<Ask("activity"), Ask("user")>>)
    \o IF plays = known.version THEN <<>> ELSE <<Ask("queue")>>

\* Dogvibes.handleStatus of a status; on Status.state the queue is drawn again.
HandleStatus ==
    /\ back # <<>> /\ Head(back).type = "status"
    /\ LET m == Head(back)
       IN  /\ Read("status", Fetches(m.version, m.votes))
           /\ known' = [version |-> m.version, votes |-> m.votes]
    /\ buttons' \in {buttons, Buttons(items, user.of)}
    /\ UNCHANGED <<user, items, happened, actions, missed>>

\* Dogvibes.handleStatus of a push with nothing but vote_version
HandleVotes ==
    /\ back # <<>> /\ Head(back).type = "votes"
    /\ Read("votes", Fetches(known.version, Head(back).votes))
    /\ known' = [known EXCEPT !.votes = Head(back).votes]
    /\ UNCHANGED <<user, items, happened, buttons, actions, missed>>

\* Playqueue.draw and Activity.draw
DrawQueue ==
    /\ Read("queue", <<>>)
    /\ items' = Head(back).tracks /\ buttons' = Buttons(items', user.of)
    /\ UNCHANGED <<known, user, happened, actions, missed>>

DrawActivity ==
    /\ Read("activity", <<>>)
    /\ happened' = Head(back).tracks /\ actions' = Buttons(happened', user.of)
    /\ UNCHANGED <<known, user, items, buttons, missed>>

\* Variant of SetUser for the checks: the queue is not drawn again.
SetUserOnly ==
    /\ Read("user", <<>>)
    /\ user' = [of |-> Head(back).of, at |-> Head(back).at]
    /\ missed' = FALSE
    /\ UNCHANGED <<known, items, happened, buttons, actions>>

\* User.set, and Playqueue.set and Activity.set on User.info
SetUser ==
    /\ Read("user", <<>>)
    /\ user' = [of |-> Head(back).of, at |-> Head(back).at]
    /\ buttons' = Buttons(items, user'.of) /\ actions' = Buttons(happened, user'.of)
    /\ missed' = FALSE
    /\ UNCHANGED <<known, items, happened>>

\* The callback of a vote: WSocket.getStatus
Callback ==
    /\ Read("done", <<Ask("status")>>)
    /\ UNCHANGED pageVars

\* What a click on a button sends: a vote only when User.info has one left
Clicked(button, t) ==
    \/ button = "undo" /\ Asks(<<[ask |-> "unvote", track |-> t]>>)
    \/ /\ button = "vote" /\ user.at # Never /\ Cardinality(user.of) < Votes
       /\ Asks(<<[ask |-> "vote", track |-> t]>>)

\* The listener clicks a button of either list.
Click ==
    /\ wire = <<>> /\ Len(back) < MaxWaiting
    /\ \E t \in Tracks :
          \/ /\ Clicked(buttons[t], t) /\ buttons' = [buttons EXCEPT ![t] = "voting"]
             /\ UNCHANGED actions
          \/ /\ Clicked(actions[t], t) /\ actions' = [actions EXCEPT ![t] = "voting"]
             /\ UNCHANGED buttons
    /\ UNCHANGED <<connected, link, back, dogVars, known, user, items, happened, missed>>

Next ==
    \/ Serve \/ Elsewhere \/ EndOfStream \/ Restart \/ Break
    \/ Connect \/ Notice \/ HandleStatus \/ HandleVotes \/ DrawQueue \/ DrawActivity
    \/ SetUser \/ Callback \/ Click

Spec == Init /\ [][Next]_vars

-------------------------------------------------------------------------------
\* When everything was said, no button of the queue is dead, and every button of the
\* queue is for what the page knows of the votes; in the list of activity a button may
\* be dead (see Unvoted), but it is not for the opposite.
ButtonsLive ==
    AllSaid => \A t \in Tracks :
        LET right == IF t \in user.of THEN "undo" ELSE "vote"
        IN  buttons[t] \in {"none", right} /\ actions[t] \in {"none", right, "voting"}

\* When everything was said, and no answer was lost and the dog not started again since
\* the votes came, the votes that the page knows are not older than the last change of
\* vote_version that was pushed; and they are the listener's votes, if that change was
\* the last and votes were not given back since without being counted.
UserFresh ==
    AllSaid /\ ~missed =>
        user.at >= told /\ (told = time /\ ~quietly => user.of = mine)

===============================================================================
