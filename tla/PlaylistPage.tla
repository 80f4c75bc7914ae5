----------------------------- MODULE PlaylistPage -----------------------------
(***************************************************************************)
(* The pages of dogbone that show playlists and the play queue, over a web *)
(* socket (Dogbone, Playqueue and Playlist in dogbone-modules.js and       *)
(* dogbone-core.js).  The page keeps copies: the navigation (which         *)
(* playlists there are), the rows of the list that it shows, and the rows  *)
(* of the play queue.  It fetches a copy again when a status brings        *)
(* another playlistversion, and when it connects.                          *)
(*                                                                         *)
(* Of the dog there is what decides whether copies are fresh: when it      *)
(* counts the version up, and when it pushes its status.  A copy is        *)
(* stamped with the time at which the dog took it; time counts the changes *)
(* of the version over all runs of the dog.  A moved row is pushed without *)
(* being counted: rows are also stamped with the moves of this page; the   *)
(* moves of others are not seen before something else is fetched again.    *)
(***************************************************************************)
EXTENDS PageSocket, FiniteSets

CONSTANTS
    Lists,      \* ids of ordinary playlists
    MaxTime,    \* bound on the changes of the version
    MaxMoves,   \* bound on the rows that this page moves
    MaxWaiting  \* bound: users act while fewer messages are under way

ASSUME PageAssumption == MaxTime \in Nat /\ MaxMoves \in Nat

Home == "home"
Queue == "playqueue"
None == "none"
Never == -1     \* the time of a copy that is not there
Pages == Lists \cup {Home, Queue}

VARIABLES
    lists,      \* the playlists in the dog's database
    time,       \* how often Playlist.version was counted up
    version,    \* Playlist.version, which starts from 0 with every run of the dog
    due,        \* needs_push_update, raised by the end of a stream
    told,       \* when the last status was pushed
    moved,      \* how many rows were moved for this page
    page,       \* Dogbone.page
    leaving,    \* location.hash is #home, and the page is not yet
    selected,   \* Playlist.selectedList
    known,      \* Dogvibes.status.playlistversion
    nav,        \* the copy of all playlists [at, lists]
    table,      \* the copy of a playlist [at, moved, of]
    queue       \* the copy of the play queue: when it was taken

dogVars == <<lists, time, version, due, told, moved>>
copies == <<nav, table, queue>>
pageVars == <<page, leaving, selected, known, copies>>
vars == <<socketVars, dogVars, pageVars>>

Empty == [at |-> Never, moved |-> Never, of |-> None]

Init ==
    /\ SocketInit
    /\ lists \in SUBSET Lists
    /\ time = 0 /\ version = 0 /\ due = FALSE /\ told = 0 /\ moved = 0
    /\ page = Home /\ leaving = FALSE /\ selected = None /\ known = Never
    /\ nav = [at |-> Never, lists |-> {}] /\ table = Empty /\ queue = Never

-------------------------------------------------------------------------------
(* The dog *)

Effect(ls, ticks, pushes) == [lists |-> ls, ticks |-> ticks, pushes |-> pushes]

\* What a command does.  Moving a track and creating a playlist leave the version
\* alone; a command for a playlist that is gone raises, some after they have counted.
Effects(ask, l) ==
    CASE ask \in {"status", "queue", "lists", "tracks"} -> {Effect(lists, 0, FALSE)}
      [] ask = "create" -> {Effect(lists \cup {n}, 0, FALSE) : n \in Lists \ lists}
      [] ask = "next" -> {Effect(lists, 1, FALSE)}
      [] ask = "edit" /\ l \in lists \cup {Queue} -> {Effect(lists, 1, TRUE)}
      [] ask = "move" /\ l \in lists -> {Effect(lists, 0, TRUE)}
      [] ask = "remove" /\ l \in lists -> {Effect(lists \ {l}, 1, TRUE)}
      [] OTHER -> {Effect(lists, t, FALSE) : t \in {0, 1}}

Status == [type |-> "status", version |-> version', at |-> time']

\* A command is run, and answered to the page that sent it; then push_status.
Run(ask, l, answer) ==
    \E e \in Effects(ask, l) :
        /\ time + e.ticks <= MaxTime
        /\ lists' = e.lists /\ time' = time + e.ticks /\ version' = version + e.ticks
        /\ due' = FALSE
        /\ LET pushes == e.pushes \/ due
           IN  /\ told' = IF pushes THEN time' ELSE told
               /\ Tells(answer \o IF pushes THEN <<Status>> ELSE <<>>)

\* The answer to a command of the page, with the callback that it asked for.
Answer(c) ==
    CASE c.ask = "status" -> Status
      [] c.ask = "queue" -> [type |-> "queue", at |-> time']
      [] c.ask = "lists" -> [type |-> "lists", at |-> time', lists |-> lists']
      [] c.ask = "tracks" /\ c.list \in lists ->
             [type |-> "tracks", at |-> time', moved |-> moved, of |-> c.list]
      [] c.ask = "tracks" /\ c.list \notin lists -> [type |-> "error"]
      [] OTHER -> [type |-> "done", callback |-> c.callback]

\* The next command of this page.
Serve ==
    /\ wire # <<>>
    /\ LET c == Head(wire)
       IN  /\ Run(c.ask, c.list, <<Answer(c)>>)
           /\ moved' = IF c.ask = "move" /\ c.list \in lists THEN moved + 1 ELSE moved
    /\ wire' = Tail(wire)
    /\ UNCHANGED <<connected, link, pageVars>>

\* A command of another client.
Elsewhere ==
    /\ Len(back) < MaxWaiting
    /\ \E ask \in {"edit", "move", "create", "remove", "next"}, l \in Lists \cup {Queue} :
          Run(ask, l, <<>>)
    /\ UNCHANGED <<connected, link, wire, moved, pageVars>>

\* A stream ends: next_track on the GLib thread.  The push waits for a command.
EndOfStream ==
    /\ time < MaxTime /\ time' = time + 1 /\ version' = version + 1 /\ due' = TRUE
    /\ UNCHANGED <<lists, told, moved, socketVars, pageVars>>

\* The dog is started again; the relay closes the sockets of the old one.
Restart ==
    /\ Breaks /\ version' = 0 /\ due' = FALSE
    /\ UNCHANGED <<connected, lists, time, told, moved, pageVars>>

Break == Breaks /\ UNCHANGED <<connected, dogVars, pageVars>>

-------------------------------------------------------------------------------
(* The page *)

Ask(what, l) == [ask |-> what, list |-> l, callback |-> "getStatus"]
AskThen(what, l, callback) == [Ask(what, l) EXCEPT !.callback = callback]

\* Playqueue.fetch
FetchQueue(p) == IF p = Queue THEN <<Ask("queue", None)>> ELSE <<>>

\* Variant of Select for the checks: what is shown need not be a playlist.
SelectAny(p) == p

\* Playlist.setPage: what it sends, and what it selects
SetPage(p) == IF p \in Lists THEN <<Ask("tracks", p)>> ELSE <<>>
Select(p) == IF p \in Lists THEN p ELSE selected

\* Playlist.fetchAll
FetchAll == <<Ask("lists", None)>>

\* Variant of Connect for the checks: it trusts that a status will tell of changes.
ConnectTrusting ==
    /\ Opens(<<Ask("status", None)>>)
    /\ UNCHANGED <<dogVars, pageVars>>

\* onopen and Server.connected
Connect ==
    /\ Opens(<<Ask("status", None)>> \o FetchQueue(page) \o FetchAll)
    /\ UNCHANGED <<dogVars, pageVars>>

\* WSocket.error and Server.error: the tables are emptied.
Notice ==
    /\ connected /\ ~link
    /\ connected' = FALSE /\ table' = Empty /\ queue' = Never
    /\ UNCHANGED <<link, wire, back, dogVars, page, leaving, selected, known, nav>>

\* The next message is read.
Read(type, then) ==
    /\ back # <<>> /\ Head(back).type = type
    /\ back' = Tail(back) /\ Asks(then)
    /\ UNCHANGED <<connected, link, dogVars, page, leaving>>

\* Dogvibes.handleStatus: another version is Status.playlistchange.
HandleStatus ==
    /\ back # <<>> /\ Head(back).type = "status"
    /\ known' = Head(back).version
    /\ \/ known' = known /\ Read("status", <<>>) /\ UNCHANGED selected
       \/ /\ known' # known /\ selected' = Select(page)
          /\ Read("status", FetchQueue(page) \o SetPage(page) \o FetchAll)
    /\ UNCHANGED copies

\* Playqueue.update
UpdateQueue ==
    /\ Read("queue", <<>>)
    /\ queue' = Head(back).at
    /\ UNCHANGED <<selected, known, nav, table>>

\* Playlist.update
Update ==
    /\ Read("lists", SetPage(page))
    /\ nav' = [at |-> Head(back).at, lists |-> Head(back).lists]
    /\ selected' = Select(page)
    /\ UNCHANGED <<known, table, queue>>

\* Playlist.handleResponse
HandleResponse ==
    /\ \/ /\ Read("tracks", <<>>)
          /\ table' = [at |-> Head(back).at, moved |-> Head(back).moved, of |-> Head(back).of]
       \/ Read("error", <<>>) /\ UNCHANGED table
    /\ UNCHANGED <<selected, known, nav, queue>>

\* The callback of a command: WSocket.getStatus, Playlist.fetchAll or setPage
Callback ==
    /\ back # <<>> /\ Head(back).type = "done"
    /\ LET c == Head(back).callback
       IN  /\ Read("done", CASE c = "getStatus" -> <<Ask("status", None)>>
                             [] c = "fetchAll" -> FetchAll
                             [] c = "setPage" -> SetPage(page))
           /\ selected' = IF c = "setPage" THEN Select(page) ELSE selected
    /\ UNCHANGED <<known, copies>>

\* Dogbone.checkLocation: page p is shown, and the handlers of Page.p run.
Show(p) ==
    /\ page' = p /\ leaving' = FALSE
    /\ IF connected
         THEN Asks(FetchQueue(p) \o SetPage(p)) /\ selected' = Select(p)
         ELSE UNCHANGED <<wire, selected>>
    /\ UNCHANGED <<connected, link, back, dogVars, known, copies>>

\* The listener follows a link of the navigation, or the page leaves a list that it
\* has removed.
CheckLocation ==
    \/ /\ wire = <<>> /\ Len(back) < MaxWaiting
       /\ \E p \in ({Home, Queue} \cup nav.lists) \ {page} : Show(p)
    \/ leaving /\ Show(Home)

\* The listener edits: adds, removes and renames, moves a row of the list that is
\* shown, creates a playlist, or removes one.
Edit ==
    /\ link /\ wire = <<>> /\ Len(back) < MaxWaiting
    /\ \/ /\ \E l \in nav.lists \cup {Queue} : Asks(<<Ask("edit", l)>>)
          /\ UNCHANGED leaving
       \/ /\ page \in Lists /\ moved < MaxMoves
          /\ Asks(<<AskThen("move", selected, "setPage")>>)
          /\ UNCHANGED leaving
       \/ /\ Asks(<<AskThen("create", None, "fetchAll")>>)
          /\ UNCHANGED leaving
       \/ \E l \in nav.lists :
             /\ Asks(<<AskThen("remove", l, "fetchAll")>>)
             /\ leaving' = (leaving \/ (l = selected /\ page # Home))
    /\ UNCHANGED <<connected, link, back, dogVars, page, selected, known, copies>>

Next ==
    \/ Serve \/ Elsewhere \/ EndOfStream \/ Restart \/ Break
    \/ Connect \/ Notice \/ HandleStatus \/ UpdateQueue \/ Update \/ HandleResponse
    \/ Callback \/ CheckLocation \/ Edit

Spec == Init /\ [][Next]_vars

-------------------------------------------------------------------------------
Copies == [at : Int, lists : SUBSET Lists]
          \X [at : Int, moved : Int, of : Lists \cup {None}] \X Int

\* The variables of the page and of the dog have their types.
PageTypeOK ==
    /\ connected \in BOOLEAN /\ link \in BOOLEAN
    /\ lists \subseteq Lists /\ time \in 0 .. MaxTime /\ version \in 0 .. time
    /\ due \in BOOLEAN /\ told \in 0 .. time /\ moved \in Nat
    /\ page \in Pages /\ leaving \in BOOLEAN /\ selected \in Lists \cup {None}
    /\ known \in Never .. MaxTime /\ copies \in Copies

\* When everything was said, the page shows every change of the version that the dog has
\* pushed a status of, to this page or while it was away: in the navigation, in the rows
\* of the playlist shown, which are those of the selected list and know of every move of
\* this page, and in the rows of the queue.  A restarted dog may give the version that
\* the page knows to another content.
TableFresh ==
    AllSaid =>
        /\ nav.at >= told
        /\ page = Queue => queue >= told
        /\ page \in nav.lists =>
              selected = page /\ table.of = page /\ table.at >= told /\ table.moved = moved

===============================================================================
