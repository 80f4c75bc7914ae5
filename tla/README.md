# A specification of Dogvibes

Dogvibes is a shared jukebox: a *dog* plays music from Spotify and other
sources, and listeners steer it from web pages, vote on a queue and keep
playlists.  This directory holds TLA+ modules that model its core, TLC
configurations that check them on small instances, and proofs that TLAPS checks
for every instance.

Paths without a directory are under `src/dogvibes/src/`; `gstspotsrc.c` is
`src/gst-spot-src/src/gstspotsrc.c`; `dogbone/` is `src/clients/dogbone/js/` and
`dogbark/` is `src/clients/dogbark/res/js/`.

## The system

| Component | State | Operations | Interacts with |
|---|---|---|---|
| Playlists (`playlist.py`, `database.py`) | tables `playlists`, `playlist_tracks` (id, playlist, track, position, votes) | add, move, remove tracks; create, remove playlists | called by the amp, the library calls and voting |
| Voting (`playlist.py`, `user.py`, `track.py`) | table `votes`, column `users.votes`, column `playlist_tracks.votes` | `add_vote`, `remove_vote`, `remove_all_voting_users` | reorders the queue; every removal gives votes back |
| Library calls (`dogvibes.py`) | the sources; nothing else of its own | the `API_*Playlist*` calls, `cleanDatabase`, searches on threads of their own | playlists; sources |
| Amp (`amp.py`, `spotifysource.py`) | active and fallback playlist and row, the source in the pipeline, the pipeline's state | play, pause, stop, next, previous, play a track, queue and play; end of stream on the GLib thread; loss of the play token on libspotify's thread | playlists, voting, the spotify element |
| Command loop (`dog.py`) | the stream to the relay | one command after the other, an answer, a pushed status | everything above |
| Relay (`api_server.py`) | dogs, clients, numbered requests | register a dog, forward a command, match an answer, broadcast a push, drop a client | `dog.py`, web clients |
| Spotify element (`gstspotsrc.c`) | a worker with a list of commands, an audio buffer, the element's state and uri | login, play, seek, get audio, stop, unlock | called from GStreamer's threads and libspotify's callbacks |
| Album art (`albumart.py`, `albumart_api.py`) | a list of albums to download that requests share | fetch, callbacks of downloads | an image service |
| A page's connection (`dogvibes-core.js` of both clients) | a web socket or an AJAX poll, one timer, a count of attempts, an indicator | connect, send, retry, give up | the relay; it tells the page of a connection, an error and a status |
| The page with playlists (`dogbone/dogbone-modules.js`, `dogbone-core.js`) | copies of the playlists, of the rows of one list and of the queue; the page shown, the list selected | fetch, show, edit, move between pages | the connection; edits go to the dog and come back as a new version |
| The voting page (`dogbark/dogbone-modules.js`) | copies of the queue, of the activity and of the listener's votes; a button for each track | fetch, draw, vote, take back | the same |

Not part of the running system: `Attic`, `trash`, `dists`, the earlier relays
`server.py`, `ws_server.py`, `twisted_server.py`; vendored: tornado, jQuery,
FABridge.

### What is hard

* **Sequences of votes.** A vote moves one row next to positions that it reads at
  one moment; the order of the whole queue rests on every call having done so.
* **Five ways out of the queue.** A row leaves by its last vote, by removal, by
  removal of many, because it was played, or because it was replaced; each must
  give back every vote on it.
* **Positions.** Rows are renumbered by statements with different bounds; the
  amp steps by position.
* **Two ids for one place.** The amp keeps the id of a playlist and the id of a
  row; rows move, go away, and SQLite gives the id of a deleted last row out
  again.
* **One spotify element.** It takes a track only while stopped, keeps its state
  outside the pipeline, and is driven along five paths.
* **Threads.** Commands on the I/O thread, the end of a stream on GLib's, the
  play token on libspotify's, searches on one thread per request, a worker inside
  the spotify element.
* **Requests on their way** through the relay while clients and dogs come and go.
* **Copies in the pages.** A page learns that its copies are old from counters
  which start from 0 with every run of the dog, which some commands do not count
  up or push, and which come over connections that break.
* **Late timers and sockets.** A page gives up a socket without closing it, and
  the old one and the new one share a timer, a flag and a count.

`PROJECT.json` lists each hazard at its line, with the properties that cover it
or why none does yet.

### What makes each component correct

* Playlists: positions of a list of n rows are 1..n, each once.
* Voting: votes left plus votes placed are constant; every vote is for a queued
  track; votes are given back for a row that goes and for nothing else; the queue
  is ordered by votes behind its first entry; what is voted can be taken back.
* Amp: the end of a track starts the next one or stops; the queue interrupts a
  playlist, which resumes directly behind the track that was left; what is active
  is what plays; it can always be stopped.
* Spotify element: every command runs once, in order, and its caller returns
  after that; nobody touches a freed work; `create` sleeps on nothing that is
  there, leaves on unlock, plays nothing from before a seek, and ends with the
  track.
* Relay: one dog per user; a command runs at most once, its answer reaches exactly
  the client that asked; no client stays with a dog that is gone.
* Connection of a page: it goes on trying until its attempts are used up, its
  indicator is right, and it ends up connected when the relay stays up.
* Pages: when everything was said, what is shown is not older than the last
  change that was pushed; no button stays dead or shows the opposite of what the
  page knows.
* Album art: every request is answered in the end.

The code does not keep all of it: that the amp can always be stopped, that a
playlist resumes behind the track that was left also after `queueAndPlay`, that
nothing from before a seek is played, and that a pushed change is always seen do
not hold.  The properties say what does; the list of disagreements below says
what does not.

## The modules

| Module | Models | State | Actions |
|---|---|---|---|
| `PlaylistRows` | the methods of `Playlist` on the table `playlist_tracks` | none: operators on a value `t` of the table | one operator per method, all its SQL statements composed in their order |
| `VotingBooth` | abstract: what voting promises, without votes on rows, positions and lists | `ballot`, and which tracks have rows: `queue`, `saved` | `Place`, `Retract`, `Change` |
| `VoteQueue` | the database and every call that changes it | `rows`, `votes`, `left`, `playlists` = the tables `playlist_tracks`, `votes`, `users`, `playlists` | one per API call: `AddVote`, `RemoveVote`, `QueueTracks`, `RemoveTrack`, `RemoveTracks`, `CreatePlaylist`, ..., `CleanDatabase` |
| `Amp` | `amp.py` on top of `VoteQueue` (EXTENDS it), with what the command loop and the spotify element do to it | `amp`, a record of the fields of `Amp` (`list`, `row`, `fbList`, `fbRow`, `src`) and of GStreamer (`state`, `uri`, `up`, `ended`) | one per command, `EndOfStream`, `PlayTokenLost` |
| `CommandService` | abstract: what `run_spot_cmd` promises its callers | `line`, `served` | `Submit`, `Execute`, `Return` |
| `SpotWork` | `run_spot_cmd`, `spotify_thread_func`, `gst_spot_src_finalize` | `works` = `spot_works`; where each caller and the worker are; `keep` = `keep_spotify_thread` | one per stretch of statements that no other thread can get into |
| `SpotAudio` | `gst_spot_src_create`, `create_read`, `unlock`, `unlock_stop`, `stop` and libspotify's callbacks | `available` (adapter), `pos` (`read_position`), `ended`, `unlocked`, `lost`; the player; `call`, the callback that was begun; where the two threads are | the same, with the callbacks in two steps each, before and with the mutex: `Deliver` and `Push`, `EndOfTrack` and `NoteEnd`; `TokenLost` |
| `RemoteCall` | abstract: what the relay promises its clients | `asked`, `ran`, `got` | `Ask`, `Run`, `Answer` |
| `Relay` | `api_server.py`, and `on_data` with its threads in `dog.py` at the other end | `dogs`, `dog` (stream, `reading`, `active_handlers`), `process` (wire, threads, answers), `nbr`, `numbers`, `client` | one per handler: `SetUsername`, `Get`, `GetAlbumArt`, `Open`, `OnMessage`, `CommandCallback`, ...; `Lose`, `Leave`; `RunCommand`, `StartThread`, `Raise`, `FinishThread` in the dog |
| `ClientConnection` | `WSocket` and `AJAX` of `dogvibes-core.js` | the fields of the two objects (`connected`, `attempts`, `timer`), `icon` of the indicator, `sock` and `ws`, `req` and `request` | one per handler: `Retry`, `TimeOut`, `OnOpen`, `OnClose`; `GetStatus`, `Command`, `HandleStatus`, `Answered`, `Failed`; `GoDown`, `ComeBack` outside |
| `PageSocket` | what a page sees of its web socket | `connected`, `link`, `wire`, `back` | operators that the two pages compose |
| `PlaylistPage` | `Dogbone`, `Playqueue` and `Playlist` of dogbone, on `PageSocket`, and what the dog counts and pushes | copies `nav`, `table`, `queue`; `page`, `selected`, `known`; of the dog `lists`, `version`, `due` | `Connect`, `Notice`, `HandleStatus`, `UpdateQueue`, `Update`, `HandleResponse`, `Callback`, `CheckLocation`, `Edit`; `Serve`, `Elsewhere`, `EndOfStream`, `Restart` in the dog |
| `VotePage` | `Playqueue`, `voteButton`, `User` and `Activity` of dogbark, on `PageSocket`, and the listener's votes in the dog | copies `items`, `happened`, `user`; `buttons`, `actions`; of the dog `queued`, `mine`, versions | `DrawQueue`, `DrawActivity`, `SetUser`, `Click`, and as above |
| `PageSocketProofs` | lemmas on what is on its way, for both pages | | |
| `VoteQueueProofs`, `AmpProofs`, `RelayProofs`, `ClientConnectionProofs`, `PlaylistPageProofs`, `VotePageProofs` | the theorems about the module they are named after; `VoteQueueProofs` begins with lemmas on every operator of `PlaylistRows` | | |
| `SpotProofs` | the theorems about `SpotWork` and `SpotAudio` | | |
| `MCVoteQueue`, `MCAmp`, `MCSpotWork`, `MCConnection`, `MCPlaylistPage`, `MCVotePage` | instances for TLC | | |

### How they correspond to the code

`VoteQueue` takes a handler as one step because `dog.py` runs commands one after
the other on one thread (`on_data`).  (Every call opens a connection to the
database of its own, `database.py:6`, so it is not the database that keeps them
apart.)  A row is looked up by its id alone, in whatever list it is, and the list
that the method is called on closes up (`remove_playlist_tracks_id`): `Spec` has
removals through any list, `OwnSpec` those through the list that the row is in,
which is what a page asks for whose copy is fresh.  `Amp` takes a handler as one
step, too, for commands, whose step also contains the `push_status` that follows
(`Pushed`): building the status can start and pause a track, so it is not a
read.  The end of a stream is handled on another thread; `Amp` takes it as one
step between commands, and the interleaving of its statements with a command's
is left to the planned `AmpThreads`.

The result of a handler that may raise half-way (`change_track`) is a record of
the amp, the rows, the tracks whose votes were given back, and whether it
raised; what was assigned before the exception stays assigned.  A handler that
raises before it writes is a stuttering step.

Of the pipeline there is the state that it has reached.  `set_state` may fail
(`Failed`), for a track in `Broken`, which an element takes and cannot be paused
or played with: a pipeline that was stopped is then left in READY, which clients
see as paused, and nobody looks at the result.  Otherwise `set_state` polls until
the state is reached, and the model takes it that it is.

A track is a member of a set: its title, its uri and the row of the table
`tracks` do not matter to any property.  A user is stored by its first vote with
`InitialVotes`; starting with all users stored differs only in reads.  Names of
playlists and the version counters are left out.

`VotingBooth` knows which tracks have rows, in the queue and elsewhere.  A step that
gives votes back has to take a row away: one from the queue gives back all votes
on its track, and one from an ordinary playlist may (`playlist.py:334` does it for
every row that is removed by its id, `Playlist.remove` for none).  So the votes of
a track that is still queued may be cleared, but not without such a row.

In `SpotWork` the mutexes are not variables: which thread holds one follows from
where the threads are (`EventsFree`, `WorkFree`).  What a command does inside
libspotify is left out; that it ends is assumed.  In `SpotAudio` a command of
`run_spot_cmd` is one step, as `SpotWork` justifies, and audio is counted in
frames.  A callback of libspotify is two steps, one up to the adapter's mutex and
one with it, so that a seek, a stop or a start may come between them.  STOP and
START may fail, too.  A STOP that fails leaves the adapter, `read_position` and
`end_of_track` as they are, and the element is stopped again, started again or
goes on.  Three history variables mark what the code then gets wrong (see
below): `late` counts the frames of a delivery that straddles a clearing of the
adapter; `kept` says that `end_of_track` is of before a seek or a start; `strayed`
that PLAY failed behind its SEEK, or a track was started over what a failed STOP
left, until the adapter is cleared.

In `Relay` a handler is a step, as tornado's I/O loop calls one after the other.
The dog's process runs elsewhere: its commands, threads and exceptions are steps
of their own, with as many answers as a command can give (`removeTrack` and
`seek` answer twice on an error).  A command that cannot be written destroys the
dog: its connection is broken, or the command has a character that is not ASCII
(the FIXME at `api_server.py:62`), and then a dog that is alive is cut off
(`Destroyed`).  A dog connects once; what is on its way is lost with its
connection.  All dogs have one username, and all clients use it:
names share nothing but the counter of numbers.

Scripts of a page run one handler at a time, so a handler is a step in the three
client modules.  In `ClientConnection` a socket or a request that was begun while
the relay was down hangs until it opens, fails or is given up by a timer, in any
order; delays are left out, so a retry may come at any time.

`PlaylistPage` and `VotePage` start where `ClientConnection` ends: a page
connects when it is not connected.  Their socket is ordered, as a web socket and
the dog's single stream are, and it loses what is under way when it breaks; the
page notices later.  The dog is reduced to what decides whether a copy is fresh.
A copy carries the *time* at which the dog took it, which is a counter of changes
over all runs of the dog and not in the code; what the code compares is
`version`, which a restart sets to 0.  `told` is the time of the last change that
was pushed or would have been, had the page been there.  A moved row is pushed
without being counted, so time does not see it; `moved` counts the moves of this
page, which fetches the rows again after each, and a copy of rows carries it.  The dog's commands have
the effects of `VoteQueue`'s: which of them change the version and which push is
taken from `playlist.py` and the calls.

In `VotePage` the first track, which shows no button, what plays, and the buttons
of searches and albums are left out.  Here time counts `vote_version`.  Votes that are
given back without counting it (by `next`, by `queueAndPlay`, through a playlist)
are steps of others, pushed or not; the history variable `quietly` marks that some
were since the last count.  The history variable `missed` marks that the answer to
`User.update` was lost or the dog restarted: User, unlike the queue and the
activity, is not fetched when the page connects.  In both cases the votes that
the page knows may be old (see below), and `UserFresh` leaves that out.

### What is assumed of code that is not here

* GStreamer: `set_state` without a source does nothing, NULL takes the element
  down, removing the element from the pipeline does not, a running spotify
  element keeps its uri, and a stream that has ended does not end again until
  something is started, stopped or sought.  `create` is called with consecutive
  offsets unless a seek comes in between; a result other than OK pauses the
  task; a seek or a stop goes on when `create` has returned.  After a stop that
  failed the element may be stopped or started again, or `create` be called
  without either.
* libspotify: a loaded and playing track is delivered in order, and its end is
  reported once it was delivered.  It calls back on one thread, so two callbacks do
  not overlap, and a callback that was begun goes on, whatever the commands do.
* GLib: waiting on a condition ends by a signal (or by its timeout).  A wait that
  returned without either would break `run_spot_cmd`, which has no predicate.
* tornado (vendored): writing to a closed stream raises `IOError`, and a stream
  that nobody reads from keeps its data.

Definitions whose comment begins "Variant of X for the checks" are deliberately
wrong forms of X, each a plausible mistake; no specification uses them.  They are
put in the place of X to see that a property can fail.

## Runs

| Run | Specification and instance | Shows |
|---|---|---|
| `VoteQueue` | all calls, rows removed through any list; 2 users with 2 votes, 2 tracks, 1 ordinary playlist, row ids and positions up to 3, at most 2 votes on a row | `TypeOK`, `VoteBudget`, `VotesAreQueued`, `ListsKept`, and that it implements `VotingBooth` (`BoothSpec`) |
| `Voting` | votes and removals only; 3 users with 3 votes, 4 tracks, row ids up to 5 | `QueueSorted`, `VotesMatchVoters` |
| `Amp` | playing with the queue or with an ordinary playlist that is edited meanwhile, where clients may play rows that are gone (`ApartSpec`); 1 voter, 2 tracks, one Spotify's and one that cannot be started, row ids up to 3 | `AmpTypeOK`, `SpotFollows`, `ListsContiguous` |
| `AmpListening` | playing and queueing after a playlist of two tracks was saved; four tracks, of which two are Spotify's, one of these cannot be started and one of the others has no element that plays it; row ids up to 4 | `SpotFollows`, `ResumesBehind`, `EndPlaysNext`, `EndKeepsPlaylists`, `StartsActive` |
| `SpotWork` | 3 callers and the worker | `WorkTypeOK`, `WorksAlive`, that it implements `CommandService` (`ServiceSpec`), `CommandsRun`, `WaitersReturn`, `JoinReturns` |
| `SpotAudio` | blocks of 2 frames, an adapter of 2, deliveries of 1 or 2, a track of 5, seeks to 0, 2 and 3 | `AudioTypeOK`, `NoMissedData`, `OldAudioBounded`, `EndAtEnd`, `WaitingReaderLeaves` |
| `Relay` | 2 connections, 1 page, 1 web socket that sends at most 2 commands | `RelayTypeOK`, `OneDog`, `SocketsServed`, `WaitersListed`, that it implements `RemoteCall` (`CallSpec`), `AnswerArrives` |
| `Connection` | either object; 3 sockets and 3 requests at a time, 3 attempts; the relay goes down and comes back at any time | `ConnTypeOK`, `NeverStranded`, `IndicatorAgrees`, `Reconnects` |
| `PlaylistPage` | 2 ids of playlists, 2 changes of the version, 1 row moved by the page; people act while fewer than 2 messages are on their way to the page | `PageTypeOK`, `TableFresh` |
| `VotePage` | 2 tracks, a listener with 1 vote, 2 changes of `vote_version` and 2 of the version; people act while no message is on its way to the page | `ButtonsLive`, `UserFresh` |

Runs that end in a counterexample, because the code does not do what it says:

| Run | Property | What happens |
|---|---|---|
| `AmpForeign` | `EndKeepsPlaylists` | after a row id was given out again the end of a track deletes a row of an ordinary playlist |
| `SpotUnlock` | `UnlockReleases` | an unlock between the test of `unlock_state` and the wait is not seen |

Disagreements and oddities met while modelling, without a run of their own:

* `playlist.py:133` and `143` keep "the first entry" where it is, and
  `unittests/test_the_dog.py:185` expects that; a down vote moves it.
* `playlist.py:144`: in a queue of one row with two votes, `remove_vote` would move the
  row to position 2, which `move_track` refuses with an exception before anything is
  written, and the vote is not given back (compare `test_the_dog.py:213`).
* `playlist.py:325`: `remove_playlist_tracks_id` looks the row up by its id alone and
  closes up the rows of the list that it is called on; neither `removeTrack`
  (`amp.py:552`) nor the calls for playlists (`dogvibes.py:217`, `226`) check that the
  row is in that list.  A page may well send the id of another list's row (see
  `dogbone-modules.js:622` below): the list of the row keeps a hole, and two rows
  of the list that is named may come to share a position.
* `playlist.py:334`: a row that is removed from an ordinary playlist clears the votes
  on its track, also while that track is in the queue, whose row keeps the number.
* `amp.py:132` says that what plays is "always on top in playqueue"; a vote, a
  removal or a move changes the first entry and not what plays.
* `amp.py:546` means to refuse the removal of the playing track; it compares ids
  of different tables and goes on in both cases.
* `amp.py:382` and `535`: `playTrack` in the queue and the end of a stream save where
  the amp was before it uses the queue, `queueAndPlay` does not, so the playlist is
  not resumed, or one that was left earlier is.
* `api_server.py:49` and `250` say that dangling handlers are cleaned up. A web
  socket that closes sets `_finished` to False (line 302) and the request of a
  client that has gone never finishes: both stay listed.
* `amp.py:297`: `fetch_active_track` starts the first row while the pipeline may
  play.  When that track cannot be played, the source is taken out of the playing
  pipeline, and `set_state` does nothing without a source: stop and pause no longer
  act.
* `amp.py:298` and `385`: when the first track of a playlist cannot be played there is
  no active row, and -1 is saved as the row to go back to; when the queue has run
  empty, `get_track_id(-1)` raises and playback is over.
* `gstspotsrc.c:1538` says that the element must be stopped to be given a uri;
  `amp.py:297` starts a track without stopping the pipeline, and the element, which
  refuses, plays the old track as the new active one (`refused` in `Amp`).  With two
  tracks of Spotify: the queue runs empty, which leaves no active row, pause takes
  the element back up with its old uri, a vote puts another track into the queue,
  and play starts it.  A track of another source that is then started takes the
  element out of the pipeline without stopping it, and the next track of Spotify
  is refused, too.
* `amp.py:252`: a change of state that fails is logged, `start_track` returns True all
  the same, and the row is the active one although nothing plays; nothing moves the
  amp on.
* `gstspotsrc.c:241` and `1164`: a delivery that has begun before a seek, a stop or a
  start and gets the mutex behind the clearing of the adapter puts old frames into
  it; likewise an end of track (`169`) that straddles them.
* `gstspotsrc.c:1491`: when STOP fails, `end_of_track`, `read_position` and the adapter
  stay; the next track then begins with the rest of the last one, or ends at once.
* `gstspotsrc.c:1142`: a seek after the end of the track was reported, while the rest
  of the buffer plays, leaves `end_of_track` set: the end of stream is sent as soon
  as the adapter is empty.
* `gstspotsrc.c:496` and `502`: a caller that puts its command in the list and
  waits only then waits for good when the worker was faster.
* `dog.py:68`: exceptions other than the four that `run_command` catches leave
  `on_data` before it reads on: the dog answers nothing more and stays registered.
* `dogbone/dogvibes-core.js:149`: the comment says "Give up", and `stop` is called
  on every error, also when a retry was just set up.
* `dogbone/dogvibes-core.js:116`: a socket that was given up may open beside its
  successor.  The page is then connected by one and sends on the other, `ws`,
  whose exceptions `send` swallows.
* `dogbone/dogvibes-core.js:39`: `AJAX.stop` aborts the last request only; a late
  answer to another poll connects the page again after "Give up".
* `dogbone/dogbone-modules.js:622`: while the rows of another list are on their way,
  the remove icon of a row sends its id with the id of the new list.
* `dogbone/dogbone-modules.js:151`: `display` of a table forgets the selected rows
  and not `selectedItem`, the row that a shift-click counts from.
* `dogvibes.py:190` and `254`: creating a playlist and moving a row do not change
  the version (and creating is not pushed), so other pages do not fetch them before
  something else changes.
* `amp.py:537` and `dogvibes.py:217`: `queueAndPlay` and removals from playlists give
  votes back, push and do not count `vote_version`, `next` does not even push; the
  buttons of voters show votes that they no longer have.
* `dogbark/dogbone-modules.js:401`: votes are not fetched when a page connects, as the
  queue and the activity are; after a lost answer, or when a restarted dog comes
  to the same `vote_version`, the buttons show old votes.
* `dogbark/dogbone-modules.js:380`: when `remove_vote` raises (`playlist.py:144`),
  nothing is counted or pushed, and the button in the activity that was clicked
  stays dead.

**Bounds.** `MaxRowId` bounds the ids that a run gives out and, where removals
through other lists leave holes, the positions; as ids are given out again, a bound
of n still has unboundedly long sessions on n rows.  Three rows are enough for
every case of a move (before, at, behind the row) and for a removal through a list
that has a row before and one behind the position; two playlists are enough for
every case of a removal by id.  `MaxRowVotes` bounds the votes of
a row: a track queued twice keeps the votes of one row when the other is removed,
so nothing in the code does.  Three callers in `SpotWork` are one being served,
one in line and one coming.  In `SpotAudio` the last block of a track of 5 is
short, deliveries of 1 fill a block in two steps, and seeks go to the start, to
a block's edge and between edges.  Two connections in `Relay` are a dog and its
successor; a web socket with two commands has one answered while the other is on
its way; `MaxSent` bounds commands and `nbr` is bounded by the clients.
Three sockets in `Connection` are one in use, one given up that may still open and
one that takes its place; of three requests one is left for polls; three attempts
are used up and restored, and commands go on for two failures behind them.  In
the pages, two changes of a version are enough for a restarted dog to come to a
version that the page knows with another content; two playlists are one shown
and one to go to; one moved row (`MaxMoves`) meets everything that can come between
it and the rows fetched again; with one vote the listener has none left after it.
`MaxWaiting` keeps people slower than the page reads: everything that is set off
by one action of one person still meets one of another, the end of a stream, a
restart and a break at any point.

**Why `Amp` has several specifications.** With playlists, queue and outdated
clients all together the lists lose their order (`AmpForeign` shows one way):
positions are shared or grow past any bound.  So each passing run leaves out an
ingredient; the proofs about `AmpSpec`, which has all of them, also rows named in
another list (`Astray`), say what holds nevertheless.  In `ApartSpec`, of the run `Amp`, nobody queues while there is an ordinary playlist, and playlists are
made and edited only while the queue is empty.

**Fairness.** `VoteQueue` and `Amp` state safety only: what a listener does next
is not the code's to guarantee.  In `SpotWork` a thread that can go on does:
weak fairness of the worker, whose wait is timed and so ends by itself, and of
each caller inside `run_spot_cmd`; nobody has to call, and the element need not
be finalized.  In `SpotAudio` the same holds of the streaming thread and of the
broadcast inside `unlock`; libspotify and listeners need do nothing.  In `Relay`
the I/O loop handles what has arrived (`CommandCallback`); dogs may be silent,
clients may leave, and connections may break at any time.  In `ClientConnection`
the browser's timers fire, and a socket or a request that was begun ends in one
way or the other; the relay need not come back.  `Reconnects` therefore says what
follows when it stays up.  The pages state safety of quiet states (`AllSaid`).

**Deadlock** is checked in the runs of `VoteQueue`, `Amp`, `ClientConnection` and
the pages.  It is not in `SpotWork`, which ends when the element was finalized; in
`SpotAudio`, where `SpotUnlock` can leave
nothing to happen; and in `Relay`, where all clients may have left and all
connections may have broken.

## Proofs

All theorems hold for every value of the constants under the assumption that the
module states (`VoteQueueAssumption`, `AmpAssumption`, `SpotAudioAssumption`,
`RelayAssumption`, `ConnectionAssumption`, `PageAssumption`; `SpotWork` and
`VotePage` need none).
They say that ids, bounds and tracks are what their names say, not how many there
are.  The theorems on `SteadyInv` have a hypothesis besides, which stands in their
statement, `FirstPlays`, explained below.  Each theorem rests on
an inductive invariant (`IInv`, or `VotingInv`, `AmpInv`, `ApartInv`,
`ListeningInv`, `SteadyInv`, `WorkInv`, `AudioInv`, `PageInv`, `VoteInv`), shown for the initial states and for each
action, and implying what is stated.

| Module | Theorem | Statement |
|---|---|---|
| `VoteQueueProofs` | `TypeCorrect` | `Spec => []TypeOK` |
| | `BudgetKept` | `Spec => []VoteBudget` |
| | `VotesQueued` | `Spec => []VotesAreQueued` |
| | `OrderKept` | `Spec => ListsKept` |
| | `Contiguity` | `OwnSpec => []ListsContiguous` |
| | `Refinement` | `Spec => BoothSpec` |
| | `QueueOrderedByVotes` | `VotingSpec => []QueueSorted` |
| | `VotesOfVoters` | `VotingSpec => []VotesMatchVoters` |
| `AmpProofs` | `AmpTyped` | `AmpSpec => []AmpTypeOK` |
| | `SpotFollowed` | `AmpSpec => []SpotFollows` |
| | `AmpBudgetKept` | `AmpSpec => [](TypeOK /\ VoteBudget /\ VotesAreQueued)` |
| | `AmpRefinement` | `AmpSpec => BoothSpec` |
| | `ApartContiguity` | `ApartSpec => []ListsContiguous` |
| | `PlaylistsKept` | `ListeningSpec => EndKeepsPlaylists` |
| | `ResumedBehind` | `FirstPlays => (ListeningSpec => ResumesBehind)` |
| | `EndStartsNext` | `FirstPlays => (ListeningSpec => EndPlaysNext)` |
| | `ActiveStarted` | `FirstPlays => (ListeningSpec => StartsActive)` |
| `SpotProofs` | `WorkTypeCorrect` | `WorkSpec => []WorkTypeOK` |
| | `NoFreedWork` | `WorkSpec => []WorksAlive` |
| | `ServesCommands` | `WorkSpec => ServiceSpec` |
| | `AudioTypeCorrect` | `Spec => []AudioTypeOK` |
| | `NoWakeupMissed` | `Spec => []NoMissedData` |
| | `OldAudioLimited` | `Spec => []OldAudioBounded` |
| | `EndAfterTrack` | `Spec => EndAtEnd` |
| `RelayProofs` | `RelayTypeCorrect` | `Spec => []RelayTypeOK` |
| | `OnlyOneDog` | `Spec => []OneDog` |
| | `NoSocketForgotten` | `Spec => []SocketsServed` |
| | `AnswersOnlyCallers` | `Spec => CallSpec` |
| | `WaitersStayListed` | `Spec => []WaitersListed` |
| `ClientConnectionProofs` | `ConnTypeCorrect` | `ConnSpec => []ConnTypeOK` |
| | `GoesOn` | `ConnSpec => []NeverStranded` |
| | `IndicatorShowsConnection` | `ConnSpec => []IndicatorAgrees` |
| `PlaylistPageProofs` | `PageTyped` | `Spec => []PageTypeOK` |
| | `PageIsFresh` | `Spec => []TableFresh` |
| `VotePageProofs` | `VotesAreFresh` | `Spec => []UserFresh` |
| | `ButtonsAlive` | `Spec => []ButtonsLive` |

**`VoteQueue`.** `Safe` is the invariant of `Spec`: it adds to the types, the votes
left and `VotesAreQueued` that the ids in use are a finite set (so that a new id is
new) and that ballots are finite (so that they can be counted).  It needs no order
of positions and so survives a removal through any list.  `Owned` says that every
row is of a list that exists.  The order is an invariant of `OwnSpec` only (`IInv`,
which demands it of the positions of *every* list, not only of those that exist, as
a playlist that is created gets the id of one that is gone); of `Spec` the theorem
`OrderKept` says that the call that breaks it is a removal through a list that the
row is not in.  The work is in the first part of `VoteQueueProofs`: for every
operator of `PlaylistRows` one lemma says what the new table is (`MoveTrackTable`,
`AddTracksTable`, ...) and one that it keeps the order of the playlist it changes
and leaves the others alone (`MoveTrackOrder`, ...).  `RemoveRowOrder` needs that
the row is a row of the playlist the method is called on; no call in the code makes
sure of that.

For `Refinement` every step is a `Place`, a `Retract` or a `Change` of the booth: a
`Change` may clear the votes on the tracks of rows that it takes away and has to
clear those that leave the queue, so a handler that gave votes back without a row, or
let a row of the queue go without, would be no step of the booth.

`VotingInv` is for votes alone: no track is in the queue twice (`OneRowEach`), a row
has as many votes as its track has voters and at least one (`Counted`), and the
rows behind the first are ordered by votes (`Sorted`).  That a row has a vote is why
a new row, which has one, belongs at the end; that a track has one row is why the
votes of the table and the voters of the table agree after both were changed.

**`Amp`.** `AmpInv` is the invariant of the database without the order of the
playlists (`Safe`) and that the amp is sound (`AmpSound`).  Most of the amp's
functions call each other, so each has a lemma that takes any sound amp and any
table to a sound amp, and a step is put together from the lemmas of the functions
it calls.  No order of positions is needed: the types, the pipeline and the votes
are right also where `AmpForeign` shows that the order is not.

`ApartInv` is that the queue has rows only while there are no ordinary playlists,
so that a row that is removed through the queue is one of the queue, and the order
survives.

`ListeningInv` is that the active row is a row of the active playlist (`Placed`), as
is the row to go back to (`Back`), and that every playlist is in order.  The end of a
stream therefore removes through the queue only what is in the queue
(`PlaylistsKept`).

`SteadyInv` adds what keeps playback going: the active playlist has rows and one of
them is active (`AtHome`), the row to go back to exists (`Firm`), what plays has a
source and a row, and no stream has ended without a successor (`Calm`); `Started`
follows the uri of the source from the row that became active.  It needs
`FirstPlays`: some element takes the first track of the saved playlist.  Without it
`fetch_active_track` leaves no active row, `play_track` then saves -1 as the row to
go back to, and when the queue has run empty `change_track` raises and nothing plays.

`ResumedBehind` is put together of what changes the two saved ids (`Stays`, `Saves`:
a step that leaves a playlist for the queue saves where it was, but for
`queueAndPlay`, every other leaves them) and of where the end of a stream goes when
the queue is empty.  `EndStartsNext` says what the end of a stream does to the track
that is next: it plays if an element takes and starts it.  When the next track
cannot be played the amp does not play and looks no further, which the statement
says, too.  Both it and `ActiveStarted` are of steps with the spotify element *in
hand* (`InHand`: stopped, or in the pipeline of an active row); that is what
`change_track` leaves behind, and what `fetch_active_track` may spoil (see the
oddities).  The run `AmpListening` has steps of both kinds.

**`SpotWork`.** `Settled` adds that a caller that was woken has its result, which is
why a return maps to `Return` of `CommandService`, and that a worker is gone only
when it was told to.

**`SpotAudio`.** `EndReported` (an end was reported, with everything delivered) and
`EndFound` (create reports the end only when no block is left) carry `EndAtEnd`;
`SoughtWanted` and `WantedInTrack` follow a seek from the wanted offset to
`read_position`, and `AudioCounted` says that what is in the adapter behind that
position was delivered by the player where it is, or is late.  `LateOnce` is why
the latter is one delivery at most: the callbacks are on one thread, so that only
one is under way when the adapter is cleared.  `Halted` says what can still come
between a STOP and the next START.

**`Relay`.** `Numbered` says that numbers are unique and never reassigned.
`Traffic` says that every message under way carries the number of its client,
that commands on a wire have not been run and are there once (`Distinct`), and
that answers are for commands that were run.  `ran` is the sequence of all runs, so
that a second run of a command would be a step that `RemoteCall` does not have.  A
command is therefore run once, and the one handler with an answer's number is the one of its client.
`WaitersStayListed` adds `Idle`: nothing is under way on a connection that is not
open, so a dog that is destroyed with its list of handlers has no request left.

**`ClientConnection`.** `IInv` adds `ObjectsApart`: the object that a page does not
use has nothing under way and sets no timer, and a web socket that is taken for
connected has no timer that could give it up.  Without it a late answer to a
poll could stop the timer of a web socket.

**`PlaylistPage`.** `TableFresh` speaks of quiet states; `PageInv` says what holds
while messages are on their way.  The newest copy that is on its way counts as
the page's copy (`Newest`), and a copy is `Current` when it is not older than the
last change that was pushed, nor than the version that the page knows.  The
latter is compared through `time - version`, which a run of the dog does not
change.  For each of the navigation, the rows and the queue: it is asked for, or
a status is on its way that will make the page ask (`Renews`), or the newest copy
is current (`NavCurrent`, `QueueCurrent`, `TableCurrent`).  `Replaced` is for
restarts: a version that this run has not come to cannot stay, because a page that
connects asks for the status before anything else.  `RowsOfPage` says that of
several answers with rows the last is of the list that is shown; a move of the
page is in its newest rows, or the callback that fetches them is on its way
(`Recalls`).  `Linked` and
`Stamped` say that a broken connection has nothing under way and no copy is
from the future.

**`VotePage`.** `VoteInv` is about messages, too, but the page has to be told twice:
of a vote_version, which makes it ask, and then of the votes.  A version cannot be
compared with the time at which the dog took the votes; `time - voteVersion`, which
a run of the dog does not change, makes them comparable (`Informs`).  `VotesTold` is
the first half: a message that carries a vote_version of the last push or later is
on its way, or the page knows one and none is on its way, or it has asked for a
status.  `VotesCopied` is the second: the newest votes on their way are as new as the
vote_version that the page knows, or asked for.  It can be broken only by losing an
answer to `User.update`, because no new connection asks for one; the history variable
`missed` says that one was lost, and `Follows` that this does not matter since
another one is on its way.  `Copies` relates a copy to the votes themselves: one that
is of the newest vote_version is right, unless votes were given back since without
being counted.  `Rising`, that vote_versions arrive in the order in which
they were counted, is why reading one does not hide a later one.

`ButtonsLive` is the other chain: a button that waits has its command on its way, or
the answer to it and a version that the page does not know, or the status that
brings this version (`Renews`), or the queue itself (`Awaited`).  An answer of the
dog keeps it only because `vote` and `unvote` count the version up (`Serves`), so that
it is above the one that the page knows.  For that the page must not know a version
that this run of the dog has yet to come to (`StatusFirst`): a page that knows one
from before a restart has no buttons, and of what can make it draw some the status
comes first, since a page that connects asks for it first and error empties
the list (`NothingShown`).  `ButtonsRight` is that no button is for the opposite of
what the page knows; it holds at all times.

The steps of the dog are reduced to one (`DogStep`): the versions grow, and what is
written is an answer to the command that was next, if any, and pushes after it.  The
steps of the page are reduced to reading the next message (`Reads`).

Only model-checked is all liveness (`CommandsRun`, `WaitersReturn`, `JoinReturns`,
`WaitingReaderLeaves`, `AnswerArrives`, `Reconnects`), which needs fairness and so is
out of the prover's reach.  Every invariant and every action property of a passing
run, and every refinement, is stated by a theorem.

## Not modelled

Search, lyrics and album listings (no state of the dog); volume, speakers and
connecting sources; the login server; the
earlier relays.  Of the pages: searches, artists and albums, the table of results
with its sorting and selection, player controls, drag and drop, sliders, layout
and touch (`Search`, `Artist`, `ResultTable`, `PlayControl`, `TrackInfo`,
`EventManager`, `Popup`), whose state is what they show.  Most of the JavaScript
in the repository is not Dogvibes' own: `Attic` and `trash` hold prototype,
scriptaculous and controllers of servers that are gone, the clients ship jQuery,
its plugins and FABridge.  About a fifth of it is the two clients' own code, so a
share of all JavaScript lines says little about what is modelled.  Of the relay: the login by
Twitter, the redirect to a near server and the text of commands.  Of the
spotify element: queries, the resolving of uris and what a command does inside
libspotify.  `unittests/` and `test/` were read, not modelled.

## Plan

The parts above were written in the order of what the dog is for: the queue,
what plays, the element that plays it, the relay, the pages.  What is left, in order:

1. `AmpThreads`: `change_track` at the end of a stream against a command,
   statement by statement, with a crash between two statements.
2. `StatusPush`: `needs_push_update` between the GLib thread and the command loop.
3. `DogStream`: answers of several threads on one stream (`return_data` and
   `IOStream.write`, which were not written for several threads): the write
   buffer and the events that the I/O loop waits for.
4. The session in the spotify element: LOGIN, LOGOUT and what libspotify
   reports later.
5. `AlbumArt`: the shared list of downloads.
