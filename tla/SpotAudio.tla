-------------------------------- MODULE SpotAudio --------------------------------
(***************************************************************************)
(* The audio of the spotify element (gstspotsrc.c) on its way from         *)
(* libspotify to GStreamer: music_delivery and end_of_track fill the       *)
(* adapter, create takes blocks out of it on the streaming thread, and the *)
(* thread that controls the pipeline seeks and stops with unlock and       *)
(* unlock_stop.  Audio is counted in frames.                               *)
(*                                                                         *)
(* A step is what a thread does between two points where another can get   *)
(* in.  A command of run_spot_cmd is one step.  From GStreamer the model   *)
(* takes that create is called with consecutive offsets unless a seek      *)
(* comes in between, that a result other than OK pauses the task, and that *)
(* a seek or a stop goes on when create has returned.  From libspotify it  *)
(* takes that a loaded and playing track is delivered in order, that the   *)
(* end is reported once it was delivered, and that both are called on one  *)
(* thread; a callback that was begun goes on, whatever the commands do.    *)
(* Tracks are alike, so a uri that is refused (the one before it is        *)
(* started again) makes no difference here.                                *)
(***************************************************************************)
EXTENDS Naturals

CONSTANTS
    Block,      \* the frames that create asks for
    Room,       \* the adapter is full with so many frames (buffer_time)
    Chunks,     \* how many frames a delivery may have
    Track,      \* the frames of a track
    Targets     \* where to a seek may go

ASSUME SpotAudioAssumption ==
    /\ Block \in Nat \ {0}
    /\ Room \in Nat \ {0}
    /\ Track \in Nat
    /\ Chunks \in SUBSET (Nat \ {0})
    /\ Targets \in SUBSET (0 .. Track)

VARIABLES
    available,  \* the frames in the adapter
    sent,       \* position in the track behind the last frame that was taken
    player,     \* libspotify: "off", "playing", "paused"
    reported,   \* libspotify has reported the end of the track
    call,       \* libspotify's thread: "none", or in the callback for "frames" or the "end"
    coming,     \* the frames of the delivery that was begun
    stale,      \* the player did SEEK, STOP or START since the callback was begun
    ended,      \* end_of_track
    unlocked,   \* unlock_state
    lost,       \* play_token_lost
    pos,        \* read_position
    want,       \* the offset of the next call of create
    reader,     \* where the streaming thread is in create
    control,    \* where the controlling thread is
    strayed,    \* history: PLAY failed behind a SEEK, or a track was started over what a
                \* failed STOP left, and the adapter was not cleared since
    kept,       \* history: end_of_track is of before a seek or a start
    late        \* history: the stale frames that came since the adapter was cleared

playing == <<sent, player, reported>>
callback == <<call, coming, stale>>
flags == <<ended, unlocked, lost>>
offsets == <<pos, want>>
histories == <<strayed, kept, late>>
vars == <<available, playing, callback, flags, offsets, reader, control, histories>>

\* Not in create; PLAY done after a lost token; at the test of unlock_state; SEEK
\* done; adapter cleared; before the adapter's mutex; waiting; woken up; before
\* do_end_of_track; the task is paused.
ReaderPlaces == {"out", "replayed", "entered", "sought", "cleared", "ready",
                 "waiting", "woken", "ending", "paused"}

\* No seek or stop going on; unlock_state set; unlock returned; STOP done; STOP
\* failed; stopped.
ControlPlaces == {"none", "flagged", "unlocked", "stopped", "refused", "idle"}

\* A started element.
Init ==
    /\ available = 0 /\ sent = 0 /\ pos = 0 /\ want = 0
    /\ player = "playing" /\ call = "none" /\ coming = 0 /\ stale = FALSE
    /\ reported = FALSE /\ ended = FALSE /\ unlocked = FALSE /\ lost = FALSE
    /\ strayed = FALSE /\ kept = FALSE /\ late = 0
    /\ reader = "out"
    /\ control = "none"

\* g_cond_broadcast (adapter_cond)
Signalled == IF reader = "waiting" THEN "woken" ELSE reader

\* A callback that was begun is of what the player did before.
Outdated == call # "none"

-------------------------------------------------------------------------------
(* libspotify *)

\* spotify_cb_music_delivery up to the adapter's mutex
Deliver(n) ==
    /\ player = "playing" /\ call = "none"
    /\ sent + n <= Track
    /\ call' = "frames" /\ coming' = n /\ stale' = FALSE
    /\ UNCHANGED <<available, playing, flags, offsets, reader, control, histories>>

\* Variant of Push for the checks: the reader is not woken.
PushSilently ==
    /\ call = "frames"
    /\ IF available >= Room THEN UNCHANGED <<available, sent, late>>
       ELSE /\ available' = available + coming
            /\ sent' = IF stale THEN sent ELSE sent + coming
            /\ late' = IF stale THEN late + coming ELSE late
    /\ call' = "none" /\ coming' = 0 /\ stale' = FALSE
    /\ UNCHANGED <<player, reported, flags, offsets, reader, control, strayed, kept>>

\* The rest of it: a full adapter takes nothing.
Push ==
    /\ call = "frames"
    /\ IF available >= Room THEN UNCHANGED <<available, sent, late>>
       ELSE /\ available' = available + coming
            /\ sent' = IF stale THEN sent ELSE sent + coming
            /\ late' = IF stale THEN late + coming ELSE late
    /\ call' = "none" /\ coming' = 0 /\ stale' = FALSE
    /\ reader' = Signalled
    /\ UNCHANGED <<player, reported, flags, offsets, control, strayed, kept>>

\* spotify_cb_end_of_track, before and with the mutex
EndOfTrack ==
    /\ player = "playing" /\ call = "none" /\ sent = Track /\ ~reported
    /\ reported' = TRUE
    /\ call' = "end" /\ stale' = FALSE
    /\ UNCHANGED <<available, sent, player, coming, flags, offsets, reader, control, histories>>

NoteEnd ==
    /\ call = "end"
    /\ ended' = TRUE /\ kept' = (kept \/ stale)
    /\ call' = "none" /\ stale' = FALSE
    /\ reader' = Signalled
    /\ UNCHANGED <<available, playing, coming, unlocked, lost, offsets, control, strayed, late>>

\* spotify_cb_play_token_lost
TokenLost ==
    /\ player = "playing"
    /\ player' = "paused"
    /\ lost' = TRUE
    /\ UNCHANGED <<available, sent, reported, callback, ended, unlocked, offsets, reader, control,
                   histories>>

-------------------------------------------------------------------------------
(* The streaming thread: gst_spot_src_create and create_read *)

\* A command failed: create returns an error.
Failed ==
    /\ reader \in {"out", "entered", "cleared"}
    /\ reader = "out" => lost
    /\ reader = "entered" => pos # want /\ ~unlocked
    /\ control = "none" \/ reader # "out"
    /\ reader' = "paused"
    /\ strayed' = (strayed \/ reader = "cleared")
    /\ UNCHANGED <<available, playing, callback, flags, offsets, control, kept, late>>

\* create; after a lost token the player plays again first.
Create ==
    /\ reader = "out" /\ control = "none"
    /\ reader' = IF lost THEN "replayed" ELSE "entered"
    /\ player' = IF lost THEN "playing" ELSE player
    /\ UNCHANGED <<available, sent, reported, callback, flags, offsets, control, histories>>

ForgetLoss ==
    /\ reader = "replayed"
    /\ lost' = FALSE
    /\ reader' = "entered"
    /\ UNCHANGED <<available, playing, callback, ended, unlocked, offsets, control, histories>>

\* create_read up to the mutex, when the offset is the expected one.
Enter ==
    /\ reader = "entered"
    /\ unlocked \/ pos = want
    /\ reader' = IF unlocked THEN "paused" ELSE "ready"
    /\ UNCHANGED <<available, playing, callback, flags, offsets, control, histories>>

\* The three steps of a seek: the player seeks, the adapter is cleared, the player
\* plays.  libspotify goes on delivering in between.
SeekPlayer ==
    /\ reader = "entered" /\ ~unlocked /\ pos # want
    /\ sent' = want
    /\ reported' = FALSE
    /\ stale' = Outdated /\ kept' = (kept \/ ended)
    /\ reader' = "sought"
    /\ UNCHANGED <<available, player, call, coming, flags, offsets, control, strayed, late>>

\* Variant of ClearAdapter for the checks: what was delivered stays.
ClearNothing ==
    /\ reader = "sought"
    /\ strayed' = FALSE /\ late' = 0
    /\ reader' = "cleared"
    /\ UNCHANGED <<available, playing, callback, flags, offsets, control, kept>>

ClearAdapter ==
    /\ reader = "sought"
    /\ available' = 0 /\ strayed' = FALSE /\ late' = 0
    /\ reader' = "cleared"
    /\ UNCHANGED <<playing, callback, flags, offsets, control, kept>>

PlayOn ==
    /\ reader = "cleared"
    /\ player' = "playing"
    /\ pos' = want
    /\ reader' = "ready"
    /\ UNCHANGED <<available, sent, reported, callback, flags, want, control, histories>>

\* Variant of TakeBlock for the checks: a shorter rest is taken as a block.
TakeRest ==
    /\ available > 0
    /\ available' = available - Block
    /\ pos' = pos + Block
    /\ want' = want + Block
    /\ reader' = "out"

\* With the adapter's mutex: take a block, or find the end, or wait.
TakeBlock ==
    /\ available >= Block
    /\ available' = available - Block
    /\ pos' = pos + Block
    /\ want' = want + Block
    /\ reader' = "out"

\* Variant of FindEnd for the checks: the end is looked at before the adapter.
FindEndFirst ==
    /\ ended
    /\ reader' = "ending"
    /\ UNCHANGED <<available, offsets>>

FindEnd ==
    /\ available < Block /\ ended
    /\ reader' = "ending"
    /\ UNCHANGED <<available, offsets>>

StartWaiting ==
    /\ available < Block /\ ~ended
    /\ reader' = "waiting"
    /\ UNCHANGED <<available, offsets>>

Read ==
    /\ reader = "ready" \/ (reader = "woken" /\ ~unlocked)
    /\ TakeBlock \/ FindEnd \/ StartWaiting
    /\ UNCHANGED <<playing, callback, flags, control, histories>>

\* Woken up with unlock_state set.
Leave ==
    /\ reader = "woken" /\ unlocked
    /\ reader' = "paused"
    /\ UNCHANGED <<available, playing, callback, flags, offsets, control, histories>>

\* do_end_of_track: the end of stream goes downstream, end_of_track is reset.
SendEnd ==
    /\ reader = "ending"
    /\ ended' = FALSE /\ kept' = FALSE
    /\ reader' = "paused"
    /\ UNCHANGED <<available, playing, callback, unlocked, lost, offsets, control, strayed, late>>

-------------------------------------------------------------------------------
(* The controlling thread *)

\* gst_spot_src_unlock sets the flag and broadcasts, without the adapter's mutex.
Unlock ==
    /\ control = "none"
    /\ unlocked' = TRUE
    /\ control' = "flagged"
    /\ UNCHANGED <<available, playing, callback, ended, lost, offsets, reader, histories>>

\* Variant of Broadcast for the checks: nobody is woken.
BroadcastNobody ==
    /\ control = "flagged"
    /\ control' = "unlocked"
    /\ UNCHANGED <<available, playing, callback, flags, offsets, reader, histories>>

Broadcast ==
    /\ control = "flagged"
    /\ reader' = Signalled
    /\ control' = "unlocked"
    /\ UNCHANGED <<available, playing, callback, flags, offsets, histories>>

\* The task is paused, or will be before create is called again.
Parked == reader \in {"out", "paused"}

\* A flushing seek: gst_spot_src_unlock_stop, and create with another offset.
Seek(target) ==
    /\ control = "unlocked" /\ Parked
    /\ unlocked' = FALSE
    /\ want' = target
    /\ reader' = "out"
    /\ control' = "none"
    /\ UNCHANGED <<available, playing, callback, ended, lost, pos, histories>>

\* gst_spot_src_stop: the command, which may fail and then leaves everything as it is
StopPlayer ==
    /\ control \in {"unlocked", "refused"} /\ Parked
    /\ reader' = "paused"
    /\ \/ /\ player' = "off" /\ stale' = Outdated
          /\ control' = "stopped"
       \/ /\ UNCHANGED <<player, stale>>
          /\ control' = "refused"
    /\ UNCHANGED <<available, sent, reported, call, coming, flags, offsets, histories>>

\* The rest of gst_spot_src_stop; create will begin at 0.
Reset ==
    /\ control = "stopped"
    /\ pos' = 0 /\ want' = 0
    /\ ended' = FALSE /\ available' = 0
    /\ strayed' = FALSE /\ kept' = FALSE /\ late' = 0
    /\ control' = "idle"
    /\ UNCHANGED <<playing, callback, unlocked, lost, reader>>

\* gst_spot_src_start of a track, also over what a STOP that failed has left.  When the
\* command fails before it has loaded the track, it changes nothing.
Load(p) ==
    /\ control \in {"idle", "refused"}
    /\ player' = p /\ sent' = 0 /\ reported' = FALSE
    /\ stale' = Outdated
    /\ kept' = (kept \/ ended) /\ strayed' = (strayed \/ control = "refused")
    /\ UNCHANGED <<available, call, coming, ended, lost, pos, late>>

Start ==
    /\ Load("playing")
    /\ want' = 0
    /\ unlocked' = FALSE
    /\ reader' = "out"
    /\ control' = "none"

\* The track is loaded, but playing it fails.
StartFails ==
    /\ Load("paused")
    /\ UNCHANGED <<want, unlocked, reader, control>>

\* After a STOP that failed, the pipeline goes on without START.
GoOn ==
    /\ control = "refused"
    /\ want' = 0
    /\ unlocked' = FALSE
    /\ reader' = "out"
    /\ control' = "none"
    /\ UNCHANGED <<available, playing, callback, ended, lost, pos, histories>>

-------------------------------------------------------------------------------
Reader ==
    \/ Create \/ ForgetLoss \/ Enter \/ SeekPlayer \/ ClearAdapter \/ PlayOn
    \/ Read \/ Leave \/ SendEnd \/ Failed
Libspotify == Push \/ EndOfTrack \/ NoteEnd \/ TokenLost \/ \E n \in Chunks : Deliver(n)
Control ==
    \/ Unlock \/ Broadcast \/ StopPlayer \/ Reset \/ Start \/ StartFails \/ GoOn
    \/ \E t \in Targets : Seek(t)

Next == Reader \/ Libspotify \/ Control

Spec == Init /\ [][Next]_vars

\* The threads of the program go on; libspotify need not deliver anything, and
\* nobody has to seek or stop.
FairSpec == Spec /\ WF_vars(Reader) /\ WF_vars(Broadcast)

-------------------------------------------------------------------------------
\* Counts are natural numbers, the threads are where they can be.
AudioTypeOK ==
    /\ available \in Nat /\ pos \in Nat /\ want \in Nat
    /\ sent \in 0 .. Track /\ coming \in Chunks \cup {0} /\ late \in Nat
    /\ player \in {"off", "playing", "paused"} /\ call \in {"none", "frames", "end"}
    /\ reported \in BOOLEAN /\ stale \in BOOLEAN
    /\ ended \in BOOLEAN /\ unlocked \in BOOLEAN /\ lost \in BOOLEAN
    /\ strayed \in BOOLEAN /\ kept \in BOOLEAN
    /\ reader \in ReaderPlaces
    /\ control \in ControlPlaces

\* No wakeup for audio is lost: create waits only while there is neither a block
\* to take nor an end to report, whichever callback came between its test and
\* its wait.
NoMissedData == reader = "waiting" => available < Block /\ ~ended

\* The end of stream is sent when the whole track was delivered and every full
\* block of it was taken, not when libspotify, up to buffer_time ahead, reports it;
\* unless end_of_track is of before a seek or a start.
EndAtEnd == [][SendEnd /\ ~kept => sent = Track /\ available < Block]_vars

\* Of what create takes next, no more is from before the position it reads at than the
\* one delivery that was begun before the seek, the stop or the start and came behind
\* the clearing of the adapter, although deliveries go on between the steps of each.
OldAudioBounded ==
    LET at == IF reader = "cleared" THEN want ELSE pos
    IN  ~strayed /\ reader # "sought" /\ control # "stopped" =>
            at + available <= sent + late /\ late \in Chunks \cup {0}

\* A reader that waits when unlock is called leaves create.
WaitingReaderLeaves == reader = "waiting" /\ control = "flagged" ~> Parked

\* Every unlock gets the reader out of create, as a wait in a "tight conditional
\* while" (gstspotsrc.c) on unlock_state would.
UnlockReleases == control = "unlocked" ~> Parked
===============================================================================
