------------------------------- MODULE SpotProofs ------------------------------
(***************************************************************************)
(* Theorems about the spotify element.                                     *)
(*                                                                         *)
(* SpotWork, for any set of callers: its types, that the worker never gets *)
(* at a work that its caller has freed, and that it implements             *)
(* CommandService.  SpotAudio, for blocks, buffers, deliveries and tracks  *)
(* of any length: its types, that create does not sleep on audio or on an  *)
(* end that is there, plays no more from before a seek, a stop or a start  *)
(* than one delivery, and reports the end behind the last block.           *)
(***************************************************************************)
EXTENDS SpotWork, SpotAudio, TLAPS

-------------------------------------------------------------------------------
(* The worker and its callers *)

\* What WorksAlive and the refinement need besides: the worker is gone only when it
\* was told to go, and who was woken up has a result.
Settled ==
    /\ worker = "gone" => ~keep
    /\ \A c \in Callers : pc[c] = "awake" => c \in ran

WorkInv == WorkTypeOK /\ WorksAlive /\ Settled

\* A new work behind the others.
LEMMA AppendWork ==
    ASSUME NEW S, NEW s \in Seq(S), NEW e \in S
    PROVE  /\ Append(s, e) \in Seq(S)
           /\ Append(s, e) # <<>>
           /\ DOMAIN Append(s, e) = DOMAIN s \cup {Len(s) + 1}
           /\ \A i \in DOMAIN s : Append(s, e)[i] = s[i]
           /\ Append(s, e)[Len(s) + 1] = e
           /\ Len(s) + 1 \notin DOMAIN s
  OBVIOUS

\* The works without the first.
LEMMA TailWorks ==
    ASSUME NEW S, NEW s \in Seq(S), s # <<>>
    PROVE  /\ Head(s) \in S
           /\ 1 \in DOMAIN s
           /\ Head(s) = s[1]
           /\ Tail(s) \in Seq(S)
           /\ \A i \in DOMAIN Tail(s) : i + 1 \in DOMAIN s /\ Tail(s)[i] = s[i + 1] /\ i + 1 # 1
  OBVIOUS

LEMMA WorkInitially == WorkInit => WorkInv
  BY DEF WorkInit, WorkInv, WorkTypeOK, WorksAlive, Settled, CallerPlaces, WorkerPlaces

\* Submitting: the caller was idle, so it has no work in the list and no result.
LEMMA SubmitKeeps ==
    ASSUME WorkInv, NEW c \in Callers, Submit(c)
    PROVE  WorkInv'
<1>1. \A i \in DOMAIN works : works[i] # c
  BY DEF WorkInv, WorksAlive, Submit
<1>2. c \notin ran
  BY DEF WorkInv, WorkTypeOK, Submit
<1>3. works \in Seq(Callers) /\ works' = Append(works, c)
  BY DEF WorkInv, WorkTypeOK, Submit
<1>4. /\ works' \in Seq(Callers) /\ works' # <<>>
      /\ DOMAIN works' = DOMAIN works \cup {Len(works) + 1}
      /\ \A i \in DOMAIN works : works'[i] = works[i]
      /\ works'[Len(works) + 1] = c
  BY <1>3, AppendWork
<1>5. pc' \in [Callers -> CallerPlaces] /\ pc'[c] = "queued" /\ \A d \in Callers : d # c => pc'[d] = pc[d]
  BY DEF WorkInv, WorkTypeOK, Submit, CallerPlaces
<1>6. worker' = worker /\ keep' = keep /\ ran' = ran /\ worker # "run" /\ worker # "gone"
  BY DEF Submit, EventsFree, WorkInv, Settled
<1>7. WorkTypeOK'
  BY <1>2, <1>4, <1>5, <1>6 DEF WorkInv, WorkTypeOK
<1>8. WorksAlive'
  <2>1. \A i \in DOMAIN works : works[i] \in Callers /\ works'[i] # c
    BY <1>1, <1>3, <1>4
  <2>2. \A i \in DOMAIN works' :
            pc'[works'[i]] \in {"queued", "locked", "announced", "asleep"} /\ works'[i] \notin ran'
    BY <2>1, <1>2, <1>4, <1>5, <1>6 DEF WorkInv, WorksAlive
  <2>3. \A i, j \in DOMAIN works' : works'[i] = works'[j] => i = j
    BY <2>1, <1>4 DEF WorkInv, WorksAlive
  <2> QED BY <2>2, <2>3, <1>4, <1>6 DEF WorksAlive
<1>9. Settled'
  BY <1>5, <1>6 DEF WorkInv, Settled
<1> QED BY <1>7, <1>8, <1>9 DEF WorkInv

\* The steps of a caller between the submission and the return.
LEMMA CallerKeeps ==
    ASSUME WorkInv, NEW c \in Callers, Lock(c) \/ Announce(c) \/ Wait(c)
    PROVE  WorkInv'
<1>1. /\ pc[c] \in {"queued", "locked", "announced"}
      /\ pc'[c] \in {"locked", "announced", "asleep"}
      /\ pc' \in [Callers -> CallerPlaces]
      /\ \A d \in Callers : d # c => pc'[d] = pc[d]
  BY DEF WorkInv, WorkTypeOK, Lock, Announce, Wait, CallerPlaces
<1>2. /\ works' = works /\ ran' = ran /\ keep' = keep
      /\ worker' \in WorkerPlaces
      /\ worker' = "run" => worker = "run"
      /\ worker' = "gone" => worker = "gone"
  BY DEF WorkInv, WorkTypeOK, Lock, Announce, Wait, WorkerSignalled, WorkerPlaces
<1>3. WorkTypeOK'
  BY <1>1, <1>2 DEF WorkInv, WorkTypeOK
<1>4. WorksAlive'
  <2>1. \A i \in DOMAIN works : works[i] \in Callers
    BY DEF WorkInv, WorkTypeOK
  <2> QED BY <2>1, <1>1, <1>2 DEF WorkInv, WorksAlive
<1>5. Settled'
  BY <1>1, <1>2 DEF WorkInv, Settled
<1> QED BY <1>3, <1>4, <1>5 DEF WorkInv

\* Returning: who was woken up has no work in the list.
LEMMA ReturnKeeps ==
    ASSUME WorkInv, NEW c \in Callers, Return(c)
    PROVE  WorkInv'
<1>1. /\ pc[c] = "awake" /\ pc' \in [Callers -> CallerPlaces] /\ pc'[c] = "idle"
      /\ \A d \in Callers : d # c => pc'[d] = pc[d]
      /\ ran' = ran \ {c} /\ UNCHANGED <<works, worker, keep>>
  BY DEF WorkInv, WorkTypeOK, Return, CallerPlaces
<1>2. WorkTypeOK'
  BY <1>1 DEF WorkInv, WorkTypeOK
<1>3. WorksAlive'
  <2>1. \A i \in DOMAIN works : works[i] \in Callers /\ works[i] # c
    BY <1>1 DEF WorkInv, WorkTypeOK, WorksAlive
  <2> QED BY <2>1, <1>1 DEF WorkInv, WorksAlive
<1>4. Settled'
  BY <1>1 DEF WorkInv, Settled
<1> QED BY <1>2, <1>3, <1>4 DEF WorkInv

\* Executing: the first work leaves the list, and its caller has a result.
LEMMA ExecuteKeeps ==
    ASSUME WorkInv, Execute
    PROVE  WorkInv'
<1> DEFINE c == Head(works)
<1>1. works \in Seq(Callers) /\ works # <<>> /\ worker = "run"
  BY DEF WorkInv, WorkTypeOK, WorksAlive, Execute
<1>2. /\ c \in Callers /\ 1 \in DOMAIN works /\ c = works[1]
      /\ Tail(works) \in Seq(Callers)
      /\ \A i \in DOMAIN Tail(works) :
            i + 1 \in DOMAIN works /\ Tail(works)[i] = works[i + 1] /\ i + 1 # 1
  BY <1>1, TailWorks
<1>3. pc[c] \in {"queued", "locked", "announced", "asleep"}
  BY <1>2 DEF WorkInv, WorksAlive
<1>4. /\ works' = Tail(works) /\ ran' = ran \cup {c} /\ worker' = "scan" /\ keep' = keep
      /\ pc' \in [Callers -> CallerPlaces]
      /\ pc'[c] \in {"queued", "locked", "announced", "awake"}
      /\ \A d \in Callers : d # c => pc'[d] = pc[d]
  BY <1>2, <1>3 DEF WorkInv, WorkTypeOK, Execute, CallerPlaces
<1>5. WorkTypeOK'
  BY <1>2, <1>4 DEF WorkInv, WorkTypeOK, WorkerPlaces
<1>6. WorksAlive'
  <2>1. \A i \in DOMAIN works' : works'[i] \in Callers /\ works'[i] # c
    BY <1>2, <1>4 DEF WorkInv, WorkTypeOK, WorksAlive
  <2>2. \A i \in DOMAIN works' :
            pc'[works'[i]] \in {"queued", "locked", "announced", "asleep"} /\ works'[i] \notin ran'
    BY <2>1, <1>2, <1>4 DEF WorkInv, WorksAlive
  <2>3. \A i, j \in DOMAIN works' : works'[i] = works'[j] => i = j
    <3>1. ASSUME NEW i \in DOMAIN works', NEW j \in DOMAIN works', works'[i] = works'[j]
          PROVE  i = j
      <4>1. i + 1 \in DOMAIN works /\ j + 1 \in DOMAIN works /\ works[i + 1] = works[j + 1]
        BY <3>1, <1>2, <1>4
      <4>2. i + 1 = j + 1
        BY <4>1 DEF WorkInv, WorksAlive
      <4>3. i \in Nat /\ j \in Nat
        BY <1>2, <1>4
      <4> QED BY <4>2, <4>3
    <3> QED BY <3>1
  <2> QED BY <2>2, <2>3, <1>4 DEF WorksAlive
<1>7. Settled'
  BY <1>4 DEF WorkInv, Settled
<1> QED BY <1>5, <1>6, <1>7 DEF WorkInv

\* The other steps of the worker, and finalize: nothing but the worker moves.
LEMMA WorkerKeeps ==
    ASSUME WorkInv, Wake \/ Resume \/ Take \/ Rest \/ Finalize
    PROVE  WorkInv'
<1>1. /\ works' = works /\ pc' = pc /\ ran' = ran
      /\ worker' \in WorkerPlaces /\ keep' \in BOOLEAN
      /\ worker' = "run" => works # <<>>
      /\ worker' = "gone" => works = <<>> /\ ~keep'
  <2>1. CASE Wake \/ Resume \/ Take
    BY <2>1 DEF WorkInv, WorkTypeOK, Wake, Resume, Take, WorkerPlaces
  <2>2. CASE Rest
    <3>1. CASE keep = TRUE
      BY <2>2, <3>1 DEF Rest, WorkerPlaces
    <3>2. CASE keep = FALSE
      BY <2>2, <3>2 DEF Rest, WorkerPlaces
    <3>3. keep \in BOOLEAN
      BY DEF WorkInv, WorkTypeOK
    <3> QED BY <3>1, <3>2, <3>3
  <2>3. CASE Finalize
    BY <2>3 DEF WorkInv, WorkTypeOK, WorksAlive, Finalize, WorkerSignalled, EventsFree, WorkerPlaces
  <2> QED BY <2>1, <2>2, <2>3
<1>2. WorkTypeOK'
  BY <1>1 DEF WorkInv, WorkTypeOK
<1>3. WorksAlive'
  BY <1>1 DEF WorkInv, WorksAlive
<1>4. Settled'
  BY <1>1 DEF WorkInv, Settled
<1> QED BY <1>2, <1>3, <1>4 DEF WorkInv

LEMMA WorkStepwise == WorkInv /\ [WorkNext]_workVars => WorkInv'
<1> SUFFICES ASSUME WorkInv, [WorkNext]_workVars PROVE WorkInv'
  OBVIOUS
<1>1. CASE \E c \in Callers : Submit(c)
  BY <1>1, SubmitKeeps
<1>2. CASE \E c \in Callers : Lock(c) \/ Announce(c) \/ Wait(c)
  BY <1>2, CallerKeeps
<1>3. CASE \E c \in Callers : Return(c)
  BY <1>3, ReturnKeeps
<1>4. CASE Execute
  BY <1>4, ExecuteKeeps
<1>5. CASE Wake \/ Resume \/ Take \/ Rest \/ Finalize
  BY <1>5, WorkerKeeps
<1>6. CASE UNCHANGED workVars
  BY <1>6 DEF workVars, WorkInv, WorkTypeOK, WorksAlive, Settled
<1> QED BY <1>1, <1>2, <1>3, <1>4, <1>5, <1>6 DEF WorkNext, Work, Call

THEOREM WorkInvariance == WorkSpec => []WorkInv
  BY WorkInitially, WorkStepwise, PTL DEF WorkSpec

\* A command has a result only while its caller waits for it, in every state.
THEOREM WorkTypeCorrect == WorkSpec => []WorkTypeOK
<1>1. WorkInv => WorkTypeOK
  BY DEF WorkInv
<1> QED BY <1>1, WorkInvariance, PTL

\* The worker never gets at a freed work: a work in spot_works belongs to a caller
\* that is still in run_spot_cmd, and no command is run twice.
THEOREM NoFreedWork == WorkSpec => []WorksAlive
<1>1. WorkInv => WorksAlive
  BY DEF WorkInv
<1> QED BY <1>1, WorkInvariance, PTL

\* A step of the threads is a step of the service or none.
LEMMA ServiceStep == WorkInv /\ [WorkNext]_workVars => [Service!Next]_<<works, ran>>
<1> SUFFICES ASSUME WorkInv, [WorkNext]_workVars PROVE [Service!Next]_<<works, ran>>
  OBVIOUS
<1>1. CASE \E c \in Callers : Submit(c)
  <2>1. PICK c \in Callers : Submit(c)
    BY <1>1
  <2>2. \A i \in DOMAIN works : works[i] # c
    BY <2>1 DEF WorkInv, WorksAlive, Submit
  <2>3. c \notin ran
    BY <2>1 DEF WorkInv, WorkTypeOK, Submit
  <2>4. Service!Submit(c)
    BY <2>1, <2>2, <2>3 DEF Submit, Service!Submit
  <2> QED BY <2>4 DEF Service!Next
<1>2. CASE \E c \in Callers : Return(c)
  <2>1. PICK c \in Callers : Return(c)
    BY <1>2
  <2>2. Service!Return(c)
    BY <2>1 DEF WorkInv, Settled, Return, Service!Return
  <2> QED BY <2>2 DEF Service!Next
<1>3. CASE Execute
  <2>1. Service!Execute
    BY <1>3 DEF WorkInv, WorksAlive, Execute, Service!Execute
  <2> QED BY <2>1 DEF Service!Next
<1>4. CASE UNCHANGED <<works, ran>>
  BY <1>4
<1> QED
  BY <1>1, <1>2, <1>3, <1>4
  DEF WorkNext, Work, Call, Lock, Announce, Wait, Wake, Resume, Take, Rest, Finalize, workVars

\* The element serves its callers as CommandService promises: in order, each command
\* once, nobody returning before its command was run.
THEOREM ServesCommands == WorkSpec => ServiceSpec
<1>1. WorkInit => Service!Init
  BY DEF WorkInit, Service!Init
<1> QED BY <1>1, ServiceStep, WorkInvariance, PTL DEF WorkSpec, ServiceSpec, Service!Spec

-------------------------------------------------------------------------------
(* Audio and the streaming thread *)

\* A delivery that is not stale goes on from what was delivered, before the end.
Delivered ==
    /\ call = "frames" => coming \in Chunks
    /\ call = "frames" /\ ~stale => ~reported /\ sent + coming <= Track

\* libspotify has reported the end only when it has delivered the whole track, and
\* end_of_track says that it has, if it is not of before a seek or a start.
EndReported ==
    /\ reported => sent = Track
    /\ call = "end" /\ ~stale => reported
    /\ ~kept /\ ended => reported /\ call = "none"

\* create goes to report the end only when no block is left.
EndFound == ~kept /\ reader = "ending" => ended /\ available < Block

\* A seek sends the player to the wanted offset, from where it goes on.
SoughtWanted == reader = "sought" => want <= sent

\* Only a seek makes the wanted offset differ from the position, and what follows
\* the seek in create makes them equal before audio is taken.
WantedInTrack ==
    /\ pos # want => want <= Track
    /\ reader \in {"ready", "waiting", "woken"} => pos = want

\* From the STOP to the next START the task rests and the player does not play; behind
\* a STOP that did not fail only stale frames come.
Halted ==
    /\ control \in {"stopped", "refused", "idle"} => reader = "paused"
    /\ control \in {"stopped", "idle"} => player # "playing" /\ (call # "none" => stale)
    /\ control = "idle" => pos = 0 /\ available <= late

\* Where what is in the adapter is counted.
Counted == ~strayed /\ reader # "sought" /\ control # "stopped"
At == IF reader = "cleared" THEN want ELSE pos

\* One delivery at most is late: while another is stale, none was.
LateOnce ==
    Counted => late \in Chunks \cup {0} /\ (call = "frames" /\ stale => late = 0)

\* What is behind the position create reads at was delivered, or is late.
AudioCounted == Counted => At + available <= sent + late

\* The three parts of AudioTypeOK.
AudioCounts ==
    /\ available \in Nat /\ pos \in Nat /\ want \in Nat
    /\ sent \in 0 .. Track /\ coming \in Chunks \cup {0} /\ late \in Nat
AudioFlags ==
    /\ reported \in BOOLEAN /\ stale \in BOOLEAN
    /\ ended \in BOOLEAN /\ unlocked \in BOOLEAN /\ lost \in BOOLEAN
    /\ strayed \in BOOLEAN /\ kept \in BOOLEAN
AudioPlaces ==
    /\ player \in {"off", "playing", "paused"} /\ call \in {"none", "frames", "end"}
    /\ reader \in ReaderPlaces
    /\ control \in ControlPlaces

AudioInv ==
    /\ AudioCounts /\ AudioFlags /\ AudioPlaces
    /\ NoMissedData
    /\ Delivered /\ EndReported /\ EndFound
    /\ SoughtWanted /\ WantedInTrack /\ Halted
    /\ LateOnce /\ AudioCounted

LEMMA AudioTypes == AudioTypeOK <=> AudioCounts /\ AudioFlags /\ AudioPlaces
  BY DEF AudioTypeOK, AudioCounts, AudioFlags, AudioPlaces

LEMMA AudioInitially == Init => AudioInv
<1> SUFFICES ASSUME Init PROVE AudioInv
  OBVIOUS
<1>1. AudioCounts
  BY SpotAudioAssumption DEF Init, AudioCounts
<1>2. AudioFlags
  BY DEF Init, AudioFlags
<1>3. AudioPlaces
  BY DEF Init, AudioPlaces, ReaderPlaces, ControlPlaces
<1>4. NoMissedData /\ SoughtWanted /\ EndFound /\ EndReported /\ WantedInTrack /\ Delivered
  BY DEF Init, NoMissedData, SoughtWanted, EndFound, EndReported, WantedInTrack, Delivered
<1>5. Halted /\ LateOnce
  BY DEF Init, Halted, LateOnce
<1>6. AudioCounted
  BY DEF Init, AudioCounted, At
<1> QED BY <1>1, <1>2, <1>3, <1>4, <1>5, <1>6 DEF AudioInv

\* A delivery is a number of frames.
LEMMA ComingFrames == AudioCounts => coming \in Nat /\ \A n \in Chunks : n \in Nat \ {0}
  BY SpotAudioAssumption DEF AudioCounts

LEMMA CountsKept == AudioInv /\ [Next]_vars => AudioCounts'
<1> SUFFICES ASSUME AudioCounts, WantedInTrack, Delivered, [Next]_vars PROVE AudioCounts'
  BY DEF AudioInv
<1> USE SpotAudioAssumption DEF AudioCounts
<1>1. CASE Libspotify
  <2>1. CASE Push
    <3>1. coming \in Nat /\ UNCHANGED <<pos, want>> /\ coming' = 0
      BY <2>1, ComingFrames DEF Push, offsets
    <3>2. CASE available >= Room
      BY <2>1, <3>1, <3>2 DEF Push
    <3>3. CASE ~(available >= Room) /\ stale
      BY <2>1, <3>1, <3>3 DEF Push
    <3>4. CASE ~(available >= Room) /\ ~stale
      BY <2>1, <3>1, <3>4 DEF Push, Delivered
    <3> QED BY <3>2, <3>3, <3>4
  <2>2. CASE EndOfTrack \/ NoteEnd \/ TokenLost
    BY <2>2 DEF EndOfTrack, NoteEnd, TokenLost, playing, callback, offsets, histories
  <2>3. ASSUME NEW n \in Chunks, Deliver(n) PROVE AudioCounts'
    BY <2>3 DEF Deliver, playing, offsets, histories
  <2> QED BY <1>1, <2>1, <2>2, <2>3 DEF Libspotify
<1>2. CASE Create \/ ForgetLoss \/ Enter \/ Leave \/ SendEnd \/ Failed
  BY <1>2 DEF Create, ForgetLoss, Enter, Leave, SendEnd, Failed, playing, callback, flags, offsets,
              histories
<1>3. CASE SeekPlayer
  BY <1>3 DEF SeekPlayer, offsets, WantedInTrack
<1>4. CASE ClearAdapter \/ PlayOn
  BY <1>4 DEF ClearAdapter, PlayOn, playing, callback, flags, offsets, histories
<1>5. CASE Read
  <2>0. sent' = sent /\ coming' = coming /\ late' = late
    BY <1>5 DEF Read, playing, callback, histories
  <2>1. CASE TakeBlock
    <3>1. available >= Block /\ Block \in Nat
      BY <2>1 DEF TakeBlock
    <3>2. available' = available - Block /\ pos' = pos + Block /\ want' = want + Block
      BY <2>1 DEF TakeBlock
    <3> QED BY <2>0, <3>1, <3>2
  <2>2. CASE FindEnd \/ StartWaiting
    <3>1. UNCHANGED <<available, pos, want>>
      BY <2>2 DEF FindEnd, StartWaiting, offsets
    <3> QED BY <2>0, <3>1
  <2> QED BY <1>5, <2>1, <2>2 DEF Read
<1>6. CASE Control
  <2>1. CASE Unlock \/ Broadcast \/ StopPlayer \/ Reset \/ GoOn
    BY <2>1 DEF Unlock, Broadcast, StopPlayer, Reset, GoOn, playing, callback, offsets, histories
  <2>2. CASE Start \/ StartFails
    BY <2>2 DEF Start, StartFails, Load
  <2>3. ASSUME NEW t \in Targets, Seek(t) PROVE AudioCounts'
    BY <2>3 DEF Seek, playing, callback, histories
  <2> QED BY <1>6, <2>1, <2>2, <2>3 DEF Control
<1>7. CASE UNCHANGED vars
  BY <1>7 DEF vars, playing, callback, offsets, histories
<1> QED BY <1>1, <1>2, <1>3, <1>4, <1>5, <1>6, <1>7 DEF Next, Reader

LEMMA FlagsKept == AudioInv /\ [Next]_vars => AudioFlags'
<1> SUFFICES ASSUME AudioFlags, [Next]_vars PROVE AudioFlags'
  BY DEF AudioInv
<1> USE DEF AudioFlags
<1>1. CASE Libspotify
  BY <1>1 DEF Libspotify, Push, EndOfTrack, NoteEnd, TokenLost, Deliver, playing, callback, flags,
              histories
<1>2. CASE Create \/ ForgetLoss \/ Enter \/ Leave \/ SendEnd \/ Failed
  BY <1>2 DEF Create, ForgetLoss, Enter, Leave, SendEnd, Failed, playing, callback, flags, histories
<1>3. CASE SeekPlayer \/ ClearAdapter \/ PlayOn
  BY <1>3 DEF SeekPlayer, ClearAdapter, PlayOn, Outdated, playing, callback, flags, histories
<1>4. CASE Read
  BY <1>4 DEF Read, playing, callback, flags, histories
<1>5. CASE Control
  BY <1>5 DEF Control, Unlock, Broadcast, StopPlayer, Reset, Start, StartFails, Load, GoOn, Seek,
              Outdated, playing, callback, flags, histories
<1>6. CASE UNCHANGED vars
  BY <1>6 DEF vars, playing, callback, flags, histories
<1> QED BY <1>1, <1>2, <1>3, <1>4, <1>5, <1>6 DEF Next, Reader

LEMMA PlacesKept == AudioInv /\ [Next]_vars => AudioPlaces'
<1> SUFFICES ASSUME AudioPlaces, [Next]_vars PROVE AudioPlaces'
  BY DEF AudioInv
<1> USE DEF AudioPlaces, ReaderPlaces, ControlPlaces
<1>1. CASE Libspotify
  BY <1>1 DEF Libspotify, Push, EndOfTrack, NoteEnd, TokenLost, Deliver, Signalled, playing, callback
<1>2. CASE Create \/ ForgetLoss \/ Enter \/ Leave \/ SendEnd \/ Failed
  BY <1>2 DEF Create, ForgetLoss, Enter, Leave, SendEnd, Failed, playing, callback
<1>3. CASE SeekPlayer \/ ClearAdapter \/ PlayOn
  BY <1>3 DEF SeekPlayer, ClearAdapter, PlayOn, playing, callback
<1>4. CASE Read
  BY <1>4 DEF Read, TakeBlock, FindEnd, StartWaiting, playing, callback
<1>5. CASE Control
  BY <1>5 DEF Control, Unlock, Broadcast, StopPlayer, Reset, Start, StartFails, Load, GoOn, Seek,
              Signalled, playing, callback
<1>6. CASE UNCHANGED vars
  BY <1>6 DEF vars, playing, callback
<1> QED BY <1>1, <1>2, <1>3, <1>4, <1>5, <1>6 DEF Next, Reader

\* Between the test and the wait no callback can get in; every later one wakes up.
LEMMA MissedKept == AudioInv /\ [Next]_vars => NoMissedData'
<1> SUFFICES ASSUME NoMissedData, Halted, [Next]_vars PROVE NoMissedData'
  BY DEF AudioInv
<1> USE DEF NoMissedData
<1>1. CASE Libspotify
  BY <1>1 DEF Libspotify, Push, EndOfTrack, NoteEnd, TokenLost, Deliver, Signalled, flags
<1>2. CASE Create \/ ForgetLoss \/ Enter \/ Leave \/ SendEnd \/ Failed
  BY <1>2 DEF Create, ForgetLoss, Enter, Leave, SendEnd, Failed, flags
<1>3. CASE SeekPlayer \/ ClearAdapter \/ PlayOn
  BY <1>3 DEF SeekPlayer, ClearAdapter, PlayOn
<1>4. CASE Read
  BY <1>4 DEF Read, TakeBlock, FindEnd, StartWaiting, flags
<1>5. CASE Control
  BY <1>5 DEF Control, Unlock, Broadcast, StopPlayer, Reset, Start, StartFails, Load, GoOn, Seek,
              Signalled, Halted, flags
<1>6. CASE UNCHANGED vars
  BY <1>6 DEF vars, flags
<1> QED BY <1>1, <1>2, <1>3, <1>4, <1>5, <1>6 DEF Next, Reader

LEMMA WantedKept == AudioInv /\ [Next]_vars => WantedInTrack'
<1> SUFFICES ASSUME AudioCounts, WantedInTrack, Halted, [Next]_vars PROVE WantedInTrack'
  BY DEF AudioInv
<1> USE SpotAudioAssumption DEF AudioCounts, WantedInTrack
<1>1. CASE Libspotify
  BY <1>1 DEF Libspotify, Push, EndOfTrack, NoteEnd, TokenLost, Deliver, Signalled, offsets
<1>2. CASE Create \/ ForgetLoss \/ Enter \/ Leave \/ SendEnd \/ Failed
  BY <1>2 DEF Create, ForgetLoss, Enter, Leave, SendEnd, Failed, offsets
<1>3. CASE SeekPlayer \/ ClearAdapter \/ PlayOn
  BY <1>3 DEF SeekPlayer, ClearAdapter, PlayOn, offsets
<1>4. CASE Read
  <2>1. CASE TakeBlock
    <3>1. pos = want
      BY <1>4 DEF Read
    <3>2. pos' = want' /\ reader' = "out"
      BY <2>1, <3>1 DEF TakeBlock
    <3> QED BY <3>2
  <2>2. CASE FindEnd \/ StartWaiting
    <3>1. pos = want
      BY <1>4 DEF Read
    <3> QED BY <2>2, <3>1 DEF FindEnd, StartWaiting, offsets
  <2> QED BY <1>4, <2>1, <2>2 DEF Read
<1>5. CASE Control
  <2>1. CASE Unlock \/ Broadcast \/ StopPlayer
    BY <2>1 DEF Unlock, Broadcast, StopPlayer, Signalled, offsets
  <2>2. CASE Reset \/ Start \/ StartFails \/ GoOn
    BY <2>2 DEF Reset, Start, StartFails, Load, GoOn, Halted
  <2>3. ASSUME NEW t \in Targets, Seek(t) PROVE WantedInTrack'
    BY <2>3 DEF Seek
  <2> QED BY <1>5, <2>1, <2>2, <2>3 DEF Control
<1>6. CASE UNCHANGED vars
  BY <1>6 DEF vars, offsets
<1> QED BY <1>1, <1>2, <1>3, <1>4, <1>5, <1>6 DEF Next, Reader

LEMMA SoughtKept == AudioInv /\ [Next]_vars => SoughtWanted'
<1> SUFFICES ASSUME AudioCounts, SoughtWanted, Halted, [Next]_vars PROVE SoughtWanted'
  BY DEF AudioInv
<1> USE SpotAudioAssumption DEF AudioCounts, SoughtWanted
<1>1. CASE Libspotify
  <2>1. CASE Push
    <3>1. coming \in Nat  BY ComingFrames
    <3>2. sent' = sent \/ sent' = sent + coming  BY <2>1 DEF Push
    <3>3. want' = want /\ (reader' = "sought" => reader = "sought")
      BY <2>1 DEF Push, Signalled, offsets
    <3> QED BY <3>1, <3>2, <3>3
  <2>2. CASE EndOfTrack \/ NoteEnd \/ TokenLost
    BY <2>2 DEF EndOfTrack, NoteEnd, TokenLost, Signalled, playing, offsets
  <2>3. ASSUME NEW n \in Chunks, Deliver(n) PROVE SoughtWanted'
    BY <2>3 DEF Deliver, playing, offsets
  <2> QED BY <1>1, <2>1, <2>2, <2>3 DEF Libspotify
<1>2. CASE Create \/ ForgetLoss \/ Enter \/ Leave \/ SendEnd \/ Failed
  BY <1>2 DEF Create, ForgetLoss, Enter, Leave, SendEnd, Failed
<1>3. CASE SeekPlayer \/ ClearAdapter \/ PlayOn
  BY <1>3 DEF SeekPlayer, ClearAdapter, PlayOn, offsets
<1>4. CASE Read
  BY <1>4 DEF Read, TakeBlock, FindEnd, StartWaiting
<1>5. CASE Control
  BY <1>5 DEF Control, Unlock, Broadcast, StopPlayer, Reset, Start, StartFails, Load, GoOn, Seek,
              Signalled, Halted, playing, offsets
<1>6. CASE UNCHANGED vars
  BY <1>6 DEF vars, playing, offsets
<1> QED BY <1>1, <1>2, <1>3, <1>4, <1>5, <1>6 DEF Next, Reader

LEMMA DeliveredKept == AudioInv /\ [Next]_vars => Delivered'
<1> SUFFICES ASSUME AudioCounts, AudioFlags, Delivered, EndReported, [Next]_vars PROVE Delivered'
  BY DEF AudioInv
<1> USE SpotAudioAssumption DEF AudioCounts, AudioFlags, Delivered
<1>1. CASE Libspotify
  <2>1. CASE Push \/ NoteEnd \/ EndOfTrack
    BY <2>1 DEF Push, NoteEnd, EndOfTrack
  <2>2. CASE TokenLost
    BY <2>2 DEF TokenLost, callback
  <2>3. ASSUME NEW n \in Chunks, Deliver(n) PROVE Delivered'
    <3>1. n \in Nat \ {0} /\ sent + n <= Track /\ sent \in Nat /\ Track \in Nat
      BY <2>3 DEF Deliver
    <3>2. sent # Track  BY <3>1
    <3>3. ~reported  BY <3>2 DEF EndReported
    <3> QED BY <2>3, <3>1, <3>3 DEF Deliver, playing
  <2> QED BY <1>1, <2>1, <2>2, <2>3 DEF Libspotify
<1>2. CASE Create \/ ForgetLoss \/ Enter \/ Leave \/ SendEnd \/ Failed
  BY <1>2 DEF Create, ForgetLoss, Enter, Leave, SendEnd, Failed, playing, callback
<1>3. CASE SeekPlayer
  BY <1>3 DEF SeekPlayer, Outdated
<1>4. CASE ClearAdapter \/ PlayOn \/ Read
  BY <1>4 DEF ClearAdapter, PlayOn, Read, playing, callback
<1>5. CASE Control
  <2>1. CASE StopPlayer \/ Start \/ StartFails
    BY <2>1 DEF StopPlayer, Start, StartFails, Load, Outdated
  <2>2. CASE Unlock \/ Broadcast \/ Reset \/ GoOn
    BY <2>2 DEF Unlock, Broadcast, Reset, GoOn, playing, callback
  <2>3. ASSUME NEW t \in Targets, Seek(t) PROVE Delivered'
    BY <2>3 DEF Seek, playing, callback
  <2> QED BY <1>5, <2>1, <2>2, <2>3 DEF Control
<1>6. CASE UNCHANGED vars
  BY <1>6 DEF vars, playing, callback
<1> QED BY <1>1, <1>2, <1>3, <1>4, <1>5, <1>6 DEF Next, Reader

\* After the reported end only a seek or a start makes libspotify deliver again, and
\* what is said of the end is then of before.
LEMMA ReportedKept == AudioInv /\ [Next]_vars => EndReported'
<1> SUFFICES ASSUME AudioCounts, AudioFlags, Delivered, EndReported, [Next]_vars PROVE EndReported'
  BY DEF AudioInv
<1> USE SpotAudioAssumption DEF AudioCounts, AudioFlags, EndReported
<1>1. CASE Libspotify
  <2>1. CASE Push
    <3>1. call = "frames" /\ call' = "none" /\ UNCHANGED <<reported, ended, kept>>
      BY <2>1 DEF Push, flags
    <3>2. sent' = sent \/ ~stale  BY <2>1 DEF Push
    <3>3. reported' => sent' = Track  BY <3>1, <3>2 DEF Delivered
    <3> QED BY <3>1, <3>3
  <2>2. CASE EndOfTrack \/ NoteEnd
    BY <2>2 DEF EndOfTrack, NoteEnd, playing, flags, histories
  <2>3. CASE TokenLost
    BY <2>3 DEF TokenLost, callback, histories
  <2>4. ASSUME NEW n \in Chunks, Deliver(n) PROVE EndReported'
    <3>1. n \in Nat \ {0} /\ sent + n <= Track /\ sent \in Nat /\ Track \in Nat
      BY <2>4 DEF Deliver
    <3>2. sent # Track  BY <3>1
    <3> QED BY <2>4, <3>2 DEF Deliver, playing, flags, histories
  <2> QED BY <1>1, <2>1, <2>2, <2>3, <2>4 DEF Libspotify
<1>2. CASE Create \/ ForgetLoss \/ Enter \/ Leave \/ SendEnd \/ Failed
  BY <1>2 DEF Create, ForgetLoss, Enter, Leave, SendEnd, Failed, playing, callback, flags, histories
<1>3. CASE SeekPlayer
  BY <1>3 DEF SeekPlayer, Outdated, flags
<1>4. CASE ClearAdapter \/ PlayOn \/ Read
  BY <1>4 DEF ClearAdapter, PlayOn, Read, playing, callback, flags, histories
<1>5. CASE Control
  <2>1. CASE StopPlayer \/ Start \/ StartFails
    BY <2>1 DEF StopPlayer, Start, StartFails, Load, Outdated, flags, histories
  <2>2. CASE Unlock \/ Broadcast \/ Reset \/ GoOn
    BY <2>2 DEF Unlock, Broadcast, Reset, GoOn, playing, callback, flags, histories
  <2>3. ASSUME NEW t \in Targets, Seek(t) PROVE EndReported'
    BY <2>3 DEF Seek, playing, callback, histories
  <2> QED BY <1>5, <2>1, <2>2, <2>3 DEF Control
<1>6. CASE UNCHANGED vars
  BY <1>6 DEF vars, playing, callback, flags, histories
<1> QED BY <1>1, <1>2, <1>3, <1>4, <1>5, <1>6 DEF Next, Reader

\* Nothing is delivered between finding the end and sending it.
LEMMA FoundKept == AudioInv /\ [Next]_vars => EndFound'
<1> SUFFICES ASSUME AudioCounts, AudioFlags, EndReported, EndFound, Halted, [Next]_vars PROVE EndFound'
  BY DEF AudioInv
<1> USE SpotAudioAssumption DEF AudioCounts, AudioFlags, EndFound
<1>1. CASE Libspotify
  <2>1. CASE Push
    <3>1. kept \/ reader # "ending"
      BY <2>1 DEF Push, EndReported
    <3> QED BY <2>1, <3>1 DEF Push, Signalled
  <2>2. CASE EndOfTrack \/ NoteEnd \/ TokenLost
    BY <2>2 DEF EndOfTrack, NoteEnd, TokenLost, Signalled, flags, histories
  <2>3. ASSUME NEW n \in Chunks, Deliver(n) PROVE EndFound'
    BY <2>3 DEF Deliver, flags, histories
  <2> QED BY <1>1, <2>1, <2>2, <2>3 DEF Libspotify
<1>2. CASE Create \/ ForgetLoss \/ Enter \/ Leave \/ SendEnd \/ Failed
  BY <1>2 DEF Create, ForgetLoss, Enter, Leave, SendEnd, Failed, flags
<1>3. CASE SeekPlayer \/ ClearAdapter \/ PlayOn
  BY <1>3 DEF SeekPlayer, ClearAdapter, PlayOn
<1>4. CASE Read
  BY <1>4 DEF Read, TakeBlock, FindEnd, StartWaiting, flags, histories
<1>5. CASE Control
  BY <1>5 DEF Control, Unlock, Broadcast, StopPlayer, Reset, Start, StartFails, Load, GoOn, Seek,
              Signalled, Halted, flags, histories
<1>6. CASE UNCHANGED vars
  BY <1>6 DEF vars, flags, histories
<1> QED BY <1>1, <1>2, <1>3, <1>4, <1>5, <1>6 DEF Next, Reader

LEMMA HaltedKept == AudioInv /\ [Next]_vars => Halted'
<1> SUFFICES ASSUME AudioCounts, AudioFlags, Halted, [Next]_vars PROVE Halted'
  BY DEF AudioInv
<1> USE SpotAudioAssumption DEF AudioCounts, AudioFlags, Halted
<1>1. CASE Libspotify
  <2>1. CASE Push
    <3>0. coming \in Nat  BY ComingFrames
    <3>1. /\ call = "frames" /\ call' = "none"
          /\ UNCHANGED <<player, control, pos>> /\ (reader = "paused" => reader' = "paused")
      BY <2>1 DEF Push, Signalled, offsets
    <3>2. control = "idle" => available' <= late'
      BY <2>1, <3>0 DEF Push
    <3> QED BY <3>1, <3>2
  <2>2. CASE EndOfTrack \/ NoteEnd \/ TokenLost
    BY <2>2 DEF EndOfTrack, NoteEnd, TokenLost, Signalled, playing, callback, offsets, histories
  <2>3. ASSUME NEW n \in Chunks, Deliver(n) PROVE Halted'
    BY <2>3 DEF Deliver, playing, offsets, histories
  <2> QED BY <1>1, <2>1, <2>2, <2>3 DEF Libspotify
<1>2. CASE Create \/ ForgetLoss \/ Enter \/ Leave \/ SendEnd \/ Failed
  BY <1>2 DEF Create, ForgetLoss, Enter, Leave, SendEnd, Failed, playing, callback, offsets, histories
<1>3. CASE SeekPlayer \/ ClearAdapter \/ PlayOn \/ Read
  BY <1>3 DEF SeekPlayer, ClearAdapter, PlayOn, Read
<1>4. CASE Control
  <2>1. CASE Unlock \/ Broadcast
    BY <2>1 DEF Unlock, Broadcast
  <2>2. CASE StopPlayer
    <3>1. /\ reader' = "paused" /\ UNCHANGED <<call, available, late, pos>>
          /\ \/ control' = "stopped" /\ player' = "off" /\ (call # "none" => stale')
             \/ control' = "refused"
      BY <2>2 DEF StopPlayer, Outdated, offsets, histories
    <3> QED BY <3>1
  <2>3. CASE Reset
    BY <2>3 DEF Reset, playing, callback
  <2>4. CASE Start \/ GoOn
    BY <2>4 DEF Start, GoOn
  <2>5. CASE StartFails
    <3>1. /\ reader' = reader /\ control' = control /\ player' = "paused"
          /\ UNCHANGED <<call, available, late, pos>> /\ (call # "none" => stale')
      BY <2>5 DEF StartFails, Load, Outdated
    <3> QED BY <3>1
  <2>6. ASSUME NEW t \in Targets, Seek(t) PROVE Halted'
    BY <2>6 DEF Seek
  <2> QED BY <1>4, <2>1, <2>2, <2>3, <2>4, <2>5, <2>6 DEF Control
<1>5. CASE UNCHANGED vars
  BY <1>5 DEF vars, playing, callback, offsets, histories
<1> QED BY <1>1, <1>2, <1>3, <1>4, <1>5 DEF Next, Reader

LEMMA LateKept == AudioInv /\ [Next]_vars => LateOnce'
<1> SUFFICES ASSUME AudioFlags, AudioPlaces, Delivered, Halted, LateOnce, [Next]_vars PROVE LateOnce'
  BY DEF AudioInv
<1> USE DEF LateOnce, Counted, AudioFlags
<1>1. CASE Libspotify
  <2>1. CASE Push
    <3>1. /\ call = "frames" /\ call' = "none" /\ coming \in Chunks
          /\ UNCHANGED <<control, strayed>> /\ (reader' = "sought" <=> reader = "sought")
      BY <2>1 DEF Push, Signalled, Delivered
    <3>2. ASSUME Counted, Counted' PROVE late' \in Chunks \cup {0}
      <4>1. CASE late' = late  BY <3>2, <4>1
      <4>2. CASE late' # late
        <5>1. stale /\ late' = late + coming  BY <2>1, <4>2 DEF Push
        <5>2. late = 0  BY <3>1, <3>2, <5>1
        <5> QED BY <3>1, <5>1, <5>2, SpotAudioAssumption
      <4> QED BY <4>1, <4>2
    <3> QED BY <3>1, <3>2
  <2>2. CASE EndOfTrack \/ NoteEnd \/ TokenLost
    BY <2>2 DEF EndOfTrack, NoteEnd, TokenLost, Signalled, callback, histories
  <2>3. ASSUME NEW n \in Chunks, Deliver(n) PROVE LateOnce'
    BY <2>3 DEF Deliver, histories
  <2> QED BY <1>1, <2>1, <2>2, <2>3 DEF Libspotify
<1>2. CASE Create \/ ForgetLoss \/ Enter \/ Leave \/ SendEnd \/ Failed
  BY <1>2 DEF Create, ForgetLoss, Enter, Leave, SendEnd, Failed, callback, histories
<1>3. CASE SeekPlayer \/ ClearAdapter \/ PlayOn
  BY <1>3 DEF SeekPlayer, ClearAdapter, PlayOn, callback, histories
<1>4. CASE Read
  BY <1>4 DEF Read, callback, histories
<1>5. CASE Control
  BY <1>5 DEF Control, Unlock, Broadcast, StopPlayer, Reset, Start, StartFails, Load, GoOn, Seek,
              Signalled, Parked, Outdated, Halted, callback, histories
<1>6. CASE UNCHANGED vars
  BY <1>6 DEF vars, callback, histories
<1> QED BY <1>1, <1>2, <1>3, <1>4, <1>5, <1>6 DEF Next, Reader

\* A delivery adds to both sides, a block moves the position, and between the clearing
\* and the play the wanted offset counts.
LEMMA CountedKept == AudioInv /\ [Next]_vars => AudioCounted'
<1> SUFFICES ASSUME AudioCounts, AudioFlags, SoughtWanted, Halted, AudioCounted, [Next]_vars
             PROVE  AudioCounted'
  BY DEF AudioInv
<1> USE SpotAudioAssumption DEF AudioCounts, AudioFlags, AudioCounted, Counted, At
<1>1. CASE Libspotify
  <2>1. CASE Push
    <3>1. coming \in Nat  BY ComingFrames
    <3>2. /\ UNCHANGED <<pos, want, strayed, control>>
          /\ reader' = "sought" <=> reader = "sought"
          /\ reader' = "cleared" <=> reader = "cleared"
      BY <2>1 DEF Push, Signalled, offsets
    <3>3. \/ UNCHANGED <<available, sent, late>>
          \/ available' = available + coming /\ sent' = sent + coming /\ late' = late
          \/ available' = available + coming /\ sent' = sent /\ late' = late + coming
      BY <2>1 DEF Push
    <3> QED BY <3>1, <3>2, <3>3
  <2>2. CASE EndOfTrack \/ NoteEnd \/ TokenLost
    BY <2>2 DEF EndOfTrack, NoteEnd, TokenLost, Signalled, playing, offsets, histories
  <2>3. ASSUME NEW n \in Chunks, Deliver(n) PROVE AudioCounted'
    BY <2>3 DEF Deliver, playing, offsets, histories
  <2> QED BY <1>1, <2>1, <2>2, <2>3 DEF Libspotify
<1>2. CASE Create \/ ForgetLoss \/ Enter \/ Leave \/ SendEnd
  BY <1>2 DEF Create, ForgetLoss, Enter, Leave, SendEnd, playing, offsets, histories
<1>3. CASE Failed
  BY <1>3 DEF Failed, playing, offsets
<1>4. CASE SeekPlayer
  BY <1>4 DEF SeekPlayer
<1>5. CASE ClearAdapter
  BY <1>5 DEF ClearAdapter, SoughtWanted, playing, offsets
<1>6. CASE PlayOn
  BY <1>6 DEF PlayOn, histories
<1>7. CASE Read
  <2>1. UNCHANGED <<sent, strayed, late, control>> /\ reader # "sought" /\ reader # "cleared"
    BY <1>7 DEF Read, playing, histories
  <2>2. CASE TakeBlock
    BY <2>1, <2>2 DEF TakeBlock
  <2>3. CASE FindEnd \/ StartWaiting
    BY <2>1, <2>3 DEF FindEnd, StartWaiting, offsets
  <2> QED BY <1>7, <2>2, <2>3 DEF Read
<1>8. CASE Control
  <2>1. CASE Unlock \/ Broadcast \/ StopPlayer
    BY <2>1 DEF Unlock, Broadcast, StopPlayer, Signalled, Parked, playing, offsets, histories
  <2>2. CASE Reset
    BY <2>2 DEF Reset, Halted, playing
  <2>3. CASE Start \/ StartFails
    <3>1. Load("playing") \/ Load("paused")  BY <2>3 DEF Start, StartFails
    <3>2. CASE control = "refused"
      <4>1. strayed' = TRUE  BY <3>1, <3>2 DEF Load
      <4> QED BY <4>1
    <3>3. CASE control = "idle"
      <4>1. sent' = 0 /\ UNCHANGED <<available, pos, late>>  BY <3>1 DEF Load
      <4>2. pos = 0 /\ available <= late /\ reader = "paused"  BY <3>3 DEF Halted
      <4>3. reader' # "cleared"  BY <2>3, <4>2 DEF Start, StartFails
      <4> QED BY <4>1, <4>2, <4>3
    <3> QED BY <3>1, <3>2, <3>3 DEF Load
  <2>4. CASE GoOn
    BY <2>4 DEF GoOn, Halted, playing, histories
  <2>5. ASSUME NEW t \in Targets, Seek(t) PROVE AudioCounted'
    BY <2>5 DEF Seek, Parked, playing, histories
  <2> QED BY <1>8, <2>1, <2>2, <2>3, <2>4, <2>5 DEF Control
<1>9. CASE UNCHANGED vars
  BY <1>9 DEF vars, playing, offsets, histories
<1> QED BY <1>1, <1>2, <1>3, <1>4, <1>5, <1>6, <1>7, <1>8, <1>9 DEF Next, Reader

THEOREM AudioInvariance == Spec => []AudioInv
<1>1. AudioInv /\ [Next]_vars => AudioInv'
  BY CountsKept, FlagsKept, PlacesKept, MissedKept, WantedKept, SoughtKept, DeliveredKept,
     ReportedKept, FoundKept, HaltedKept, LateKept, CountedKept DEF AudioInv
<1> QED BY <1>1, AudioInitially, PTL DEF Spec

\* The counts stay natural numbers (create never takes more than there is) and the
\* threads are where they can be.
THEOREM AudioTypeCorrect == Spec => []AudioTypeOK
<1>1. AudioInv => AudioTypeOK
  BY AudioTypes DEF AudioInv
<1> QED BY <1>1, AudioInvariance, PTL

\* create never waits for audio, or for an end, that is there.
THEOREM NoWakeupMissed == Spec => []NoMissedData
<1>1. AudioInv => NoMissedData
  BY DEF AudioInv
<1> QED BY <1>1, AudioInvariance, PTL

\* After a seek, a stop or a start no more is played from before it than the one delivery
\* that was begun before and pushed behind the clearing (spotify_cb_music_delivery does
\* most of its work without the mutex), unless PLAY failed behind a SEEK or a track was
\* started over what a failed STOP left, and the adapter was not cleared since.
THEOREM OldAudioLimited == Spec => []OldAudioBounded
<1>1. AudioInv => OldAudioBounded
  BY DEF AudioInv, LateOnce, AudioCounted, Counted, At, OldAudioBounded
<1> QED BY <1>1, AudioInvariance, PTL

\* The end of stream follows the whole track, unless end_of_track is of before a seek
\* or a start: also when STOP, START, SEEK or PLAY failed.
THEOREM EndAfterTrack == Spec => EndAtEnd
<1>1. AudioInv /\ [Next]_vars => [SendEnd /\ ~kept => sent = Track /\ available < Block]_vars
  BY DEF AudioInv, EndFound, EndReported, SendEnd
<1> QED BY <1>1, AudioInvariance, PTL DEF Spec, EndAtEnd
===============================================================================
