-------------------------------- MODULE SpotWork --------------------------------
(***************************************************************************)
(* The worker thread of the spotify element (gstspotsrc.c) and the threads *)
(* that have it run commands: run_spot_cmd, spotify_thread_func and        *)
(* gst_spot_src_finalize, at the steps at which another thread can get in  *)
(* between.                                                                *)
(*                                                                         *)
(* A caller has one work struct at a time, so a work is named by its       *)
(* caller.  The mutexes need no variables.  process_events_mutex is held   *)
(* by the worker except in its timed wait; the other threads hold it for   *)
(* one step only.  The mutex of a work is held by its caller from locking  *)
(* it to the wait, and by the worker while it runs the work.  The model    *)
(* begins when gst_spot_src_init has seen the worker awake.                *)
(***************************************************************************)
EXTENDS Naturals, Sequences

CONSTANT Callers    \* the threads that call run_spot_cmd

VARIABLES
    works,      \* spot_works
    pc,         \* where each caller is in run_spot_cmd
    ran,        \* the callers whose command was run, until they return
    worker,     \* where the worker is
    keep        \* keep_spotify_thread

workVars == <<works, pc, ran, worker, keep>>

\* outside; appended; with its own mutex locked; about to wait; waiting; woken up.
CallerPlaces == {"idle", "queued", "locked", "announced", "asleep", "awake"}

\* In the timed wait; woken up in it; at the test of spot_works; running the first
\* work; returned.
WorkerPlaces == {"asleep", "woken", "scan", "run", "gone"}

WorkInit ==
    /\ works = <<>>
    /\ pc = [c \in Callers |-> "idle"]
    /\ ran = {}
    /\ worker = "scan"
    /\ keep = TRUE

\* process_events_mutex is free.
EventsFree == worker \in {"asleep", "woken", "gone"}

\* Variant of WorkFree for the checks: a caller that waits keeps its mutex.
WorkFreeBeforeWait(c) ==
    /\ pc[c] \notin {"locked", "announced", "asleep"}
    /\ ~(worker = "run" /\ Head(works) = c)

\* The mutex of c's work is free.
WorkFree(c) ==
    /\ pc[c] \notin {"locked", "announced"}
    /\ ~(worker = "run" /\ Head(works) = c)

\* g_cond_broadcast (spot->process_events_cond)
WorkerSignalled == IF worker = "asleep" THEN "woken" ELSE worker

-------------------------------------------------------------------------------
(* run_spot_cmd.  The element is not finalized while somebody uses it. *)

Submit(c) ==
    /\ keep
    /\ pc[c] = "idle"
    /\ EventsFree
    /\ works' = Append(works, c)
    /\ pc' = [pc EXCEPT ![c] = "queued"]
    /\ UNCHANGED <<ran, worker, keep>>

Lock(c) ==
    /\ pc[c] = "queued"
    /\ WorkFree(c)
    /\ pc' = [pc EXCEPT ![c] = "locked"]
    /\ UNCHANGED <<works, ran, worker, keep>>

Announce(c) ==
    /\ pc[c] = "locked"
    /\ pc' = [pc EXCEPT ![c] = "announced"]
    /\ worker' = WorkerSignalled
    /\ UNCHANGED <<works, ran, keep>>

\* The wait has no predicate: it begins even when the work was run already.
Wait(c) ==
    /\ pc[c] = "announced"
    /\ pc' = [pc EXCEPT ![c] = "asleep"]
    /\ UNCHANGED <<works, ran, worker, keep>>

\* Variant of Return for the checks: the result stays.
ReturnKeeping(c) ==
    /\ pc[c] = "awake"
    /\ WorkFree(c)
    /\ pc' = [pc EXCEPT ![c] = "idle"]
    /\ UNCHANGED <<works, ran, worker, keep>>

\* Woken up: it takes the result and frees the work.
Return(c) ==
    /\ pc[c] = "awake"
    /\ WorkFree(c)
    /\ pc' = [pc EXCEPT ![c] = "idle"]
    /\ ran' = ran \ {c}
    /\ UNCHANGED <<works, worker, keep>>

-------------------------------------------------------------------------------
(* spotify_thread_func *)

\* The timed wait ends, by its timeout or by notify_main_thread.
Wake ==
    /\ worker = "asleep"
    /\ worker' = "woken"
    /\ UNCHANGED <<works, pc, ran, keep>>

\* It has process_events_mutex again.
Resume ==
    /\ worker = "woken"
    /\ worker' = "scan"
    /\ UNCHANGED <<works, pc, ran, keep>>

\* Lock the mutex of the first work.
Take ==
    /\ worker = "scan"
    /\ works # <<>>
    /\ WorkFree(Head(works))
    /\ worker' = "run"
    /\ UNCHANGED <<works, pc, ran, keep>>

\* Variants of Execute for the checks: the last work is removed, none is, and the
\* caller is not woken.
ExecuteLast ==
    LET c == Head(works)
    IN /\ worker = "run"
       /\ works' = SubSeq(works, 1, Len(works) - 1)
       /\ ran' = ran \cup {c}
       /\ pc' = [pc EXCEPT ![c] = IF @ = "asleep" THEN "awake" ELSE @]
       /\ worker' = "scan"
       /\ UNCHANGED keep

ExecuteKeeping ==
    LET c == Head(works)
    IN /\ worker = "run"
       /\ ran' = ran \cup {c}
       /\ pc' = [pc EXCEPT ![c] = IF @ = "asleep" THEN "awake" ELSE @]
       /\ worker' = "scan"
       /\ UNCHANGED <<works, keep>>

ExecuteSilently ==
    LET c == Head(works)
    IN /\ worker = "run"
       /\ works' = Tail(works)
       /\ ran' = ran \cup {c}
       /\ worker' = "scan"
       /\ UNCHANGED <<pc, keep>>

\* Run the command, remove the work, wake its caller and unlock.  Only the
\* worker can get at a work that it runs.
Execute ==
    LET c == Head(works)
    IN /\ worker = "run"
       /\ works' = Tail(works)
       /\ ran' = ran \cup {c}
       /\ pc' = [pc EXCEPT ![c] = IF @ = "asleep" THEN "awake" ELSE @]
       /\ worker' = "scan"
       /\ UNCHANGED keep

\* Variant of Rest for the checks: the worker does not look at keep_spotify_thread.
RestForever ==
    /\ worker = "scan"
    /\ works = <<>>
    /\ worker' = "asleep"
    /\ UNCHANGED <<works, pc, ran, keep>>

\* All works are done: back into the timed wait, or out of the thread.
Rest ==
    /\ worker = "scan"
    /\ works = <<>>
    /\ worker' = IF keep THEN "asleep" ELSE "gone"
    /\ UNCHANGED <<works, pc, ran, keep>>

\* gst_spot_src_finalize up to the join; nobody uses the element any more.
Finalize ==
    /\ keep
    /\ \A c \in Callers : pc[c] = "idle"
    /\ EventsFree
    /\ keep' = FALSE
    /\ worker' = WorkerSignalled
    /\ UNCHANGED <<works, pc, ran>>

-------------------------------------------------------------------------------
Call(c) == Lock(c) \/ Announce(c) \/ Wait(c) \/ Return(c)
Work == Wake \/ Resume \/ Take \/ Execute \/ Rest

WorkNext == Work \/ Finalize \/ \E c \in Callers : Submit(c) \/ Call(c)

WorkSpec == WorkInit /\ [][WorkNext]_workVars

\* A thread that can go on does.  Nobody has to call, and the element need not be
\* finalized.
WorkFairness == WF_workVars(Work) /\ \A c \in Callers : WF_workVars(Call(c))
WorkFairSpec == WorkSpec /\ WorkFairness

-------------------------------------------------------------------------------
\* The lists hold callers and a command has a result only while its caller waits
\* for it.
WorkTypeOK ==
    /\ works \in Seq(Callers)
    /\ pc \in [Callers -> CallerPlaces]
    /\ ran \in SUBSET {c \in Callers : pc[c] # "idle"}
    /\ worker \in WorkerPlaces
    /\ keep \in BOOLEAN

\* A caller frees its work when it returns: a work that the worker can still get
\* at belongs to a caller that has not returned, once, and was not run before
\* (run_spot_cmd frees what spotify_thread_func uses).
WorksAlive ==
    /\ \A i \in DOMAIN works :
        /\ pc[works[i]] \in {"queued", "locked", "announced", "asleep"}
        /\ works[i] \notin ran
        /\ \A j \in DOMAIN works : works[i] = works[j] => i = j
    /\ worker = "run" => works # <<>>
    /\ worker = "gone" => works = <<>>

\* The abstract service: commands run in order and once, and a caller returns only
\* with the result of its command.
Service == INSTANCE CommandService WITH line <- works, served <- ran
ServiceSpec == Service!Spec

\* Every submitted command is run, whatever the callers do meanwhile: the worker
\* and the callers take the two mutexes in different orders.
CommandsRun == \A c \in Callers : pc[c] = "queued" ~> c \in ran

\* A caller that waits before its command was run is woken and returns.
WaitersReturn ==
    \A c \in Callers : pc[c] = "asleep" /\ c \notin ran ~> pc[c] = "idle"

\* The join in gst_spot_src_finalize returns: the worker sees keep_spotify_thread
\* and leaves the process_events_mutex.
JoinReturns == ~keep ~> worker = "gone"
===============================================================================
