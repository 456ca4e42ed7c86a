---------------------------- MODULE TorrentHost ----------------------------
(***************************************************************************)
(* The life of the torrent engine's process, as TorrentManagerProxy in the *)
(* main process manages it: lazy spawn, a readiness latch shared by every  *)
(* caller, respawn after a crash, a full restart, and the teardown at quit.*)
(*                                                                         *)
(* The main process is one JavaScript thread.  A message, an exit or a     *)
(* timer is handled only when no continuation is left to run (Quiet); the  *)
(* continuations themselves, and the calls that failed callers make again, *)
(* run in any order.                                                       *)
(***************************************************************************)
EXTENDS Naturals, FiniteSets

CONSTANTS
    Host,     \* processes; the id of one that is gone is used again
    Caller,   \* users of the proxy, each with one rpc at a time
    None      \* null

ASSUME HostAssumption == IsFiniteSet(Host) /\ None \notin Host
ASSUME CallerAssumption == {"restart", "quit"} \cap Caller = {}

VARIABLES
    host,       \* host[h]: the state of the process
    child,      \* the current process
    latch,      \* readyPromise, named by the process it was made for
    armed,      \* the promise that resolveReady and rejectReady settle
    open,       \* the promises not settled yet
    rpc,        \* rpc[t]: where the rpc of task t is
    restart,    \* how far restartEngine is
    old,        \* the process restartEngine waits for
    quit,       \* how far the destroy() of the application's quit is
    mirror,     \* the process whose `state` event the getters show
    abandoned   \* history: processes restartEngine gave up waiting for

vars == <<host, child, latch, armed, open, rpc, restart, old, quit, mirror, abandoned>>

-----------------------------------------------------------------------------
\* destroy() calls rpc() too: once for a restart, once for the quit.
Task == Caller \cup {"restart", "quit"}
HostOrNone == Host \cup {None}

Idle == [at |-> "idle", on |-> None]
Failed == [at |-> "failed", on |-> None]
Answered == [at |-> "answered", on |-> None]
AtLatch(h) == [at |-> "latch", on |-> h]        \* awaits readiness of h
AtRestart == [at |-> "restart", on |-> None]    \* awaits the restart
Posted(h) == [at |-> "posted", on |-> h]        \* in `pending`, sent to h

TypeOK ==
    /\ host \in [Host -> {"gone", "starting", "stated", "ready", "killed"}]
    /\ child \in HostOrNone /\ latch \in HostOrNone /\ armed \in HostOrNone
    /\ open \subseteq Host
    /\ rpc \in [Task -> {Idle, Failed, Answered, AtRestart}
                           \cup {AtLatch(h) : h \in Host} \cup {Posted(h) : h \in Host}]
    /\ restart \in {"no", "destroying", "exiting", "spawning"}
    /\ old \in HostOrNone /\ mirror \in HostOrNone
    /\ quit \in {"no", "destroying", "done"}
    /\ abandoned \subseteq Host

Alive == {h \in Host : host[h] # "gone"}

\* What a settled rpc leaves behind: a caller is free for its next call, a
\* destroy() has yet to continue.
Settled(t, result) == IF t \in Caller THEN Idle ELSE result

Resuming(t) == rpc[t] \in {Failed, Answered}
\* Mutant: the exit of the old process is not waited for.
OldGoneUnwaited == restart = "exiting"

OldGone == restart = "exiting" /\ old \notin Alive
Quiet == ~Resuming("restart") /\ ~Resuming("quit") /\ ~OldGone

-----------------------------------------------------------------------------
(* Calls *)

\* spawn, with the new readiness promise that ensureSpawned makes for it.
Spawn(h) ==
    /\ host[h] = "gone" /\ h \notin open
    /\ host' = [host EXCEPT ![h] = "starting"]
    /\ child' = h /\ latch' = h /\ armed' = h
    /\ open' = open \cup {h}
    /\ abandoned' = abandoned \ {h}

\* Mutant: readiness is not awaited and the process not checked.
RpcUnready(t) ==
    /\ IF latch = None THEN \E h \in Host : Spawn(h)
       ELSE UNCHANGED <<host, child, latch, armed, open, abandoned>>
    /\ rpc' = [rpc EXCEPT ![t] = Posted(child)]

\* An rpc by t: it waits for a restart, spawns, waits for readiness, or is
\* posted to the current process at once.
Rpc(t) ==
    \/ /\ restart # "no"
       /\ rpc' = [rpc EXCEPT ![t] = AtRestart]
       /\ UNCHANGED <<host, child, latch, armed, open, abandoned>>
    \/ /\ restart = "no" /\ latch = None
       /\ \E h \in Host : Spawn(h) /\ rpc' = [rpc EXCEPT ![t] = AtLatch(h)]
    \/ /\ restart = "no" /\ latch # None
       /\ rpc' = [rpc EXCEPT ![t] =
                      IF latch \in open THEN AtLatch(latch)
                      ELSE IF child = None THEN Settled(t, Failed) ELSE Posted(child)]
       /\ UNCHANGED <<host, child, latch, armed, open, abandoned>>

Call(t) ==
    /\ rpc[t] = Idle
    /\ Rpc(t)
    /\ UNCHANGED <<restart, old, quit, mirror>>

\* rpc-res: the process answers, with a result or an error.
Answer(t) ==
    /\ Quiet
    /\ rpc[t].at = "posted" /\ host[rpc[t].on] = "ready"
    /\ rpc' = [rpc EXCEPT ![t] = Settled(t, Answered)]
    /\ UNCHANGED <<host, child, latch, armed, open, restart, old, quit, mirror, abandoned>>

-----------------------------------------------------------------------------
(* The process *)

\* Every `state` event is mirrored, whoever sent it.  The first one is sent
\* when initialize() has finished, before `ready`.
StateEvent(h) ==
    /\ Quiet
    /\ host[h] # "gone"
    /\ host' = [host EXCEPT ![h] = IF @ = "starting" THEN "stated" ELSE @]
    /\ mirror' = h
    /\ UNCHANGED <<child, latch, armed, open, rpc, restart, old, quit, abandoned>>

\* Mutant: `ready` may come before the first state.
ReadyBeforeState(h) ==
    /\ Quiet
    /\ host[h] = "starting"
    /\ host' = [host EXCEPT ![h] = "ready"]
    /\ open' = open \ {armed} /\ armed' = None
    /\ restart' = IF restart = "spawning" /\ latch = armed THEN "no" ELSE restart
    /\ rpc' = [t \in Task |->
                   IF rpc[t] = AtLatch(armed) \/ (rpc[t] = AtRestart /\ restart' # restart)
                   THEN Posted(child) ELSE rpc[t]]
    /\ UNCHANGED <<child, latch, old, quit, mirror, abandoned>>

\* `ready`: the armed promise is resolved, whoever it was made for; everyone who
\* waited for it, or for the restart it completes, posts to the current process.
Ready(h) ==
    /\ Quiet
    /\ host[h] = "stated"
    /\ host' = [host EXCEPT ![h] = "ready"]
    /\ open' = open \ {armed}
    /\ armed' = None
    /\ restart' = IF restart = "spawning" /\ latch = armed THEN "no" ELSE restart
    /\ rpc' = [t \in Task |->
                   IF rpc[t] = AtLatch(armed) \/ (rpc[t] = AtRestart /\ restart' # restart)
                   THEN IF child = None THEN Settled(t, Failed) ELSE Posted(child)
                   ELSE rpc[t]]
    /\ UNCHANGED <<child, latch, old, quit, mirror, abandoned>>

\* Mutant: without the identity guard.
ExitUnguarded(h) ==
    /\ Quiet
    /\ host[h] # "gone"
    /\ host' = [host EXCEPT ![h] = "gone"]
    /\ child' = None /\ latch' = None /\ armed' = None
    /\ open' = open \ {armed}
    /\ restart' = IF restart = "spawning" THEN "no" ELSE restart
    /\ rpc' = [t \in Task |->
                   IF rpc[t].at = "posted" \/ rpc[t] = AtLatch(armed)
                      \/ (rpc[t] = AtRestart /\ restart' # restart)
                   THEN Settled(t, Failed) ELSE rpc[t]]
    /\ UNCHANGED <<old, quit, mirror, abandoned>>

\* Mutant: who waits for the readiness of the process is not told.
ExitBeforeReady(h) ==
    /\ Quiet
    /\ host[h] # "gone"
    /\ host' = [host EXCEPT ![h] = "gone"]
    /\ IF child # h THEN UNCHANGED <<child, latch, armed, rpc>>
       ELSE /\ child' = None /\ latch' = None /\ armed' = None
            /\ rpc' = [t \in Task |->
                           IF rpc[t].at = "posted" THEN Settled(t, Failed) ELSE rpc[t]]
    /\ UNCHANGED <<open, restart, old, quit, mirror, abandoned>>

\* The process exits, by itself, by a crash or because it was killed.  Only the
\* exit of the current one fails the calls and clears the way for a respawn.
Exit(h) ==
    /\ Quiet
    /\ host[h] # "gone"
    /\ host' = [host EXCEPT ![h] = "gone"]
    /\ IF child # h THEN UNCHANGED <<child, latch, armed, open, rpc, restart>>
       ELSE /\ child' = None /\ latch' = None /\ armed' = None
            /\ open' = open \ {armed}
            /\ restart' = IF restart = "spawning" THEN "no" ELSE restart
            /\ rpc' = [t \in Task |->
                           IF \/ rpc[t].at = "posted"
                              \/ rpc[t] = AtLatch(armed)
                              \/ rpc[t] = AtRestart /\ restart' # restart
                           THEN Settled(t, Failed) ELSE rpc[t]]
    /\ UNCHANGED <<old, quit, mirror, abandoned>>

-----------------------------------------------------------------------------
(* Teardown *)

\* Mutant: what is pending is left pending.
TearDownSilently(d) ==
    /\ host' = [h \in Host |-> IF h = child THEN "killed" ELSE host[h]]
    /\ rpc' = [rpc EXCEPT ![d] = Idle]
    /\ child' = None /\ latch' = None /\ armed' = None

\* The rest of destroy() once its rpc is settled, or at once without a process:
\* kill, forget, and fail what is pending.
TearDown(d) ==
    /\ host' = [h \in Host |-> IF h = child THEN "killed" ELSE host[h]]
    /\ rpc' = [t \in Task |-> IF t = d THEN Idle
                              ELSE IF rpc[t].at = "posted" /\ child # None
                                   THEN Settled(t, Failed) ELSE rpc[t]]
    /\ child' = None /\ latch' = None /\ armed' = None

\* restartEngine up to the first await, in destroy(); a restart under way is
\* shared.  Bound: a process id is free for the new process.
Restart ==
    /\ restart = "no" /\ rpc["restart"] = Idle
    /\ \E h \in Host : host[h] = "gone" /\ h \notin open
    /\ old' = child
    /\ IF child = None
       THEN TearDown("restart") /\ restart' = "exiting" /\ UNCHANGED <<open, abandoned>>
       ELSE Rpc("restart") /\ restart' = "destroying"
    /\ UNCHANGED <<quit, mirror>>

RestartTornDown ==
    /\ Resuming("restart")
    /\ TearDown("restart")
    /\ restart' = "exiting"
    /\ UNCHANGED <<open, old, quit, mirror, abandoned>>

\* The old process is gone: ensureSpawned.
RestartSpawns ==
    /\ OldGone
    /\ IF latch = None THEN \E h \in Host : Spawn(h)
       ELSE UNCHANGED <<host, child, latch, armed, open, abandoned>>
    /\ restart' = IF latch # None /\ latch \notin open THEN "no" ELSE "spawning"
    /\ UNCHANGED <<rpc, old, quit, mirror>>

\* Mutant: the wait for the old process has no limit.
RestartWaits == FALSE /\ UNCHANGED vars

\* 15 s have passed and the old process still lives: spawn all the same.
RestartTimesOut ==
    /\ Quiet
    /\ restart = "exiting" /\ host[old] # "gone" /\ latch = None
    /\ \E h \in Host :
          /\ host[h] = "gone" /\ h \notin open
          /\ host' = [host EXCEPT ![h] = "starting"]
          /\ child' = h /\ latch' = h /\ armed' = h /\ open' = open \cup {h}
          /\ abandoned' = (abandoned \ {h}) \cup {old}
    /\ restart' = "spawning"
    /\ UNCHANGED <<rpc, old, quit, mirror>>

\* cleanup() of the main process calls destroy() once; the proxy keeps serving.
Quit ==
    /\ quit = "no"
    /\ IF child = None
       THEN TearDown("quit") /\ quit' = "done" /\ UNCHANGED <<open, abandoned>>
       ELSE Rpc("quit") /\ quit' = "destroying"
    /\ UNCHANGED <<restart, old, mirror>>

QuitTornDown ==
    /\ Resuming("quit")
    /\ TearDown("quit")
    /\ quit' = "done"
    /\ UNCHANGED <<open, restart, old, mirror, abandoned>>

-----------------------------------------------------------------------------
Init ==
    /\ host = [h \in Host |-> "gone"]
    /\ child = None /\ latch = None /\ armed = None
    /\ open = {}
    /\ rpc = [t \in Task |-> Idle]
    /\ restart = "no" /\ old = None
    /\ quit = "no"
    /\ mirror = None
    /\ abandoned = {}

Next ==
    \/ \E t \in Caller : Call(t)
    \/ \E t \in Task : Answer(t)
    \/ \E h \in Host : StateEvent(h) \/ Ready(h) \/ Exit(h)
    \/ Restart \/ RestartTornDown \/ RestartSpawns \/ RestartTimesOut
    \/ Quit \/ QuitTornDown

\* Continuations run and the 15 s timer fires.  A process that starts becomes
\* ready or exits (torrent-host exits when its setup throws) and one that is
\* ready answers or exits; a killed one may hang.
Fairness ==
    /\ WF_vars(RestartTornDown) /\ WF_vars(RestartSpawns) /\ WF_vars(RestartTimesOut)
    /\ WF_vars(QuitTornDown)
    /\ \A t \in Task : WF_vars(Answer(t))
    /\ \A h \in Host :
          /\ WF_vars(host[h] = "starting" /\ StateEvent(h))
          /\ WF_vars(Ready(h))

Spec == Init /\ [][Next]_vars
FairSpec == Spec /\ Fairness

-----------------------------------------------------------------------------
(* Properties *)

\* The engine never loses track of a process: one that was not killed is the
\* current one, so a crash of it is noticed and a quit or a restart stops it.
NoOrphan == \A h \in Alive : host[h] # "killed" => child = h

\* Two daemons never share the configuration directory: apart from processes a
\* restart gave up on after 15 s, and from the quit, which waits for nothing, at
\* most one process is alive.
OneDaemon ==
    quit = "no" => Cardinality(Alive \ abandoned) <= 1

\* Every rpc waits for something that will settle it: the current process or
\* its readiness, or the restart under way.  (The quit's teardown may drop a
\* readiness others wait for; the application ends with it.)
WaitsAreLive ==
    \A t \in Task :
        /\ rpc[t].at = "posted" => rpc[t].on = child
        /\ (rpc[t].at = "latch" /\ quit = "no") => rpc[t].on = child /\ armed = child
        /\ rpc[t].at = "restart" => restart # "no"

\* When a restart succeeds the mirrored state is the new process's own: it
\* arrived before `ready`, and no earlier process is left to overwrite it.
MirrorFresh ==
    [][(restart = "spawning" /\ restart' = "no" /\ child' # None
            /\ abandoned = {} /\ quit = "no")
           => mirror' = child']_vars

\* Every call is settled, whatever crashes and restarts happen meanwhile, unless
\* the application quits.
CallsSettle ==
    \A t \in Caller : (rpc[t] # Idle) ~> (rpc[t] = Idle \/ quit # "no")

\* A restart ends, with a process that is ready or with a failure, or with the
\* application.
RestartEnds == (restart # "no") ~> (restart = "no" \/ quit # "no")
=============================================================================
