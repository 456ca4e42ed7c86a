----------------------------- MODULE GameServer -----------------------------
(***************************************************************************)
(* One game-server instance: its process and state machine (Supervisor and *)
(* ServerFsm), and the manager's operations on it (ServerManager): start,  *)
(* stop, restart, installation, maintenance, the room going away, deletion.*)
(*                                                                         *)
(* Everything runs on one thread, so an action is a whole handler.  What   *)
(* is concurrent is the process itself, three timers, the installs and     *)
(* backups that await, and what the user does meanwhile.                   *)
(***************************************************************************)
EXTENDS Naturals

CONSTANTS
    MaxRestarts,  \* unexpected exits tolerated inside the window
    MaxExits,     \* bound: unexpected exits that count at one time
    LateOutput,   \* whether output may be read after the process's exit event
    SpawnErrors,  \* whether a spawn may fail without ever emitting an exit
    FilesBusy     \* whether deleting the instance's files may fail

ASSUME ParameterAssumption ==
    /\ MaxRestarts \in Nat /\ MaxExits \in Nat
    /\ LateOutput \in BOOLEAN /\ SpawnErrors \in BOOLEAN /\ FilesBusy \in BOOLEAN

VARIABLES
    sup,         \* the Supervisor with its ServerFsm
    auto,        \* supervisor.autoRestart
    want,        \* persisted.autoRestart
    dying,       \* the process has been killed and has yet to exit
    late,        \* a `ready` line of an exited process is still unread
    installing,  \* entry.installing
    maintenance, \* the instance is in the maintenance set
    again,       \* a restart() waits for the exit, and its runEpoch still holds
    waiter,      \* stopAndWait() of a room that went away; "deaf" once its listener is gone
    paused,      \* persisted.lifecyclePaused
    room,        \* the room the instance is linked to
    entry,       \* the instance has not been deleted
    wanted       \* history: whether the last request about running was to run

fsm == <<sup, auto, dying>>
busy == <<installing, maintenance>>
link == <<waiter, paused, room, entry>>
vars == <<sup, auto, want, dying, late, installing, maintenance, again, waiter,
          paused, room, entry, wanted>>

-----------------------------------------------------------------------------
Settled == {"idle", "stopped", "crashed"}

\* `restart` and `stop` are the two timers, `expecting` expectingExit.  A child
\* that is "unborn" is one whose spawn failed: it has no pid and is not null.
Supervisor == [status : Settled \cup {"starting", "running", "stopping"},
               child : {"none", "alive", "unborn"},
               expecting : BOOLEAN, ready : BOOLEAN, fatal : BOOLEAN,
               crashes : 0..MaxExits, restart : BOOLEAN, stop : BOOLEAN]

TypeOK ==
    /\ sup \in Supervisor
    /\ auto \in BOOLEAN /\ want \in BOOLEAN /\ dying \in BOOLEAN /\ late \in BOOLEAN
    /\ installing \in BOOLEAN /\ maintenance \in BOOLEAN /\ again \in BOOLEAN
    /\ waiter \in {"no", "waiting", "deaf", "failed"}
    /\ paused \in BOOLEAN /\ entry \in BOOLEAN /\ wanted \in BOOLEAN
    /\ room \in {"none", "here", "away", "left"}

-----------------------------------------------------------------------------
(* What the Supervisor's methods do to it *)

\* start() refuses while there is a child, and the state machine while it is up
\* or in transition.
Refused(s) == s.child # "none" \/ s.status \notin Settled

\* start(): refused, failed before or at the spawn, or a new process.  A spawn
\* that fails asynchronously reports `error` at once, and no exit.
Launched(s) ==
    IF Refused(s) THEN {s}
    ELSE LET begun == [s EXCEPT !.status = "starting", !.ready = FALSE, !.fatal = FALSE]
         IN  {[begun EXCEPT !.status = "crashed"],
              [begun EXCEPT !.child = "alive", !.expecting = FALSE]}
             \cup {c \in {[begun EXCEPT !.status = "crashed", !.child = "unborn",
                                        !.expecting = FALSE]} : SpawnErrors}

\* prepareRestart
Unparked(s) == [s EXCEPT !.status = IF @ = "starting" THEN "idle" ELSE @]

Stoppable(s) == s.child # "none" /\ s.status \in {"starting", "running"}

\* Mutant: a delayed restart survives the stop.
StoppedKeepsTimer(s) ==
    IF s.child = "none" THEN Unparked(s)
    ELSE IF Stoppable(s)
         THEN [s EXCEPT !.status = "stopping", !.expecting = TRUE, !.stop = TRUE]
         ELSE s

\* Mutant: the kill that ends the grace period is never scheduled.
StoppedUntimed(s) ==
    IF s.child = "none" THEN Unparked([s EXCEPT !.restart = FALSE])
    ELSE IF Stoppable(s)
         THEN [s EXCEPT !.restart = FALSE, !.status = "stopping", !.expecting = TRUE]
         ELSE [s EXCEPT !.restart = FALSE]

\* stop(): a delayed restart is cancelled in any case.
Stopped(s) ==
    IF s.child = "none" THEN Unparked([s EXCEPT !.restart = FALSE])
    ELSE IF Stoppable(s)
         THEN [s EXCEPT !.restart = FALSE, !.status = "stopping",
                        !.expecting = TRUE, !.stop = TRUE]
         ELSE [s EXCEPT !.restart = FALSE]

\* Mutant: the restart is cancelled and its place not given back.
PausedParked(s) == [s EXCEPT !.restart = FALSE]

\* pauseAutoRestart: only a delayed restart is affected.
Paused(s) ==
    IF s.restart /\ s.child = "none" THEN Unparked([s EXCEPT !.restart = FALSE])
    ELSE [s EXCEPT !.restart = FALSE]

\* kill()
Killed(s) == [s EXCEPT !.restart = FALSE, !.expecting = TRUE]

\* Mutant: an expected exit restarts too.
ExitedRestarting(s) ==
    LET n == s.crashes + 1
        t == [s EXCEPT !.child = "none", !.stop = FALSE, !.expecting = FALSE, !.ready = FALSE]
    IN  IF ~auto \/ n > MaxRestarts THEN [t EXCEPT !.status = "crashed", !.crashes = n]
        ELSE [t EXCEPT !.status = "starting", !.crashes = n, !.restart = TRUE]

\* onExit and exited(): an unexpected exit is restarted after a delay, within
\* the budget; the instance is parked in "starting" meanwhile.
Exited(s) ==
    LET n == s.crashes + 1
        t == [s EXCEPT !.child = "none", !.stop = FALSE, !.expecting = FALSE, !.ready = FALSE]
    IN  IF s.expecting THEN [t EXCEPT !.status = "stopped"]
        ELSE IF s.fatal THEN [t EXCEPT !.status = "crashed"]
        ELSE IF ~auto \/ n > MaxRestarts THEN [t EXCEPT !.status = "crashed", !.crashes = n]
        ELSE [t EXCEPT !.status = "starting", !.crashes = n, !.restart = TRUE]

\* applyEvent of `ready`, which clears the crash budget.
MadeReady(s) ==
    IF s.status # "starting" THEN s
    ELSE [s EXCEPT !.status = "running", !.ready = TRUE, !.crashes = 0]

-----------------------------------------------------------------------------
(* The process and the timers *)

Ready ==
    /\ sup.child = "alive" /\ sup.status = "starting"
    /\ sup' = MadeReady(sup)
    /\ UNCHANGED <<auto, want, dying, late, busy, again, link, wanted>>

\* A `ready` line that was in the pipe when the process exited.
LateReady ==
    /\ late
    /\ late' = FALSE
    /\ sup' = MadeReady(sup)
    /\ UNCHANGED <<auto, want, dying, busy, again, link, wanted>>

\* A log line the module calls fatal.
Fatal ==
    /\ sup.child = "alive"
    /\ sup' = [sup EXCEPT !.fatal = TRUE]
    /\ UNCHANGED <<auto, want, dying, late, busy, again, link, wanted>>

\* manager.start(), as far as its guards go.
Startable ==
    /\ entry /\ room \notin {"away", "left"}
    /\ ~installing /\ ~maintenance

\* The exit listener of restart() starts the server again, unless something
\* was decided about it since.
Restarting == again /\ ~paused /\ Startable

\* The process exits.  Every listener runs in the same step.
Exit ==
    /\ sup.child = "alive"
    /\ sup.expecting \/ sup.fatal \/ sup.crashes < MaxExits
    /\ IF Restarting THEN sup' \in Launched(Exited(sup)) /\ auto' = want
                     ELSE sup' = Exited(sup) /\ UNCHANGED auto
    /\ late' \in {late, late \/ (LateOutput /\ ~sup.ready)}
    /\ dying' = FALSE /\ again' = FALSE
    /\ waiter' = IF waiter = "waiting" THEN "no" ELSE waiter
    /\ UNCHANGED <<want, busy, paused, room, entry, wanted>>

\* Mutant: the place is not given back before the start, which is then refused.
RestartTimerUnprepared ==
    /\ sup.restart
    /\ sup' \in Launched([sup EXCEPT !.restart = FALSE])
    /\ UNCHANGED <<auto, want, dying, late, busy, again, link, wanted>>

\* The delay before an automatic restart is over.  The supervisor starts itself:
\* the manager's guards are not consulted.
RestartTimer ==
    /\ sup.restart
    /\ sup' \in Launched(Unparked([sup EXCEPT !.restart = FALSE]))
    /\ UNCHANGED <<auto, want, dying, late, busy, again, link, wanted>>

\* The grace period of a stop is over: killTree and killed().
StopTimer ==
    /\ sup.stop
    /\ sup' = [sup EXCEPT !.stop = FALSE, !.status = "stopped", !.ready = FALSE]
    /\ dying' = (sup.child = "alive")
    /\ UNCHANGED <<auto, want, late, busy, again, link, wanted>>

\* stopAndWait() gives up, after the stop's own kill.
WaitTimer ==
    /\ waiter \in {"waiting", "deaf"} /\ ~sup.stop
    /\ waiter' = "failed"
    /\ sup' = Killed(sup)
    /\ dying' = (sup.child = "alive")
    /\ UNCHANGED <<auto, want, late, busy, again, paused, room, entry, wanted>>

\* Five minutes pass since the oldest crash that counts.
WindowPasses ==
    /\ sup.crashes > 0
    /\ sup' = [sup EXCEPT !.crashes = @ - 1]
    /\ UNCHANGED <<auto, want, dying, late, busy, again, link, wanted>>

-----------------------------------------------------------------------------
(* The user, the scheduler and the other managers *)

\* start(): autoRestart is restored even when the supervisor refuses.
Start ==
    /\ Startable
    /\ auto' = want
    /\ sup' \in Launched(sup)
    /\ LET ok == ~Refused(sup) /\ sup'.child # "none"
       IN  paused' = (paused /\ ~ok) /\ wanted' = (wanted \/ ok)
    /\ UNCHANGED <<want, dying, late, busy, again, waiter, room, entry>>

\* Mutant: the epoch does not move on, and a pending restart goes ahead.
StopKeepsEpoch ==
    /\ entry
    /\ wanted' = FALSE
    /\ sup' = Stopped(sup)
    /\ UNCHANGED <<auto, want, dying, late, busy, again, link>>

\* stop(): the epoch moves on, so a pending restart is off.
Stop ==
    /\ entry
    /\ again' = FALSE
    /\ wanted' = FALSE
    /\ sup' = Stopped(sup)
    /\ UNCHANGED <<auto, want, dying, late, busy, link>>

\* restart() of a server that is up: stop it, and start it on its exit.  Of one
\* that is settled it is start(); of one that is stopping it only cancels.
RestartPressed ==
    /\ entry /\ ~maintenance /\ sup.status \notin Settled
    /\ sup' = Stopped(sup)
    /\ again' = Stoppable(sup)
    /\ wanted' = Stoppable(sup)
    /\ UNCHANGED <<auto, want, dying, late, busy, link>>

SetAutoRestart ==
    /\ entry /\ ~maintenance
    /\ want' \in BOOLEAN
    /\ auto' = (want' /\ ~paused)
    /\ sup' = IF auto' THEN sup ELSE Paused(sup)
    /\ UNCHANGED <<dying, late, busy, again, link, wanted>>

ClearFailure ==
    /\ entry /\ sup.status = "crashed"
    /\ sup' = [sup EXCEPT !.status = "idle", !.crashes = 0, !.fatal = FALSE]
    /\ UNCHANGED <<auto, want, dying, late, busy, again, link, wanted>>

\* Mutant: only the process is looked at, not a restart that is due.
IdleByPid == sup.child # "alive" /\ ~installing

\* What installEntry and assertStopped ask for.
Idle == sup.child # "alive" /\ ~installing /\ sup.status \in Settled

\* install(), or the installation inside the maintenance of applyUpdate().
Install ==
    /\ entry /\ Idle
    /\ installing' = TRUE
    /\ UNCHANGED <<fsm, want, late, maintenance, again, link, wanted>>

InstallDone ==
    /\ installing
    /\ installing' = FALSE
    /\ UNCHANGED <<fsm, want, late, maintenance, again, link, wanted>>

\* withMaintenance: a backup, a restore, an update.
Maintain ==
    /\ entry /\ Idle /\ ~maintenance
    /\ maintenance' = TRUE
    /\ again' = FALSE /\ auto' = FALSE /\ wanted' = FALSE
    /\ sup' = Paused(sup)
    /\ UNCHANGED <<want, dying, late, installing, link>>

MaintenanceDone ==
    /\ maintenance /\ ~installing
    /\ maintenance' = FALSE
    /\ UNCHANGED <<fsm, want, late, installing, again, link, wanted>>

\* onRoomUnavailable, the room being suspended or left.
RoomGone ==
    /\ entry /\ room = "here"
    /\ room' \in {"away", "left"}
    /\ again' = FALSE /\ paused' = TRUE /\ auto' = FALSE /\ wanted' = FALSE
    /\ sup' = Stopped(sup)
    /\ waiter' = IF sup.child = "none" THEN "no" ELSE "waiting"
    /\ UNCHANGED <<want, dying, late, busy, entry>>

RoomBack ==
    /\ room = "away"
    /\ room' = "here"
    /\ UNCHANGED <<fsm, want, late, busy, again, waiter, paused, entry, wanted>>

\* The exit a left room waited for has come: the instance becomes local.
Detach ==
    /\ entry /\ room = "left" /\ waiter = "no"
    /\ room' = "none"
    /\ paused' = TRUE /\ want' = FALSE /\ auto' = FALSE /\ again' = FALSE
    /\ sup' = Paused(sup)
    /\ UNCHANGED <<dying, late, busy, waiter, entry, wanted>>

\* The room is left and its servers kept: one that is up goes on.
DetachRunning ==
    /\ entry /\ room = "here" /\ ~installing
    /\ room' = "none"
    /\ paused' = (sup.status # "running")
    /\ want' = FALSE /\ auto' = FALSE /\ again' = FALSE
    /\ LET up == Paused(sup).status \in {"running", "starting"}
       IN  /\ sup' = IF up THEN Paused(sup) ELSE Stopped(Paused(sup))
           /\ wanted' = (wanted /\ up)
    /\ UNCHANGED <<dying, late, busy, waiter, entry>>

\* deleteInstance: the supervisor is disposed of first.  When the files cannot
\* be removed the instance stays, without the listeners it had.
Delete ==
    /\ entry /\ ~maintenance
    /\ entry' \in {FALSE, FilesBusy}
    /\ sup' = [Killed(sup) EXCEPT !.stop = FALSE]
    /\ dying' = (dying \/ sup.child = "alive")
    /\ again' = FALSE /\ wanted' = FALSE
    /\ waiter' = IF waiter = "waiting" THEN "deaf" ELSE waiter
    /\ UNCHANGED <<auto, want, late, busy, paused, room>>

-----------------------------------------------------------------------------
Init ==
    /\ sup = [status |-> "idle", child |-> "none", expecting |-> FALSE, ready |-> FALSE,
              fatal |-> FALSE, crashes |-> 0, restart |-> FALSE, stop |-> FALSE]
    /\ want \in BOOLEAN /\ auto = want /\ dying = FALSE /\ late = FALSE
    /\ installing = FALSE /\ maintenance = FALSE /\ again = FALSE
    /\ waiter = "no" /\ paused = FALSE /\ room \in {"none", "here"} /\ entry = TRUE
    /\ wanted = FALSE

Process == Ready \/ LateReady \/ Fatal \/ Exit
Timer == RestartTimer \/ StopTimer \/ WaitTimer \/ WindowPasses
User == Start \/ Stop \/ RestartPressed \/ SetAutoRestart \/ ClearFailure \/ Delete
Work == Install \/ InstallDone \/ Maintain \/ MaintenanceDone
Room == RoomGone \/ RoomBack \/ Detach \/ DetachRunning

Next == Process \/ Timer \/ User \/ Work \/ Room

\* Timers fire, and a process whose tree was killed exits.  Nothing else is
\* promised: a server may ignore its stop command and never be ready.
Fairness ==
    /\ WF_vars(StopTimer) /\ WF_vars(RestartTimer) /\ WF_vars(WaitTimer)
    /\ WF_vars(dying /\ Exit)

Spec == Init /\ [][Next]_vars
FairSpec == Spec /\ Fairness

-----------------------------------------------------------------------------
(* Properties *)

\* A step brings a process up, as opposed to moving one on.
Spawns ==
    /\ sup'.child = "alive" /\ sup'.status = "starting"
    /\ ~(sup.child = "alive" /\ sup.status = "starting")

\* No server comes up against the last thing that was decided about it: not
\* after a stop, a room's departure, a maintenance or a deletion, whichever
\* restart timer or exit listener was still pending.
NoRevival == [][Spawns => wanted']_vars

\* The supervisor starts itself after a crash and asks the manager nothing; yet
\* no process comes up in a room that is away, amid an installation or a backup,
\* or for an instance that was deleted.
SpawnsAllowed == [][Spawns => entry' /\ room' \notin {"away", "left"} /\ ~installing' /\ ~maintenance']_vars

\* Files are installed, saved and restored only when no process is using them
\* and none is about to.
FilesExclusive == installing \/ maintenance => sup.child # "alive" /\ ~sup.restart

\* A stop that is under way has something to end it: its kill timer, or a kill
\* already dealt.
StopIsTimed == sup.status = "stopping" => sup.child = "alive" /\ (sup.stop \/ dying)

\* Every stop comes to an end, whatever the process does.
StopEnds == sup.status = "stopping" ~> sup.status # "stopping"

\* A place is kept for a restart: the status is "starting", and there is no process.
Parked == sup.status = "starting" /\ sup.child = "none"

\* A crashed server does not stay parked, whatever is done about it meanwhile: it comes
\* up, or its status says that it did not.  A deletion that fails is excepted (a kill
\* takes the timer away, and leaves expectingExit without a process).
ParkedEnds == Parked ~> ~Parked \/ sup.expecting

\* A place that was kept for a restart is given back when the restart is
\* called off, by whatever means: only a deletion that fails strands it, or a
\* wait that such a deletion has left behind.
Stranded == Parked /\ ~sup.restart
StrandedByDeletion == [][Stranded' => Stranded \/ Delete \/ waiter = "deaf"]_vars

\* A start is refused only while the process is up or a restart is due
\* (supervisor.ts, start()).
RefusedOnlyWhenUp == entry /\ Refused(sup) => sup.child = "alive" \/ sup.restart

\* A status that says the process is up, or going down, has a process
\* (gameserver-core.ts, isLive).
UpMeansProcess == entry /\ sup.status \in {"running", "stopping"} => sup.child = "alive"
=============================================================================
