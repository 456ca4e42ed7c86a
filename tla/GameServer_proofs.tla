------------------------- MODULE GameServer_proofs -------------------------
(***************************************************************************)
(* Proofs about GameServer: no server is revived, files are touched only   *)
(* while no process uses them, and every stop has something to end it.     *)
(***************************************************************************)
EXTENDS GameServer, TLAPS

\* The manager would let a server start, and wants it to.
Allowed ==
    /\ entry /\ room \notin {"away", "left"}
    /\ ~installing /\ ~maintenance /\ wanted

\* A process whose exit nobody expects is one that was asked for; everything that
\* withdraws the request makes its exit expected.
Asked == sup.child = "alive" /\ ~sup.expecting => Allowed /\ sup.status \in {"starting", "running"}

\* A delayed restart likewise, while there is no process.
Due == sup.restart => Allowed /\ sup.child = "none" /\ sup.status \in {"starting", "running"}

\* A pending restart() is the last decision taken; a stop's timer has a process
\* that is expected to exit; a spawn that failed leaves no server that is up.
Pending ==
    /\ again => wanted
    /\ sup.stop => sup.child = "alive" /\ sup.expecting
    /\ sup.child = "unborn" => sup.status \in Settled
    /\ waiter = "waiting" => sup.child # "none"

Inv == TypeOK /\ Asked /\ Due /\ Pending /\ FilesExclusive /\ StopIsTimed

-----------------------------------------------------------------------------
(* The Supervisor's methods *)

\* What a call of start() may leave behind.
LEMMA LaunchedFacts ==
    ASSUME NEW s \in Supervisor, NEW t \in Launched(s)
    PROVE  /\ t \in Supervisor /\ t.restart = s.restart /\ t.stop = s.stop
           /\ t = s \/ (~Refused(s) /\ t.status = "crashed" /\ t.child # "alive")
                    \/ (~Refused(s) /\ t.status = "starting" /\ t.child = "alive" /\ ~t.expecting)
<1>1. CASE Refused(s)
  BY <1>1 DEF Launched
<1>2. CASE ~Refused(s)
  <2> DEFINE b == [s EXCEPT !.status = "starting", !.ready = FALSE, !.fatal = FALSE]
             failed == [b EXCEPT !.status = "crashed"]
             up == [b EXCEPT !.child = "alive", !.expecting = FALSE]
             unborn == [b EXCEPT !.status = "crashed", !.child = "unborn", !.expecting = FALSE]
  <2>1. t \in {failed, up, unborn}
    BY <1>2 DEF Launched
  <2>2. s.child = "none"
    BY <1>2 DEF Refused
  <2>3. /\ b \in Supervisor /\ b.restart = s.restart /\ b.stop = s.stop /\ b.child = s.child
        /\ b.status = "starting"
    BY DEF Supervisor, Settled
  <2> HIDE DEF b
  <2>4. CASE t = failed
    BY <1>2, <2>2, <2>3, <2>4 DEF Supervisor, Settled
  <2>5. CASE t = up
    BY <1>2, <2>3, <2>5 DEF Supervisor, Settled
  <2>6. CASE t = unborn
    BY <1>2, <2>3, <2>6 DEF Supervisor, Settled
  <2> QED
    BY <2>1, <2>4, <2>5, <2>6
<1> QED
  BY <1>1, <1>2

\* stop() withdraws every reason to run: no restart is due, a parked place is free,
\* and a process that was up is expected to exit within a time.
LEMMA StoppedFacts ==
    ASSUME NEW s \in Supervisor
    PROVE  /\ Stopped(s) \in Supervisor
           /\ ~Stopped(s).restart /\ Stopped(s).child = s.child
           /\ s.child = "none" => Stopped(s).status \notin {"starting"} /\ Stopped(s).stop = s.stop
           /\ s.child = "none" /\ s.status # "stopping" => Stopped(s).status # "stopping"
           /\ s.child # "none" /\ s.status \in {"starting", "running"} =>
                 Stopped(s).status = "stopping" /\ Stopped(s).expecting /\ Stopped(s).stop
           /\ s.child # "none" /\ s.status \notin {"starting", "running"} =>
                 /\ Stopped(s).status = s.status /\ Stopped(s).stop = s.stop
                 /\ Stopped(s).expecting = s.expecting
  <1> DEFINE r == [s EXCEPT !.restart = FALSE]
             i == [r EXCEPT !.status = "idle"]
             h == [s EXCEPT !.restart = FALSE, !.status = "stopping",
                            !.expecting = TRUE, !.stop = TRUE]
  <1>1. /\ r \in Supervisor /\ ~r.restart /\ r.child = s.child /\ r.status = s.status
        /\ r.stop = s.stop /\ r.expecting = s.expecting
    BY DEF Supervisor
  <1>2. /\ i \in Supervisor /\ ~i.restart /\ i.child = s.child /\ i.status = "idle"
        /\ i.stop = s.stop /\ i.expecting = s.expecting
    BY DEF Supervisor, Settled
  <1>3. /\ h \in Supervisor /\ ~h.restart /\ h.child = s.child /\ h.status = "stopping"
        /\ h.stop /\ h.expecting
    BY DEF Supervisor, Settled
  <1>4. Stopped(s) = IF s.child = "none" THEN (IF s.status = "starting" THEN i ELSE r)
                     ELSE IF s.status \in {"starting", "running"} THEN h ELSE r
    BY DEF Stopped, Unparked, Stoppable, Supervisor
  <1> HIDE DEF r, i, h
  <1> QED
    BY <1>1, <1>2, <1>3, <1>4

\* pauseAutoRestart and cancelRestart touch a delayed restart and nothing else.
LEMMA PausedFacts ==
    ASSUME NEW s \in Supervisor
    PROVE  /\ Paused(s) \in Supervisor
           /\ ~Paused(s).restart /\ Paused(s).child = s.child
           /\ Paused(s).stop = s.stop /\ Paused(s).expecting = s.expecting
           /\ Paused(s).status = s.status
                \/ (s.restart /\ s.child = "none" /\ s.status = "starting" /\ Paused(s).status = "idle")
           /\ s.restart /\ s.child = "none" => Paused(s).status # "starting"
  <1> DEFINE r == [s EXCEPT !.restart = FALSE]
             i == [r EXCEPT !.status = "idle"]
  <1>1. /\ r \in Supervisor /\ ~r.restart /\ r.child = s.child /\ r.status = s.status
        /\ r.stop = s.stop /\ r.expecting = s.expecting
    BY DEF Supervisor
  <1>2. /\ i \in Supervisor /\ ~i.restart /\ i.child = s.child /\ i.status = "idle"
        /\ i.stop = s.stop /\ i.expecting = s.expecting
    BY DEF Supervisor, Settled
  <1>3. Paused(s) = IF s.restart /\ s.child = "none" /\ s.status = "starting" THEN i ELSE r
    BY DEF Paused, Unparked, Supervisor
  <1> HIDE DEF r, i
  <1> QED
    BY <1>1, <1>2, <1>3

\* An exit leaves no process, and a place that is kept has a restart due; a
\* restart becomes due only if the exit was not expected.
LEMMA ExitedFacts ==
    ASSUME NEW s \in Supervisor, s.expecting \/ s.fatal \/ s.crashes < MaxExits
    PROVE  /\ Exited(s) \in Supervisor
           /\ Exited(s).child = "none"
           /\ \/ Exited(s).status \in Settled /\ Exited(s).restart = s.restart
              \/ ~s.expecting /\ Exited(s).status = "starting" /\ Exited(s).restart
  <1> DEFINE n == s.crashes + 1
             t == [s EXCEPT !.child = "none", !.stop = FALSE, !.expecting = FALSE, !.ready = FALSE]
             a == [t EXCEPT !.status = "stopped"]
             b == [t EXCEPT !.status = "crashed"]
             c == [t EXCEPT !.status = "crashed", !.crashes = n]
             d == [t EXCEPT !.status = "starting", !.crashes = n, !.restart = TRUE]
  <1>1. t \in Supervisor /\ t.child = "none" /\ t.restart = s.restart
    BY DEF Supervisor
  <1>2. s.expecting \/ s.fatal \/ n \in 0..MaxExits
    BY ParameterAssumption DEF Supervisor
  <1> HIDE DEF n, t
  <1>3. a \in Supervisor /\ a.child = "none" /\ a.restart = s.restart /\ a.status \in Settled
    BY <1>1 DEF Supervisor, Settled
  <1>4. b \in Supervisor /\ b.child = "none" /\ b.restart = s.restart /\ b.status \in Settled
    BY <1>1 DEF Supervisor, Settled
  <1>5. n \in 0..MaxExits =>
           c \in Supervisor /\ c.child = "none" /\ c.restart = s.restart /\ c.status \in Settled
    BY <1>1 DEF Supervisor, Settled
  <1>6. n \in 0..MaxExits =>
           d \in Supervisor /\ d.child = "none" /\ d.restart /\ d.status = "starting"
    BY <1>1 DEF Supervisor, Settled
  <1>7. Exited(s) = IF s.expecting THEN a ELSE IF s.fatal THEN b
                    ELSE IF ~auto \/ n > MaxRestarts THEN c ELSE d
    BY DEF Exited, n, t
  <1> HIDE DEF a, b, c, d
  <1> QED
    BY <1>2, <1>3, <1>4, <1>5, <1>6, <1>7

\* `ready` takes a starting server to running, and changes no process or timer.
LEMMA MadeReadyFacts ==
    ASSUME NEW s \in Supervisor
    PROVE  /\ MadeReady(s) \in Supervisor
           /\ MadeReady(s).child = s.child /\ MadeReady(s).expecting = s.expecting
           /\ MadeReady(s).restart = s.restart /\ MadeReady(s).stop = s.stop
           /\ MadeReady(s).status = IF s.status = "starting" THEN "running" ELSE s.status
  <1>1. 0 \in 0..MaxExits
    BY ParameterAssumption
  <1> DEFINE a == [s EXCEPT !.status = "running"]
             b == [a EXCEPT !.ready = TRUE]
             c == [b EXCEPT !.crashes = 0]
  <1>2. /\ a \in Supervisor /\ a.child = s.child /\ a.expecting = s.expecting
        /\ a.restart = s.restart /\ a.stop = s.stop /\ a.status = "running"
    BY DEF Supervisor, Settled
  <1> HIDE DEF a
  <1>3. /\ b \in Supervisor /\ b.child = s.child /\ b.expecting = s.expecting
        /\ b.restart = s.restart /\ b.stop = s.stop /\ b.status = "running"
    BY <1>2 DEF Supervisor, Settled
  <1> HIDE DEF b
  <1>4. /\ c \in Supervisor /\ c.child = s.child /\ c.expecting = s.expecting
        /\ c.restart = s.restart /\ c.stop = s.stop /\ c.status = "running"
    BY <1>1, <1>3 DEF Supervisor, Settled
  <1>5. MadeReady(s) = IF s.status = "starting" THEN c ELSE s
    BY DEF MadeReady, a, b
  <1> HIDE DEF c
  <1> QED
    BY <1>4, <1>5

-----------------------------------------------------------------------------
(* The invariant *)

\* At the start nothing runs and nothing is due.
LEMMA InvInit == Init => Inv
  <1> SUFFICES ASSUME Init PROVE Inv
    OBVIOUS
  <1>1. sup \in Supervisor
    BY ParameterAssumption DEF Init, Supervisor, Settled
  <1>2. sup.status = "idle" /\ sup.child = "none" /\ ~sup.restart
    BY DEF Init
  <1> QED
    BY <1>1, <1>2 DEF Init, Inv, TypeOK, Asked, Due, Allowed, Pending, FilesExclusive, StopIsTimed

\* A kill leaves no restart due, and an exit that is expected.
LEMMA KilledFacts ==
    ASSUME NEW s \in Supervisor
    PROVE  /\ Killed(s) \in Supervisor /\ [Killed(s) EXCEPT !.stop = FALSE] \in Supervisor
           /\ \A t \in {Killed(s), [Killed(s) EXCEPT !.stop = FALSE]} :
                 ~t.restart /\ t.expecting /\ t.child = s.child /\ t.status = s.status
           /\ Killed(s).stop = s.stop /\ ~[Killed(s) EXCEPT !.stop = FALSE].stop
  <1> DEFINE r == [s EXCEPT !.restart = FALSE]
             k == [r EXCEPT !.expecting = TRUE]
  <1>1. /\ r \in Supervisor /\ ~r.restart /\ r.child = s.child /\ r.status = s.status
        /\ r.stop = s.stop
    BY DEF Supervisor
  <1> HIDE DEF r
  <1>2. /\ k \in Supervisor /\ ~k.restart /\ k.child = s.child /\ k.status = s.status
        /\ k.stop = s.stop /\ k.expecting
    BY <1>1 DEF Supervisor
  <1>3. Killed(s) = k
    BY DEF Killed, k, r
  <1> HIDE DEF k
  <1> DEFINE d == [k EXCEPT !.stop = FALSE]
  <1>4. /\ d \in Supervisor /\ ~d.restart /\ d.child = k.child /\ d.status = k.status
        /\ ~d.stop /\ d.expecting = k.expecting
    BY <1>2 DEF Supervisor
  <1> HIDE DEF d
  <1>5. [Killed(s) EXCEPT !.stop = FALSE] = d
    BY <1>3 DEF d
  <1> QED
    BY <1>2, <1>3, <1>4, <1>5

\* Every step keeps the invariant.
LEMMA InvStep == Inv /\ [Next]_vars => Inv'
  <1> SUFFICES ASSUME Inv, [Next]_vars PROVE Inv'
    OBVIOUS
  <1>0. sup \in Supervisor
    BY DEF Inv, TypeOK
  <1> USE DEF Inv, TypeOK, Asked, Due, Allowed, Pending, FilesExclusive, StopIsTimed
  <1>1. CASE Ready
    <2>1. sup' = MadeReady(sup) /\ sup.child = "alive" /\ sup.status = "starting"
      BY <1>1 DEF Ready
    <2> QED
      BY <1>0, <1>1, <2>1, MadeReadyFacts DEF Ready, busy, link
  <1>2. CASE LateReady
    <2>1. sup' = MadeReady(sup)
      BY <1>2 DEF LateReady
    <2>b. late' \in BOOLEAN
      BY <1>2 DEF LateReady
    <2> QED
      BY <2>b, <1>0, <1>2, <2>1, MadeReadyFacts DEF LateReady, busy, link, Settled
  <1>3. CASE Fatal
    <2>1. /\ sup' \in Supervisor
          /\ sup'.child = sup.child /\ sup'.expecting = sup.expecting
          /\ sup'.restart = sup.restart /\ sup'.stop = sup.stop /\ sup'.status = sup.status
      BY <1>0, <1>3 DEF Fatal, Supervisor
    <2> QED
      BY <1>3, <2>1 DEF Fatal, busy, link
  <1>4. CASE Exit
    <2> DEFINE e == Exited(sup)
    <2>0. sup.child = "alive" /\ (sup.expecting \/ sup.fatal \/ sup.crashes < MaxExits)
      BY <1>4 DEF Exit
    <2>1. /\ e \in Supervisor /\ e.child = "none"
          /\ \/ e.status \in Settled /\ e.restart = sup.restart
             \/ ~sup.expecting /\ e.status = "starting" /\ e.restart
      BY <1>0, <2>0, ExitedFacts
    <2>2. ~sup.restart
      BY <2>0
    <2>s. ~e.stop
      BY <1>0 DEF Exited, Supervisor
    <2>w. /\ waiter' \in {"no", "waiting", "deaf", "failed"} /\ waiter' # "waiting"
          /\ ~again' /\ again' \in BOOLEAN /\ ~dying' /\ dying' \in BOOLEAN
          /\ late' \in BOOLEAN
      BY <1>4 DEF Exit
    <2>3. CASE Restarting
      <3>1. sup' \in Launched(e) /\ auto' = want
        BY <1>4, <2>3 DEF Exit
      <3> HIDE DEF e
      <3>2. /\ sup' \in Supervisor /\ sup'.restart = e.restart /\ sup'.stop = e.stop
            /\ sup' = e \/ (~Refused(e) /\ sup'.status = "crashed" /\ sup'.child # "alive")
                       \/ (~Refused(e) /\ sup'.status = "starting" /\ sup'.child = "alive"
                              /\ ~sup'.expecting)
        BY <2>1, <3>1, LaunchedFacts
      <3> QED
        BY <1>4, <2>0, <2>1, <2>2, <2>s, <2>w, <2>3, <3>1, <3>2
           DEF Exit, busy, Restarting, Startable, Refused, Settled
    <2>4. CASE ~Restarting
      <3>1. sup' = e /\ auto' = auto
        BY <1>4, <2>4 DEF Exit
      <3> HIDE DEF e
      <3> QED
        BY <1>4, <2>0, <2>1, <2>2, <2>s, <2>w, <3>1 DEF Exit, busy, Settled
    <2> QED
      BY <2>3, <2>4
  <1>5. CASE RestartTimer
    <2> DEFINE r == [sup EXCEPT !.restart = FALSE]
               u == Unparked(r)
    <2>1. /\ r \in Supervisor /\ ~r.restart /\ r.child = sup.child /\ r.status = sup.status
          /\ r.stop = sup.stop
      BY <1>0 DEF Supervisor
    <2>2. sup' \in Launched(u) /\ sup.restart
      BY <1>5 DEF RestartTimer
    <2> HIDE DEF r
    <2>3. /\ u \in Supervisor /\ ~u.restart /\ u.child = r.child /\ u.stop = r.stop
          /\ u.status \in {"idle", r.status} /\ u.status # "starting"
      BY <2>1 DEF Unparked, Supervisor, Settled
    <2> HIDE DEF u
    <2>4. /\ sup' \in Supervisor /\ sup'.restart = u.restart /\ sup'.stop = u.stop
          /\ sup' = u \/ (~Refused(u) /\ sup'.status = "crashed" /\ sup'.child # "alive")
                     \/ (~Refused(u) /\ sup'.status = "starting" /\ sup'.child = "alive"
                            /\ ~sup'.expecting)
      BY <2>2, <2>3, LaunchedFacts
    <2> QED
      BY <1>5, <2>1, <2>2, <2>3, <2>4 DEF RestartTimer, busy, link, Settled
  <1>6. CASE StopTimer
    <2> DEFINE a == [sup EXCEPT !.stop = FALSE]
               b == [a EXCEPT !.status = "stopped"]
    <2>1. /\ a \in Supervisor /\ ~a.stop /\ a.child = sup.child /\ a.restart = sup.restart
          /\ a.expecting = sup.expecting
      BY <1>0 DEF Supervisor
    <2>2. sup' = [b EXCEPT !.ready = FALSE]
      BY <1>6 DEF StopTimer, a, b
    <2> HIDE DEF a
    <2>3. /\ b \in Supervisor /\ ~b.stop /\ b.child = sup.child /\ b.restart = sup.restart
          /\ b.expecting = sup.expecting /\ b.status = "stopped"
      BY <2>1 DEF Supervisor, Settled
    <2> HIDE DEF b
    <2>4. /\ sup' \in Supervisor /\ ~sup'.stop /\ sup'.child = sup.child
          /\ sup'.restart = sup.restart /\ sup'.expecting = sup.expecting
          /\ sup'.status = "stopped"
      BY <2>2, <2>3 DEF Supervisor
    <2> QED
      BY <1>6, <2>4 DEF StopTimer, busy, link, Settled
  <1>7. CASE WaitTimer
    <2>1. /\ sup' \in Supervisor /\ ~sup'.restart /\ sup'.expecting
          /\ sup'.child = sup.child /\ sup'.status = sup.status /\ sup'.stop = sup.stop
      BY <1>0, <1>7, KilledFacts DEF WaitTimer
    <2>2. dying' \in BOOLEAN /\ (dying' <=> sup.child = "alive") /\ waiter' = "failed"
      BY <1>7 DEF WaitTimer
    <2> QED
      BY <1>7, <2>1, <2>2 DEF WaitTimer, busy
  <1>8. CASE WindowPasses
    <2>1. sup.crashes - 1 \in 0..MaxExits
      BY <1>0, <1>8, ParameterAssumption DEF WindowPasses, Supervisor
    <2>2. /\ sup' \in Supervisor
          /\ sup'.child = sup.child /\ sup'.expecting = sup.expecting
          /\ sup'.restart = sup.restart /\ sup'.stop = sup.stop /\ sup'.status = sup.status
      BY <1>0, <1>8, <2>1 DEF WindowPasses, Supervisor
    <2> QED
      BY <1>8, <2>2 DEF WindowPasses, busy, link
  <1>9. CASE Start
    <2>1. sup' \in Launched(sup)
      BY <1>9 DEF Start
    <2>2. /\ sup' \in Supervisor /\ sup'.restart = sup.restart /\ sup'.stop = sup.stop
          /\ sup' = sup \/ (~Refused(sup) /\ sup'.status = "crashed" /\ sup'.child # "alive")
                       \/ (~Refused(sup) /\ sup'.status = "starting" /\ sup'.child = "alive"
                              /\ ~sup'.expecting)
      BY <1>0, <2>1, LaunchedFacts
    <2>3. ~Refused(sup) => sup.child = "none" /\ ~sup.restart /\ ~sup.stop
      BY DEF Refused, Settled
    <2>4. /\ auto' \in BOOLEAN /\ paused' \in BOOLEAN /\ wanted' \in BOOLEAN
          /\ (wanted => wanted')
          /\ ~Refused(sup) /\ sup'.child = "alive" => wanted'
      BY <1>9 DEF Start
    <2>5. /\ Startable
          /\ UNCHANGED <<want, dying, late, installing, maintenance, again, waiter, room, entry>>
      BY <1>9 DEF Start, busy
    <2>6. CASE sup' = sup
      BY <2>4, <2>5, <2>6
    <2>7. CASE ~Refused(sup) /\ sup'.status = "crashed" /\ sup'.child # "alive"
      BY <2>2, <2>3, <2>4, <2>5, <2>7 DEF Settled, Startable
    <2>8. CASE ~Refused(sup) /\ sup'.status = "starting" /\ sup'.child = "alive" /\ ~sup'.expecting
      BY <2>2, <2>3, <2>4, <2>5, <2>8 DEF Startable
    <2> QED
      BY <2>2, <2>6, <2>7, <2>8
  <1>10. CASE Stop
    <2>1. sup' = Stopped(sup)
      BY <1>10 DEF Stop
    <2>b. again' \in BOOLEAN /\ ~again' /\ wanted' \in BOOLEAN /\ ~wanted'
      BY <1>10 DEF Stop
    <2> QED
      BY <2>b, <1>0, <1>10, <2>1, StoppedFacts DEF Stop, busy, link, Settled, Supervisor
  <1>11. CASE RestartPressed
    <2>1. sup' = Stopped(sup)
      BY <1>11 DEF RestartPressed
    <2> QED
      BY <1>0, <1>11, <2>1, StoppedFacts DEF RestartPressed, Stoppable, busy, link, Settled, Supervisor
  <1>12. CASE SetAutoRestart
    <2>1. sup' = sup \/ sup' = Paused(sup)
      BY <1>12 DEF SetAutoRestart
    <2>2. auto' \in BOOLEAN /\ want' \in BOOLEAN
      BY <1>12 DEF SetAutoRestart
    <2> QED
      BY <1>0, <1>12, <2>1, <2>2, PausedFacts DEF SetAutoRestart, busy, link, Settled
  <1>13. CASE ClearFailure
    <2> DEFINE a == [sup EXCEPT !.status = "idle"]
               b == [a EXCEPT !.crashes = 0]
    <2>1. /\ a \in Supervisor /\ a.status = "idle" /\ a.child = sup.child
          /\ a.restart = sup.restart /\ a.expecting = sup.expecting /\ a.stop = sup.stop
      BY <1>0 DEF Supervisor, Settled
    <2>2. sup' = [b EXCEPT !.fatal = FALSE]
      BY <1>13 DEF ClearFailure, a, b
    <2> HIDE DEF a
    <2>3. /\ b \in Supervisor /\ b.status = "idle" /\ b.child = sup.child
          /\ b.restart = sup.restart /\ b.expecting = sup.expecting /\ b.stop = sup.stop
      BY <2>1, ParameterAssumption DEF Supervisor
    <2> HIDE DEF b
    <2>4. /\ sup' \in Supervisor /\ sup'.status = "idle" /\ sup'.child = sup.child
          /\ sup'.restart = sup.restart /\ sup'.expecting = sup.expecting /\ sup'.stop = sup.stop
      BY <2>2, <2>3 DEF Supervisor
    <2> QED
      BY <1>13, <2>4 DEF ClearFailure, busy, link, Settled
  <1>14. CASE Delete
    <2>1. /\ sup' \in Supervisor /\ ~sup'.restart /\ sup'.expecting /\ ~sup'.stop
          /\ sup'.child = sup.child /\ sup'.status = sup.status
      BY <1>0, <1>14, KilledFacts DEF Delete
    <2>2. /\ entry' \in BOOLEAN /\ waiter' \in {"no", "waiting", "deaf", "failed"} /\ waiter' # "waiting"
      BY <1>14, ParameterAssumption DEF Delete
    <2>3. dying' \in BOOLEAN /\ (sup.child = "alive" => dying')
      BY <1>14 DEF Delete
    <2>4. again' \in BOOLEAN /\ ~again' /\ wanted' \in BOOLEAN /\ ~wanted'
      BY <1>14 DEF Delete
    <2> QED
      BY <1>14, <2>1, <2>2, <2>3, <2>4 DEF Delete, busy
  <1>15. CASE Install
    BY <1>15 DEF Install, Idle, fsm, link, Settled
  <1>16. CASE InstallDone
    <2>1. installing' \in BOOLEAN /\ ~installing' /\ installing
      BY <1>16 DEF InstallDone
    <2> QED
      BY <1>16, <2>1 DEF InstallDone, fsm, link
  <1>17. CASE Maintain
    <2>1. sup' = Paused(sup)
      BY <1>17 DEF Maintain
    <2>b. /\ again' \in BOOLEAN /\ ~again' /\ wanted' \in BOOLEAN /\ ~wanted'
          /\ auto' \in BOOLEAN /\ maintenance' \in BOOLEAN
      BY <1>17 DEF Maintain
    <2> QED
      BY <2>b, <1>0, <1>17, <2>1, PausedFacts DEF Maintain, Idle, link, Settled
  <1>18. CASE MaintenanceDone
    <2>1. maintenance' \in BOOLEAN /\ ~maintenance' /\ maintenance
      BY <1>18 DEF MaintenanceDone
    <2> QED
      BY <1>18, <2>1 DEF MaintenanceDone, fsm, link
  <1>19. CASE RoomGone
    <2>1. sup' = Stopped(sup)
      BY <1>19 DEF RoomGone
    <2>b. /\ again' \in BOOLEAN /\ ~again' /\ wanted' \in BOOLEAN /\ ~wanted'
          /\ auto' \in BOOLEAN /\ paused' \in BOOLEAN
      BY <1>19 DEF RoomGone
    <2> QED
      BY <2>b, <1>0, <1>19, <2>1, StoppedFacts DEF RoomGone, busy, Settled, Supervisor
  <1>20. CASE RoomBack
    BY <1>20 DEF RoomBack, fsm, busy
  <1>21. CASE Detach
    <2>1. sup' = Paused(sup)
      BY <1>21 DEF Detach
    <2>b. /\ again' \in BOOLEAN /\ ~again'
          /\ auto' \in BOOLEAN /\ paused' \in BOOLEAN /\ want' \in BOOLEAN
      BY <1>21 DEF Detach
    <2> QED
      BY <2>b, <1>0, <1>21, <2>1, PausedFacts DEF Detach, busy, Settled
  <1>22. CASE DetachRunning
    <2> DEFINE p == Paused(sup)
    <2>1. /\ p \in Supervisor
          /\ ~p.restart /\ p.child = sup.child /\ p.stop = sup.stop
          /\ p.expecting = sup.expecting
          /\ p.status = sup.status
                \/ (sup.restart /\ sup.child = "none" /\ sup.status = "starting" /\ p.status = "idle")
      BY <1>0, PausedFacts
    <2>2. \/ p.status \in {"running", "starting"} /\ sup' = p
          \/ p.status \notin {"running", "starting"} /\ sup' = Stopped(p)
      BY <1>22 DEF DetachRunning
    <2>3. wanted' \in BOOLEAN /\ paused' \in BOOLEAN /\ (wanted' => wanted)
          /\ (p.status \in {"running", "starting"} => wanted' = wanted)
      BY <1>22 DEF DetachRunning
    <2>u. /\ room' = "none" /\ want' \in BOOLEAN /\ auto' \in BOOLEAN
          /\ again' \in BOOLEAN /\ ~again'
          /\ UNCHANGED <<dying, late, installing, maintenance, waiter, entry>>
      BY <1>22 DEF DetachRunning, busy
    <2> HIDE DEF p
    <2>4. CASE p.status \in {"running", "starting"} /\ sup' = p
      BY <2>1, <2>3, <2>u, <2>4 DEF Settled
    <2>5. CASE p.status \notin {"running", "starting"} /\ sup' = Stopped(p)
      <3>1. /\ Stopped(p) \in Supervisor
            /\ ~Stopped(p).restart /\ Stopped(p).child = p.child
            /\ p.child = "none" /\ p.status # "stopping" => Stopped(p).status # "stopping"
            /\ p.child = "none" => Stopped(p).stop = p.stop
            /\ p.child # "none" =>
                  /\ Stopped(p).status = p.status /\ Stopped(p).stop = p.stop
                  /\ Stopped(p).expecting = p.expecting
        BY <2>1, <2>5, StoppedFacts
      <3> QED
        BY <2>1, <2>3, <2>u, <2>5, <3>1 DEF Settled
    <2> QED
      BY <2>2, <2>4, <2>5
  <1>23. CASE UNCHANGED vars
    BY <1>23 DEF vars
  <1> QED
    BY <1>1, <1>2, <1>3, <1>4, <1>5, <1>6, <1>7, <1>8, <1>9, <1>10, <1>11, <1>12, <1>13,
       <1>14, <1>15, <1>16, <1>17, <1>18, <1>19, <1>20, <1>21, <1>22, <1>23
       DEF Next, Process, Timer, User, Work, Room

-----------------------------------------------------------------------------
(* The theorems *)

\* The invariant holds in every behaviour.
THEOREM InvHolds == Spec => []Inv
  <1> QED
    BY InvInit, InvStep, PTL DEF Spec

\* The variables keep the values the supervisor and the manager give them.
THEOREM TypeCorrect == Spec => []TypeOK
  <1>1. Inv => TypeOK
    BY DEF Inv
  <1> QED
    BY InvHolds, <1>1, PTL

\* Files are installed, saved and restored only while no process uses them and
\* none is about to, whatever the order of installs, backups, crashes and stops.
THEOREM FilesExclusiveCorrect == Spec => []FilesExclusive
  <1>1. Inv => FilesExclusive
    BY DEF Inv
  <1> QED
    BY InvHolds, <1>1, PTL

\* A stop under way always has its kill timer, or a kill already dealt.
THEOREM StopIsTimedCorrect == Spec => []StopIsTimed
  <1>1. Inv => StopIsTimed
    BY DEF Inv
  <1> QED
    BY InvHolds, <1>1, PTL

\* The three steps that call the supervisor's start().
LEMMA Starters ==
    ASSUME Inv, Exit \/ RestartTimer \/ Start
    PROVE  /\ Spawns => ~sup'.expecting
           /\ Stranded' => Stranded
  <1>0. sup \in Supervisor
    BY DEF Inv, TypeOK
  <1>1. CASE Exit
    <2> DEFINE e == Exited(sup)
    <2>1. /\ e \in Supervisor /\ e.child = "none"
          /\ e.status \in Settled \/ e.restart
      BY <1>0, <1>1, ExitedFacts DEF Exit
    <2>2. sup' = e \/ sup' \in Launched(e)
      BY <1>1 DEF Exit
    <2> HIDE DEF e
    <2>3. CASE sup' = e
      BY <2>1, <2>3 DEF Spawns, Stranded, Parked, Settled
    <2>4. CASE sup' \in Launched(e)
      <3>1. /\ sup'.restart = e.restart
            /\ sup' = e \/ (sup'.status = "crashed" /\ sup'.child # "alive")
                       \/ (sup'.status = "starting" /\ sup'.child = "alive" /\ ~sup'.expecting)
        BY <2>1, <2>4, LaunchedFacts
      <3> QED
        BY <2>1, <3>1 DEF Spawns, Stranded, Parked, Settled
    <2> QED
      BY <2>2, <2>3, <2>4
  <1>2. CASE RestartTimer
    <2> DEFINE r == [sup EXCEPT !.restart = FALSE]
               u == Unparked(r)
    <2>1. r \in Supervisor
      BY <1>0 DEF Supervisor
    <2>2. sup' \in Launched(u)
      BY <1>2 DEF RestartTimer
    <2> HIDE DEF r
    <2>3. u \in Supervisor /\ u.status # "starting"
      BY <2>1 DEF Unparked, Supervisor, Settled
    <2> HIDE DEF u
    <2>4. sup' = u \/ (sup'.status = "crashed" /\ sup'.child # "alive")
                  \/ (sup'.status = "starting" /\ sup'.child = "alive" /\ ~sup'.expecting)
      BY <2>2, <2>3, LaunchedFacts
    <2> QED
      BY <2>3, <2>4 DEF Spawns, Stranded, Parked
  <1>3. CASE Start
    <2>1. sup' \in Launched(sup)
      BY <1>3 DEF Start
    <2>2. sup' = sup \/ (sup'.status = "crashed" /\ sup'.child # "alive")
                    \/ (sup'.status = "starting" /\ sup'.child = "alive" /\ ~sup'.expecting)
      BY <1>0, <2>1, LaunchedFacts
    <2> QED
      BY <2>2 DEF Spawns, Stranded, Parked
  <1> QED
    BY <1>1, <1>2, <1>3

\* The other steps neither bring a process up nor, except for a kill, strand a
\* place that is kept for a restart.
LEMMA Others ==
    ASSUME Inv, [Next]_vars, ~(Exit \/ RestartTimer \/ Start)
    PROVE  /\ ~Spawns
           /\ Stranded' => Stranded \/ Delete \/ waiter = "deaf"
  <1>0. sup \in Supervisor
    BY DEF Inv, TypeOK
  <1>1. CASE Ready \/ LateReady
    <2>1. sup' = MadeReady(sup)
      BY <1>1 DEF Ready, LateReady
    <2> QED
      BY <1>0, <2>1, MadeReadyFacts DEF Spawns, Stranded, Parked
  <1>2. CASE Fatal
    <2>1. sup'.child = sup.child /\ sup'.restart = sup.restart /\ sup'.status = sup.status
      BY <1>0, <1>2 DEF Fatal, Supervisor
    <2> QED
      BY <2>1 DEF Spawns, Stranded, Parked
  <1>3. CASE StopTimer
    <2>1. sup'.status = "stopped"
      BY <1>0, <1>3 DEF StopTimer, Supervisor
    <2> QED
      BY <2>1 DEF Spawns, Stranded, Parked
  <1>4. CASE WaitTimer
    <2>1. sup'.child = sup.child /\ sup'.status = sup.status
      BY <1>0, <1>4, KilledFacts DEF WaitTimer
    <2> QED
      BY <1>4, <2>1 DEF WaitTimer, Spawns, Stranded, Parked, Inv, Pending
  <1>5. CASE WindowPasses
    <2>1. sup'.child = sup.child /\ sup'.restart = sup.restart /\ sup'.status = sup.status
      BY <1>0, <1>5 DEF WindowPasses, Supervisor
    <2> QED
      BY <2>1 DEF Spawns, Stranded, Parked
  <1>6. CASE Stop \/ RestartPressed \/ RoomGone
    <2>1. sup' = Stopped(sup)
      BY <1>6 DEF Stop, RestartPressed, RoomGone
    <2> QED
      BY <1>0, <2>1, StoppedFacts DEF Spawns, Stranded, Parked
  <1>7. CASE SetAutoRestart \/ Maintain \/ Detach
    <2>1. sup' = sup \/ sup' = Paused(sup)
      BY <1>7 DEF SetAutoRestart, Maintain, Detach
    <2> QED
      BY <1>0, <2>1, PausedFacts DEF Spawns, Stranded, Parked, Supervisor
  <1>8. CASE ClearFailure
    <2>1. sup'.status = "idle"
      BY <1>0, <1>8 DEF ClearFailure, Supervisor
    <2> QED
      BY <2>1 DEF Spawns, Stranded, Parked
  <1>9. CASE Delete
    <2>1. sup'.child = sup.child /\ sup'.status = sup.status
      BY <1>0, <1>9, KilledFacts DEF Delete
    <2> QED
      BY <1>9, <2>1 DEF Spawns, Stranded, Parked
  <1>10. CASE DetachRunning
    <2> DEFINE p == Paused(sup)
    <2>1. /\ p \in Supervisor /\ ~p.restart /\ p.child = sup.child
          /\ p.status = sup.status \/ p.status = "idle"
          /\ sup.restart /\ sup.child = "none" => p.status # "starting"
      BY <1>0, PausedFacts
    <2>2. sup' = p \/ sup' = Stopped(p)
      BY <1>10 DEF DetachRunning
    <2> HIDE DEF p
    <2>3. CASE sup' = p
      BY <1>0, <2>1, <2>3 DEF Spawns, Stranded, Parked, Supervisor
    <2>4. CASE sup' = Stopped(p)
      BY <2>1, <2>4, StoppedFacts DEF Spawns, Stranded, Parked
    <2> QED
      BY <2>2, <2>3, <2>4
  <1>11. CASE Install \/ InstallDone \/ MaintenanceDone \/ RoomBack \/ UNCHANGED vars
    <2>1. sup' = sup
      BY <1>11 DEF Install, InstallDone, MaintenanceDone, RoomBack, fsm, vars
    <2> QED
      BY <2>1 DEF Spawns, Stranded, Parked
  <1> QED
    BY <1>1, <1>2, <1>3, <1>4, <1>5, <1>6, <1>7, <1>8, <1>9, <1>10, <1>11
       DEF Next, Process, Timer, User, Work, Room

\* A process that comes up is one whose exit nobody expects, so Asked says that
\* the manager wants it and would allow it.
LEMMA SpawnStep == Inv /\ [Next]_vars /\ Inv' /\ Spawns => Allowed'
  <1> SUFFICES ASSUME Inv, [Next]_vars, Inv', Spawns PROVE Allowed'
    OBVIOUS
  <1>1. Exit \/ RestartTimer \/ Start
    BY Others
  <1>2. ~sup'.expecting
    BY <1>1, Starters
  <1>3. sup'.child = "alive"
    BY DEF Spawns
  <1> QED
    BY <1>2, <1>3 DEF Inv, Asked

\* No server comes up against the last decision about it, for any restart budget
\* and whatever the spawns, pipes and files do.
THEOREM NoRevivalCorrect == Spec => NoRevival
  <1>1. Inv /\ [Next]_vars /\ Inv' => [Spawns => wanted']_vars
    BY SpawnStep DEF Allowed
  <1> QED
    BY InvHolds, <1>1, PTL DEF Spec, NoRevival

\* Nor while the manager's own guards would have refused it, although a restart
\* after a crash does not consult them.
THEOREM SpawnsAllowedCorrect == Spec => SpawnsAllowed
  <1>1. Inv /\ [Next]_vars /\ Inv'
        => [Spawns => entry' /\ room' \notin {"away", "left"} /\ ~installing' /\ ~maintenance']_vars
    BY SpawnStep DEF Allowed
  <1> QED
    BY InvHolds, <1>1, PTL DEF Spec, SpawnsAllowed

\* A place kept for a restart is given back by everything that calls the restart
\* off, a deletion and the wait it leaves behind excepted.
THEOREM StrandedByDeletionCorrect == Spec => StrandedByDeletion
  <1>1. Inv /\ [Next]_vars => [Stranded' => Stranded \/ Delete \/ waiter = "deaf"]_vars
    BY Starters, Others
  <1> QED
    BY InvHolds, <1>1, PTL DEF Spec, StrandedByDeletion
=============================================================================
