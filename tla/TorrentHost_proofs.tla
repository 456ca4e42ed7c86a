------------------------ MODULE TorrentHost_proofs ------------------------
(***************************************************************************)
(* Proofs about TorrentHost, for any processes and any callers.            *)
(***************************************************************************)
EXTENDS TorrentHost, FiniteSetTheorems, TLAPS

RpcStates == {Idle, Failed, Answered, AtRestart}
                \cup {AtLatch(h) : h \in Host} \cup {Posted(h) : h \in Host}

\* The values an rpc takes are all in its type.
LEMMA RpcStateFacts ==
    /\ Idle \in RpcStates /\ Failed \in RpcStates /\ Answered \in RpcStates
    /\ AtRestart \in RpcStates
    /\ \A h \in Host : AtLatch(h) \in RpcStates /\ Posted(h) \in RpcStates
    /\ \A t \in Task : Settled(t, Failed) \in RpcStates /\ Settled(t, Answered) \in RpcStates
BY DEF RpcStates, Settled

\* What TypeOK says of rpc, with the set named.
LEMMA RpcType == TypeOK => rpc \in [Task -> RpcStates]
BY DEF TypeOK, RpcStates

\* The initial state is in its types.
LEMMA TypeInit == Init => TypeOK
BY DEF Init, TypeOK, HostOrNone

\* Every step keeps the types.
LEMMA TypeStep == TypeOK /\ [Next]_vars => TypeOK'
<1> SUFFICES ASSUME TypeOK, [Next]_vars PROVE TypeOK'
  OBVIOUS
<1> USE HostAssumption, RpcStateFacts
<1>0. rpc \in [Task -> RpcStates]
  BY RpcType
<1>s. ASSUME NEW h \in Host, Spawn(h)
      PROVE /\ host' \in [Host -> {"gone", "starting", "stated", "ready", "killed"}]
            /\ child' \in HostOrNone /\ latch' \in HostOrNone /\ armed' \in HostOrNone
            /\ open' \subseteq Host /\ abandoned' \subseteq Host
  BY <1>s DEF Spawn, TypeOK, HostOrNone
<1>r. ASSUME NEW t \in Task, Rpc(t)
      PROVE /\ host' \in [Host -> {"gone", "starting", "stated", "ready", "killed"}]
            /\ child' \in HostOrNone /\ latch' \in HostOrNone /\ armed' \in HostOrNone
            /\ open' \subseteq Host /\ abandoned' \subseteq Host
            /\ rpc' \in [Task -> RpcStates]
  <2>1. CASE restart # "no"
    BY <1>r, <2>1 DEF Rpc, TypeOK
  <2>2. CASE restart = "no" /\ latch = None
    BY <1>r, <1>0, <1>s, <2>2 DEF Rpc
  <2>3. CASE restart = "no" /\ latch # None
    <3>1. latch \in Host /\ (child = None \/ child \in Host)
      BY <2>3 DEF TypeOK, HostOrNone
    <3> QED BY <1>r, <2>3, <3>1 DEF Rpc, TypeOK
  <2> QED BY <2>1, <2>2, <2>3
<1>t. ASSUME NEW d \in Task, TearDown(d)
      PROVE /\ host' \in [Host -> {"gone", "starting", "stated", "ready", "killed"}]
            /\ child' \in HostOrNone /\ latch' \in HostOrNone /\ armed' \in HostOrNone
            /\ rpc' \in [Task -> RpcStates]
  BY <1>t DEF TearDown, TypeOK, HostOrNone
<1>k. "restart" \in Task /\ "quit" \in Task /\ Caller \subseteq Task
  BY DEF Task
<1>1. ASSUME NEW t \in Caller, Call(t) PROVE TypeOK'
  BY <1>1, <1>r, <1>k DEF Call, TypeOK, RpcStates
<1>2. ASSUME NEW t \in Task, Answer(t) PROVE TypeOK'
  BY <1>2 DEF Answer, TypeOK, RpcStates
<1>3. ASSUME NEW h \in Host, StateEvent(h) PROVE TypeOK'
  BY <1>3 DEF StateEvent, TypeOK, HostOrNone
<1>4. ASSUME NEW h \in Host, Ready(h) PROVE TypeOK'
  <2>1. child = None \/ child \in Host
    BY DEF TypeOK, HostOrNone
  <2>2. rpc' \in [Task -> RpcStates]
    BY <1>4, <1>0, <2>1 DEF Ready
  <2> QED BY <1>4 DEF Ready, TypeOK, HostOrNone, RpcStates
<1>5. ASSUME NEW h \in Host, Exit(h) PROVE TypeOK'
  <2>1. rpc' \in [Task -> RpcStates]
    BY <1>5, <1>0 DEF Exit
  <2> QED BY <1>5 DEF Exit, TypeOK, HostOrNone, RpcStates
<1>6. ASSUME Restart PROVE TypeOK'
  BY <1>6, <1>r, <1>t, <1>k DEF Restart, TypeOK, RpcStates
<1>7. ASSUME RestartTornDown PROVE TypeOK'
  BY <1>7, <1>t, <1>k DEF RestartTornDown, TypeOK, RpcStates
<1>8. ASSUME RestartSpawns PROVE TypeOK'
  BY <1>8, <1>s DEF RestartSpawns, TypeOK
<1>9. ASSUME RestartTimesOut PROVE TypeOK'
  <2>1. old \in Host
    BY <1>9 DEF RestartTimesOut, Quiet, OldGone, Alive
  <2> QED BY <1>9, <2>1 DEF RestartTimesOut, TypeOK, HostOrNone
<1>10. ASSUME Quit PROVE TypeOK'
  BY <1>10, <1>r, <1>t, <1>k DEF Quit, TypeOK, RpcStates
<1>11. ASSUME QuitTornDown PROVE TypeOK'
  BY <1>11, <1>t, <1>k DEF QuitTornDown, TypeOK, RpcStates
<1>12. CASE UNCHANGED vars
  BY <1>12 DEF vars, TypeOK
<1> QED BY <1>1, <1>2, <1>3, <1>4, <1>5, <1>6, <1>7, <1>8, <1>9, <1>10, <1>11, <1>12
   DEF Next

\* Every variable stays in its type.
THEOREM TypeCorrect == Spec => []TypeOK
BY TypeInit, TypeStep, PTL DEF Spec

-----------------------------------------------------------------------------
(* The inductive invariant *)

\* The readiness latch belongs to the current process, and is armed exactly as
\* long as it is unsettled.
Latched ==
    /\ latch = child
    /\ armed # None => armed = child /\ armed \in open
    /\ child \in open => armed = child

\* A restart's own destroy() runs only in the "destroying" stage, after which
\* there is no process until the new one is spawned.
Staged ==
    /\ rpc["restart"] # Idle => restart = "destroying" /\ rpc["restart"].at # "restart"
    /\ Resuming("restart") => armed = None
    /\ restart = "exiting" => child = None

\* Nothing is posted to a process that is not ready.
PostedReady == \A t \in Task : rpc[t].at = "posted" => child \notin open

\* Every process alive is accounted for: the current one, the one a restart is
\* replacing, or one it gave up on.
Accounted ==
    quit = "no" =>
        /\ \A h \in Alive \ abandoned :
              h = child \/ (restart \in {"destroying", "exiting"} /\ h = old)
        /\ restart = "destroying" /\ child # None => old = child

\* The current process has reported its state before it is ready.
Mirrored ==
    (quit = "no" /\ abandoned = {} /\ child # None /\ host[child] \in {"stated", "ready"})
        => mirror = child

Inv ==
    /\ TypeOK /\ Latched /\ Staged /\ PostedReady
    /\ NoOrphan /\ WaitsAreLive /\ Accounted /\ Mirrored

\* Every step keeps the invariant.
LEMMA InvStep == Inv /\ [Next]_vars => Inv'
<1> SUFFICES ASSUME Inv, [Next]_vars PROVE Inv'
  OBVIOUS
<1>0. TypeOK /\ TypeOK'
  BY TypeStep DEF Inv
<1>k. "restart" \in Task /\ "quit" \in Task /\ Caller \subseteq Task
  BY DEF Task
<1>1. ASSUME NEW t \in Caller, Call(t) PROVE Inv'
  <2>1. Latched'
    BY <1>1 DEF Inv, Latched, Call, Rpc, Spawn
  <2>2. Staged'
    BY <1>1, <1>k, CallerAssumption
       DEF Inv, Staged, Resuming, TypeOK, Call, Rpc, Idle, Failed, Answered
  <2>3. PostedReady'
    BY <1>1, HostAssumption
       DEF Inv, Latched, PostedReady, WaitsAreLive, TypeOK, Call, Rpc, Idle, Failed,
           Answered, AtLatch, AtRestart, Posted
  <2>4. NoOrphan'
    BY <1>1, HostAssumption
       DEF Inv, Latched, NoOrphan, Alive, TypeOK, Call, Rpc, Spawn
  <2>5. WaitsAreLive'
    BY <1>1, HostAssumption
       DEF Inv, Latched, WaitsAreLive, TypeOK, Call, Rpc, Spawn, Idle, Failed,
           Answered, AtLatch, AtRestart, Posted
  <2>6. Accounted'
    BY <1>1, HostAssumption
       DEF Inv, Latched, Accounted, Alive, TypeOK, Call, Rpc, Spawn
  <2>7. Mirrored'
    BY <1>1 DEF Inv, Mirrored, TypeOK, Call, Rpc, Spawn
  <2> QED BY <1>0, <2>1, <2>2, <2>3, <2>4, <2>5, <2>6, <2>7 DEF Inv
<1>2. ASSUME NEW t \in Task, Answer(t) PROVE Inv'
  <2>1. Latched'
    BY <1>2 DEF Inv, Latched, Answer
  <2>2. Staged'
    BY <1>2 DEF Inv, Latched, Staged, PostedReady, Answer, Idle, Answered, Settled
  <2>3. PostedReady'
    BY <1>2 DEF Inv, PostedReady, Answer
  <2>4. NoOrphan'
    BY <1>2 DEF Inv, NoOrphan, Alive, Answer
  <2>5. WaitsAreLive'
    BY <1>2 DEF Inv, WaitsAreLive, Answer, Idle, Answered, Settled
  <2>6. Accounted'
    BY <1>2 DEF Inv, Accounted, Alive, Answer
  <2>7. Mirrored'
    BY <1>2 DEF Inv, Mirrored, Answer
  <2> QED BY <1>0, <2>1, <2>2, <2>3, <2>4, <2>5, <2>6, <2>7 DEF Inv
<1>3. ASSUME NEW h \in Host, StateEvent(h) PROVE Inv'
  <2>1. Latched'
    BY <1>3 DEF Inv, Latched, StateEvent
  <2>2. Staged'
    BY <1>3 DEF Inv, Staged, Resuming, StateEvent
  <2>3. PostedReady'
    BY <1>3 DEF Inv, PostedReady, StateEvent
  <2>4. NoOrphan'
    BY <1>3 DEF Inv, NoOrphan, Alive, StateEvent
  <2>5. WaitsAreLive'
    BY <1>3 DEF Inv, WaitsAreLive, StateEvent
  <2>6. Accounted'
    BY <1>3 DEF Inv, Accounted, Alive, StateEvent
  <2>7. Mirrored'
    BY <1>3 DEF Inv, Staged, Accounted, Mirrored, Alive, StateEvent
  <2> QED BY <1>0, <2>1, <2>2, <2>3, <2>4, <2>5, <2>6, <2>7 DEF Inv
<1>4. ASSUME NEW h \in Host, Ready(h) PROVE Inv'
  <2>1. Latched'
    BY <1>4 DEF Inv, Latched, Ready
  <2>2. Staged'
    BY <1>4, <1>k
       DEF Inv, Staged, Ready, Idle, Failed, AtLatch, AtRestart, Posted, Settled
  <2>3. PostedReady'
    BY <1>4 DEF Inv, Latched, PostedReady, Ready
  <2>4. NoOrphan'
    BY <1>4 DEF Inv, NoOrphan, Alive, Ready
  <2>5. WaitsAreLive'
    BY <1>4
       DEF Inv, WaitsAreLive, TypeOK, Ready, Idle, Failed, Answered, AtLatch,
           AtRestart, Posted, Settled
  <2>6. Accounted'
    BY <1>4 DEF Inv, Accounted, Alive, Ready
  <2>7. Mirrored'
    BY <1>4 DEF Inv, Mirrored, Ready
  <2> QED BY <1>0, <2>1, <2>2, <2>3, <2>4, <2>5, <2>6, <2>7 DEF Inv
<1>5. ASSUME NEW h \in Host, Exit(h) PROVE Inv'
  <2>1. Latched'
    BY <1>5 DEF Inv, Latched, Exit
  <2>2. Staged'
    BY <1>5, <1>k
       DEF Inv, Staged, Resuming, Exit, Idle, Failed, AtLatch, AtRestart, Settled
  <2>3. PostedReady'
    BY <1>5 DEF Inv, PostedReady, Exit, Idle, Failed, Settled
  <2>4. NoOrphan'
    BY <1>5 DEF Inv, NoOrphan, Alive, TypeOK, Exit
  <2>5. WaitsAreLive'
    BY <1>5
       DEF Inv, WaitsAreLive, TypeOK, Exit, Idle, Failed, Answered, AtLatch,
           AtRestart, Posted, Settled
  <2>6. Accounted'
    BY <1>5 DEF Inv, Accounted, Alive, TypeOK, Exit
  <2>7. Mirrored'
    BY <1>5 DEF Inv, Mirrored, Exit
  <2> QED BY <1>0, <2>1, <2>2, <2>3, <2>4, <2>5, <2>6, <2>7 DEF Inv
<1>6. ASSUME Restart PROVE Inv'
  <2>1. Latched'
    BY <1>6 DEF Inv, Latched, Restart, Rpc, TearDown
  <2>2. Staged'
    BY <1>6
       DEF Inv, Staged, Resuming, TypeOK, Restart, Rpc, TearDown, Idle, Failed,
           Answered, AtLatch, Posted
  <2>3. PostedReady'
    BY <1>6 DEF Inv, Latched, PostedReady, TypeOK, Restart, Rpc, TearDown, AtLatch
  <2>4. NoOrphan'
    BY <1>6 DEF Inv, Latched, NoOrphan, Alive, Restart, Rpc, TearDown
  <2>5. WaitsAreLive'
    BY <1>6
       DEF Inv, Latched, WaitsAreLive, TypeOK, Restart, Rpc, TearDown, AtLatch,
           Posted
  <2>6. Accounted'
    BY <1>6 DEF Inv, Latched, Accounted, Alive, Restart, Rpc, TearDown
  <2>7. Mirrored'
    BY <1>6 DEF Inv, Latched, Mirrored, Restart, Rpc, TearDown
  <2> QED BY <1>0, <2>1, <2>2, <2>3, <2>4, <2>5, <2>6, <2>7 DEF Inv
<1>7. ASSUME RestartTornDown PROVE Inv'
  <2>1. Latched'
    BY <1>7 DEF Latched, RestartTornDown, TearDown
  <2>2. Staged'
    BY <1>7, <1>k DEF Staged, RestartTornDown, TearDown
  <2>3. PostedReady'
    BY <1>7 DEF Inv, PostedReady, RestartTornDown, TearDown, Idle, Failed, Settled
  <2>4. NoOrphan'
    BY <1>7 DEF Inv, NoOrphan, Alive, RestartTornDown, TearDown
  <2>5. WaitsAreLive'
    BY <1>7
       DEF Inv, Staged, WaitsAreLive, RestartTornDown, TearDown, Idle, Failed,
           Settled
  <2>6. Accounted'
    BY <1>7
       DEF Inv, Staged, Accounted, Alive, Resuming, RestartTornDown, TearDown, Idle,
           Failed, Answered
  <2>7. Mirrored'
    BY <1>7 DEF Mirrored, RestartTornDown, TearDown
  <2> QED BY <1>0, <2>1, <2>2, <2>3, <2>4, <2>5, <2>6, <2>7 DEF Inv
<1>8. ASSUME RestartSpawns PROVE Inv'
  <2>1. Latched'
    BY <1>8 DEF Inv, Latched, RestartSpawns, Spawn
  <2>2. Staged'
    BY <1>8
       DEF Inv, Staged, Resuming, OldGone, RestartSpawns, Idle, Failed, Answered
  <2>3. PostedReady'
    BY <1>8, HostAssumption
       DEF Inv, Latched, PostedReady, WaitsAreLive, TypeOK, RestartSpawns, Idle,
           Failed, Answered, AtLatch, AtRestart, Posted
  <2>4. NoOrphan'
    BY <1>8, HostAssumption
       DEF Inv, Latched, NoOrphan, Alive, TypeOK, RestartSpawns, Spawn
  <2>5. WaitsAreLive'
    BY <1>8, HostAssumption
       DEF Inv, Latched, Staged, WaitsAreLive, OldGone, TypeOK, RestartSpawns, Idle,
           Failed, Answered, AtLatch, AtRestart, Posted
  <2>6. Accounted'
    BY <1>8, HostAssumption
       DEF Inv, Staged, Accounted, Alive, OldGone, TypeOK, RestartSpawns, Spawn
  <2>7. Mirrored'
    BY <1>8 DEF Inv, Mirrored, TypeOK, RestartSpawns, Spawn
  <2> QED BY <1>0, <2>1, <2>2, <2>3, <2>4, <2>5, <2>6, <2>7 DEF Inv
<1>9. ASSUME RestartTimesOut PROVE Inv'
  <2>1. Latched'
    BY <1>9 DEF Latched, RestartTimesOut
  <2>2. Staged'
    BY <1>9 DEF Inv, Staged, Resuming, RestartTimesOut, Idle, Failed, Answered
  <2>3. PostedReady'
    BY <1>9, HostAssumption
       DEF Inv, Staged, PostedReady, WaitsAreLive, TypeOK, RestartTimesOut, Idle,
           Failed, Answered, AtLatch, AtRestart, Posted
  <2>4. NoOrphan'
    BY <1>9, HostAssumption DEF Inv, Staged, NoOrphan, Alive, RestartTimesOut
  <2>5. WaitsAreLive'
    BY <1>9, HostAssumption
       DEF Inv, Staged, WaitsAreLive, TypeOK, RestartTimesOut, Idle, Failed,
           Answered, AtLatch, AtRestart, Posted
  <2>6. Accounted'
    BY <1>9, HostAssumption DEF Inv, Staged, Accounted, Alive, RestartTimesOut
  <2>7. Mirrored'
    BY <1>9 DEF Mirrored, RestartTimesOut
  <2> QED BY <1>0, <2>1, <2>2, <2>3, <2>4, <2>5, <2>6, <2>7 DEF Inv
<1>10. ASSUME Quit PROVE Inv'
  <2>1. Latched'
    BY <1>10 DEF Inv, Latched, Quit, Rpc, TearDown
  <2>2. Staged'
    BY <1>10, <1>k
       DEF Inv, Staged, Resuming, TypeOK, Quit, Rpc, TearDown, Idle, Failed,
           Answered
  <2>3. PostedReady'
    BY <1>10
       DEF Inv, Latched, PostedReady, TypeOK, Quit, Rpc, TearDown, Idle, AtLatch,
           AtRestart
  <2>4. NoOrphan'
    BY <1>10 DEF Inv, Latched, NoOrphan, Alive, Quit, Rpc, TearDown
  <2>5. WaitsAreLive'
    BY <1>10
       DEF Inv, Latched, WaitsAreLive, TypeOK, Quit, Rpc, TearDown, Idle, AtLatch,
           AtRestart, Posted
  <2>6. Accounted'
    BY <1>10 DEF Accounted, Quit
  <2>7. Mirrored'
    BY <1>10 DEF Mirrored, Quit
  <2> QED BY <1>0, <2>1, <2>2, <2>3, <2>4, <2>5, <2>6, <2>7 DEF Inv
<1>11. ASSUME QuitTornDown PROVE Inv'
  <2>1. Latched'
    BY <1>11 DEF Latched, QuitTornDown, TearDown
  <2>2. Staged'
    BY <1>11, <1>k DEF Inv, Staged, QuitTornDown, TearDown, Idle, Failed, Settled
  <2>3. PostedReady'
    BY <1>11 DEF Inv, PostedReady, QuitTornDown, TearDown, Idle, Failed, Settled
  <2>4. NoOrphan'
    BY <1>11 DEF Inv, NoOrphan, Alive, QuitTornDown, TearDown
  <2>5. WaitsAreLive'
    BY <1>11 DEF Inv, WaitsAreLive, QuitTornDown, TearDown, Idle, Failed, Settled
  <2>6. Accounted'
    BY <1>11 DEF Accounted, QuitTornDown
  <2>7. Mirrored'
    BY <1>11 DEF Mirrored, QuitTornDown
  <2> QED BY <1>0, <2>1, <2>2, <2>3, <2>4, <2>5, <2>6, <2>7 DEF Inv
<1>12. CASE UNCHANGED vars
  BY <1>12, <1>0
     DEF vars, Inv, Latched, Staged, PostedReady, NoOrphan, WaitsAreLive, Accounted,
         Mirrored, Alive, Resuming
<1> QED BY <1>1, <1>2, <1>3, <1>4, <1>5, <1>6, <1>7, <1>8, <1>9, <1>10, <1>11, <1>12
   DEF Next

-----------------------------------------------------------------------------
(* What follows *)

\* At the start there is no process.
LEMMA InvInit == Init => Inv
<1> SUFFICES ASSUME Init PROVE Inv
  OBVIOUS
<1>1. TypeOK
  BY TypeInit
<1>2. rpc["restart"] = Idle /\ \A t \in Task : rpc[t].at = "idle"
  BY DEF Init, Task, Idle
<1>3. Latched /\ Staged /\ PostedReady /\ WaitsAreLive
  BY <1>2
     DEF Init, Latched, Staged, PostedReady, WaitsAreLive, Resuming, Idle, Failed,
              Answered
<1>4. NoOrphan /\ Accounted /\ Mirrored
  BY DEF Init, NoOrphan, Accounted, Mirrored, Alive
<1> QED BY <1>1, <1>3, <1>4 DEF Inv

\* Of the processes nobody gave up on, all that are alive are one and the same.
LEMMA OneAlive == Inv => OneDaemon
<1> SUFFICES ASSUME Inv, quit = "no" PROVE Cardinality(Alive \ abandoned) <= 1
  BY DEF OneDaemon
<1> DEFINE A == Alive \ abandoned
<1>1. PICK h : A \subseteq {h}
  <2>1. Accounted /\ Staged /\ Latched /\ None \notin Host
    BY HostAssumption DEF Inv
  <2>2. CASE child = None
    BY <2>1, <2>2 DEF Accounted, Alive
  <2>3. CASE child # None
    BY <2>1, <2>3 DEF Accounted, Staged
  <2> QED BY <2>2, <2>3
<1>2. A = {} \/ A = {h}
  BY <1>1
<1>3. Cardinality({}) = 0 /\ Cardinality({h}) = 1
  BY FS_EmptySet, FS_Singleton
<1> QED BY <1>2, <1>3

\* The invariant holds in every reachable state.
THEOREM InvCorrect == Spec => []Inv
BY InvInit, InvStep, PTL DEF Spec

\* A process that was not killed is always the current one, whatever the order
\* of exits, restarts and calls.
THEOREM NoOrphanCorrect == Spec => []NoOrphan
<1>1. Inv => NoOrphan
  BY DEF Inv
<1> QED BY <1>1, InvCorrect, PTL

\* No rpc is left waiting for a process, a readiness or a restart that is gone.
THEOREM WaitsAreLiveCorrect == Spec => []WaitsAreLive
<1>1. Inv => WaitsAreLive
  BY DEF Inv
<1> QED BY <1>1, InvCorrect, PTL

\* Two processes are never alive, but for those a restart gave up on.
THEOREM OneDaemonCorrect == Spec => []OneDaemon
BY OneAlive, InvCorrect, PTL

\* A restart that succeeds shows the state of the process it spawned.
THEOREM MirrorFreshCorrect == Spec => MirrorFresh
<1> DEFINE Fresh ==
        (restart = "spawning" /\ restart' = "no" /\ child' # None
            /\ abandoned = {} /\ quit = "no") => mirror' = child'
<1>1. Inv /\ [Next]_vars => Fresh
  <2> SUFFICES ASSUME Inv, [Next]_vars, restart = "spawning", restart' = "no",
                      child' # None, abandoned = {}, quit = "no"
               PROVE  mirror' = child'
    OBVIOUS
  <2>1. PICK h \in Host : Ready(h) \/ Exit(h)
    BY DEF Next, vars, Call, Answer, StateEvent, Restart, RestartTornDown,
           RestartSpawns, OldGone, RestartTimesOut, Quit, QuitTornDown
  <2>2. Ready(h)
    BY <2>1 DEF Exit
  <2>3. host[h] = "stated" /\ child' = child /\ mirror' = mirror
    BY <2>2 DEF Ready
  <2>4. child = h
    BY <2>3 DEF Inv, NoOrphan, Alive
  <2> QED BY <2>3, <2>4 DEF Inv, Mirrored
<1>2. Inv /\ [Next]_vars => [Fresh]_vars
  BY <1>1
<1> QED BY <1>2, InvCorrect, PTL DEF Spec, MirrorFresh
=============================================================================
