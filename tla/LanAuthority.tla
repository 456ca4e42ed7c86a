---------------------------- MODULE LanAuthority ----------------------------
(***************************************************************************)
(* Who may take part in a virtual-LAN session, across restarts.            *)
(*                                                                         *)
(* The host signs `lan-genesis`, `lan-admit` and `lan-evict`; every        *)
(* install folds them into a LanSessionCore.  A session id is reused from  *)
(* one evening to the next (so that addresses stay the same), and a        *)
(* persisted watermark, the highest grant ever applied, is what keeps the  *)
(* grants of an earlier evening from being applied again.                  *)
(*                                                                         *)
(* Each install has three copies of that watermark: the core's own floor,  *)
(* the engine window's room.lanSession/lanFloor, and the main process's    *)
(* LanRoomPrefs on disk, which learns of it through asynchronous messages. *)
(*                                                                         *)
(* Grants carry the host's clock.  Only their order matters, so `at` is a  *)
(* small number: nextAt() takes either the value after the last one the    *)
(* session used (the wall clock is behind it) or a value above everything  *)
(* ever issued (the wall clock is right).                                  *)
(***************************************************************************)
EXTENDS Integers, FiniteSets, Sequences

CONSTANTS
    Member,      \* the members of one room
    Host,        \* the one that creates LAN sessions
    Install,     \* the members whose install is followed; joiners send no
                 \* grants, so the state of one does not affect another
    MaxSid,      \* bound: session ids the host may mint
    MaxAt,       \* bound: clock values of grants
    Crash        \* whether an install may die at any moment, or ends only when
                 \* no floor report and no eviction is under way

ASSUME MemberAssumption == IsFiniteSet(Member) /\ Install \subseteq Member /\ Host \in Install
ASSUME BoundAssumption ==
    MaxSid \in Nat \ {0} /\ MaxAt \in Nat /\ Crash \in BOOLEAN

VARIABLES
    core,    \* core[m]: the LanSession of m and its LanSessionCore
    room,    \* room[m]: the engine window's lanSession and lanFloor
    disk,    \* disk[m]: LanRoomPrefs.session in the main process's store
    ipc,     \* ipc[m]: 'room-lan-floor' messages from the engine to main
    call,    \* call[m]: the main-process operation awaiting the engine
    net,     \* every signed message ever broadcast; any may arrive at any time
    minted,  \* how many session ids the host has minted
    issued,  \* history: the highest clock value of any grant the host signed
    top,     \* history: top[m][s], the highest grant of s that m ever applied
    gone,    \* history: the sessions in which the host evicted somebody
    bar      \* history: the highest grant of its session when the host last opened one

vars == <<core, room, disk, ipc, call, net, minted, issued, top, gone, bar>>

-----------------------------------------------------------------------------
(* Values *)

Sid == 1..MaxSid
At  == 1..MaxAt

NoSession == [sid |-> 0, floor |-> 0]
Remembered == [sid : 0..MaxSid, floor : 0..MaxAt]

Grant == [kind : {"admit", "evict"}, sid : Sid, who : Member, at : At]
Genesis == [kind : {"genesis"}, sid : Sid]

Core == [sid : 0..MaxSid, isHost : BOOLEAN, active : BOOLEAN, pinned : BOOLEAN,
         admitted : SUBSET Member, evicted : SUBSET Member,
         admitAt : [Member -> 0..MaxAt], evictAt : [Member -> 0..MaxAt],
         seed : 0..MaxAt, floor : 0..MaxAt, lastAt : 0..MaxAt]

\* The value of room.lan when there is no session object.
NoCore == [sid |-> 0, isHost |-> FALSE, active |-> FALSE, pinned |-> FALSE,
           admitted |-> {}, evicted |-> {},
           admitAt |-> [t \in Member |-> 0], evictAt |-> [t \in Member |-> 0],
           seed |-> 0, floor |-> 0, lastAt |-> 0]

Higher(a, b) == IF a >= b THEN a ELSE b

TypeOK ==
    /\ core \in [Install -> Core]
    /\ room \in [Install -> Remembered]
    /\ disk \in [Install -> Remembered]
    /\ ipc \in [Install -> Seq([sid : Sid, at : At])]
    /\ call \in [Install -> [op : {"none", "dial", "reply", "evict"}, sid : 0..MaxSid]]
    /\ net \subseteq Grant \cup Genesis
    /\ minted \in 0..MaxSid
    /\ issued \in 0..MaxAt
    /\ top \in [Install -> [Sid -> 0..MaxAt]]
    /\ gone \subseteq Sid
    /\ bar \in 0..MaxAt

-----------------------------------------------------------------------------
(* LanSessionCore: the decision to apply a grant, and its effect *)

\* Mutant: the per-member floors of a new core ignore the seed.
NewCoreUnseeded(s, host, r) ==
    LET seed == IF r.sid = s THEN r.floor ELSE 0
    IN  [NoCore EXCEPT !.sid = s, !.isHost = host,
                       !.seed = seed, !.floor = seed, !.lastAt = seed]

\* createLanSession, where r is what the engine remembers: the watermark seeds
\* a core only for that very session.  A member without a floor of its own is
\* compared with the seed, so the per-member floors start at it.
NewCore(s, host, r) ==
    LET seed == IF r.sid = s THEN r.floor ELSE 0
    IN  [NoCore EXCEPT !.sid = s, !.isHost = host,
                       !.admitAt = [t \in Member |-> seed],
                       !.evictAt = [t \in Member |-> seed],
                       !.seed = seed, !.floor = seed, !.lastAt = seed]

\* Mutant: an evicted member may be admitted again.
CanAdmitEvicted(c, s, t, at) ==
    /\ c.sid = s
    /\ c.pinned
    /\ at > c.admitAt[t]

CanAdmit(c, s, t, at) ==
    /\ c.sid = s
    /\ c.pinned
    /\ t \notin c.evicted
    /\ at > c.admitAt[t]

\* Mutant: the member's own floor stays where it was.
AdmittingFloorless(c, t, at) ==
    [c EXCEPT !.admitted = @ \cup {t}, !.floor = Higher(@, at)]

Admitting(c, t, at) ==
    [c EXCEPT !.admitted = @ \cup {t}, !.admitAt[t] = at, !.floor = Higher(@, at)]

CanEvict(c, s, t, at) ==
    /\ c.sid = s
    /\ c.pinned
    /\ at > c.evictAt[t]

\* Mutant: the watermark is one too high.
EvictingOneOff(c, t, at) ==
    [c EXCEPT !.admitted = @ \ {t}, !.evicted = @ \cup {t},
              !.evictAt[t] = at, !.floor = Higher(@, at + 1)]

Evicting(c, t, at) ==
    [c EXCEPT !.admitted = @ \ {t}, !.evicted = @ \cup {t},
              !.evictAt[t] = at, !.floor = Higher(@, at)]

\* maybePersistFloor and the adapter's persistFloor: when a grant took the floor
\* of a session to n, the engine adopts or raises its own copy and tells main.
NotedFloor(r, s, n) ==
    IF r.sid = 0 THEN [sid |-> s, floor |-> n]
    ELSE IF r.sid = s /\ n > r.floor THEN [r EXCEPT !.floor = n] ELSE r

\* The core `before` has become c at m: the session keeps the last floor it
\* handed out, which for a new one is its seed.
Report(m, before, c) ==
    /\ core' = [core EXCEPT ![m] = c]
    /\ IF c.floor > before.floor
       THEN /\ room' = [room EXCEPT ![m] = NotedFloor(@, c.sid, c.floor)]
            /\ ipc' = [ipc EXCEPT ![m] = Append(@, [sid |-> c.sid, at |-> c.floor])]
       ELSE UNCHANGED <<room, ipc>>

\* History: m applied grants of s up to n.
Learnt(m, s, n) == top' = [top EXCEPT ![m][s] = Higher(@, n)]

-----------------------------------------------------------------------------
(* Starting and stopping a session *)

\* Main puts the watermark it read from disk into the start request; the engine
\* adopts the session and never lowers a floor it has already passed.
DiskFloor(m, s) == IF disk[m].sid = s THEN disk[m].floor ELSE 0

\* Mutant: main's floor replaces the engine's, which may be further.
AdoptedFromDisk(m, s) == [sid |-> s, floor |-> DiskFloor(m, s)]

Adopted(m, s) ==
    LET floor == IF room[m].sid = s THEN room[m].floor ELSE 0
    IN  [sid |-> s, floor |-> Higher(floor, DiskFloor(m, s))]

\* The remembered session if there is one (the host created it), else a new id.
HostSid == IF disk[Host].sid # 0 THEN disk[Host].sid ELSE minted + 1

\* RoomManager.lanStart at the host, up to the engine dialling the helper's
\* pipe: a fresh core replaces whatever was there.
HostOpen ==
    /\ call[Host].op = "none"
    /\ HostSid \in Sid
    /\ minted' = Higher(minted, HostSid)
    /\ room' = [room EXCEPT ![Host] = Adopted(Host, HostSid)]
    /\ core' = [core EXCEPT ![Host] =
                    NewCore(HostSid, TRUE, Adopted(Host, HostSid))]
    /\ call' = [call EXCEPT ![Host] = [op |-> "dial", sid |-> HostSid]]
    /\ bar' = top[Host][HostSid]
    /\ UNCHANGED <<disk, ipc, net, issued, top, gone>>

\* RoomManager.lanAccept at a joiner the host has admitted, up to the dialling:
\* the passive core built from gossip is reused as it is.
JoinerOpen(m) ==
    LET s == core[m].sid
    IN  /\ call[m].op = "none"
        /\ s # 0 /\ ~core[m].isHost
        /\ core[m].pinned /\ m \in core[m].admitted
        /\ room' = [room EXCEPT ![m] = Adopted(m, s)]
        /\ call' = [call EXCEPT ![m] = [op |-> "dial", sid |-> s]]
        /\ UNCHANGED <<core, disk, ipc, net, minted, issued, top, gone, bar>>

\* Clock values nextAt() gives, one after the other, to the members of T.  (The
\* values it gives to genesis and presence in between are left out.)
Times(base, T) ==
    {f \in [T -> (base + 1)..(base + Cardinality(T))] :
        \A t, u \in T : t # u => f[t] # f[u]}

Bases(c) == {c.lastAt, Higher(c.lastAt, issued)}

\* The host signs an admit for every member of T in one synchronous pass.  Each
\* is applied to its own core first and is broadcast only if that succeeded; of
\* the floor reports of one pass only the last, the highest, is kept.
\* c is the core before the pass; `extra` are messages broadcast with it.
SignAdmits(c, T, extra) ==
    \E base \in Bases(c) :
      /\ base + Cardinality(T) <= MaxAt
      /\ \E f \in Times(base, T), n \in 0..MaxAt :
          LET ok == {t \in T : CanAdmit(c, c.sid, t, f[t])}
          IN  /\ n \in {c.floor} \cup {f[t] : t \in ok}
              /\ \A k \in {c.floor} \cup {f[t] : t \in ok} : k <= n
              /\ Report(Host, c, [c EXCEPT
                     !.admitted = @ \cup ok,
                     !.admitAt = [t \in Member |-> IF t \in ok THEN f[t] ELSE @[t]],
                     !.floor = n, !.lastAt = base + Cardinality(T)])
              /\ net' = net \cup extra \cup
                     {[kind |-> "admit", sid |-> c.sid, who |-> t, at |-> f[t]] : t \in ok}
              /\ IF ok = {} THEN UNCHANGED <<issued, top>>
                 ELSE issued' = Higher(issued, n) /\ Learnt(Host, c.sid, n)

GenesisOf(s) == [kind |-> "genesis", sid |-> s]

\* The dial at the host succeeds while its core is still the one it opened:
\* startAsHost pins the host, admits it and the picks, and goes active.
HostConnected(picks) ==
    LET c == core[Host]
    IN  /\ call[Host].op = "dial" /\ c.sid = call[Host].sid /\ c.isHost
        /\ SignAdmits([c EXCEPT !.active = TRUE, !.pinned = TRUE],
                      {Host} \cup picks, {GenesisOf(c.sid)})
        /\ call' = [call EXCEPT ![Host].op = "reply"]
        /\ UNCHANGED <<disk, minted, gone, bar>>

\* The dial at a joiner succeeds: LanSession.start.
JoinerConnected(m) ==
    /\ call[m].op = "dial" /\ core[m].sid = call[m].sid /\ ~core[m].isHost
    /\ core' = [core EXCEPT ![m].active = TRUE]
    /\ call' = [call EXCEPT ![m].op = "reply"]
    /\ UNCHANGED <<room, disk, ipc, net, minted, issued, top, gone, bar>>

\* The dial fails, or the session it was for has been replaced: the engine tears
\* down what it has, unless that is already the replacement, and main forgets the
\* request.
DialFails(m) ==
    /\ call[m].op = "dial"
    /\ \E c \in {NoCore} \cup {d \in {core[m]} : d.sid # call[m].sid} :
          core' = [core EXCEPT ![m] = c]
    /\ call' = [call EXCEPT ![m] = [op |-> "none", sid |-> 0]]
    /\ UNCHANGED <<room, disk, ipc, net, minted, issued, top, gone, bar>>

\* The engine has answered and main remembers the session (withSession): the
\* same id keeps its floor, another one starts at 0.  The floor reports the
\* engine sent before its answer have been handled by then.
StartReplied(m) ==
    /\ call[m].op = "reply" /\ ipc[m] = <<>>
    /\ disk' = [disk EXCEPT ![m] =
                    IF @.sid = call[m].sid THEN @ ELSE [sid |-> call[m].sid, floor |-> 0]]
    /\ call' = [call EXCEPT ![m] = [op |-> "none", sid |-> 0]]
    /\ UNCHANGED <<core, room, ipc, net, minted, issued, top, gone, bar>>

\* lanStop, or the VPN kill-switch: teardownLan.
Stop(m) ==
    /\ core[m].active
    /\ core' = [core EXCEPT ![m] = NoCore]
    /\ UNCHANGED <<room, disk, ipc, call, net, minted, issued, top, gone, bar>>

\* The helper's pipe closes: LanSession.suspend stops routing and keeps the core.
HelperLost(m) ==
    /\ core[m].active
    /\ core' = [core EXCEPT ![m].active = FALSE]
    /\ UNCHANGED <<room, disk, ipc, call, net, minted, issued, top, gone, bar>>

-----------------------------------------------------------------------------
(* The host's controls *)

\* lanInvite: hostAdmit of one more member.  (Before startAsHost the core refuses
\* it; the tick of the clock that it costs is left out.)
Invite(t) ==
    /\ core[Host].isHost /\ core[Host].pinned /\ t \notin core[Host].admitted
    /\ SignAdmits(core[Host], {t}, {})
    /\ UNCHANGED <<disk, call, minted, gone, bar>>

\* lanEvict, the engine's part: hostEvict.  (The control is offered for admitted
\* members of a running session; a request that finds none is left out.)
Evict(t) ==
    LET c == core[Host]
    IN  /\ call[Host].op = "none" /\ c.isHost /\ t \in c.admitted
        /\ \E base \in Bases(c) :
             LET at == base + 1
             IN  /\ at <= MaxAt
                 /\ CanEvict(c, c.sid, t, at)
                 /\ Report(Host, c, [Evicting(c, t, at) EXCEPT !.lastAt = at])
                 /\ net' = net \cup {[kind |-> "evict", sid |-> c.sid, who |-> t, at |-> at]}
                 /\ issued' = Higher(issued, at)
                 /\ Learnt(Host, c.sid, at)
        /\ gone' = gone \cup {c.sid}
        /\ call' = [call EXCEPT ![Host] = [op |-> "evict", sid |-> c.sid]]
        /\ UNCHANGED <<disk, minted, bar>>

\* lanEvict, main's part once the engine answered: rotateSession forgets the id.
\* The reports sent before the answer have been handled.
EvictReplied ==
    /\ call[Host].op = "evict" /\ ipc[Host] = <<>>
    /\ disk' = [disk EXCEPT ![Host] = NoSession]
    /\ call' = [call EXCEPT ![Host] = [op |-> "none", sid |-> 0]]
    /\ UNCHANGED <<core, room, ipc, net, minted, issued, top, gone, bar>>

\* rebroadcastAuthority, on every presence claim, hello and rekey: genesis
\* again, and a fresh admit for every member who is still admitted.
Remint ==
    LET c == core[Host]
    IN  /\ c.isHost /\ c.active
        /\ SignAdmits(c, c.admitted, {GenesisOf(c.sid)})
        /\ UNCHANGED <<disk, call, minted, gone, bar>>

-----------------------------------------------------------------------------
(* Gossip.  Nothing is ever removed from net: a frame may be lost, delayed, *)
(* reordered, relayed twice or broadcast again by any member.               *)

\* ensureLanSession: genesis and admit create a passive core, and one of
\* another session replaces the core that was there.
Ensured(m, s) ==
    IF core[m].sid = s THEN core[m] ELSE NewCore(s, FALSE, room[m])

OnGenesis(m, g) ==
    /\ g.kind = "genesis"
    /\ core' = [core EXCEPT ![m] = [Ensured(m, g.sid) EXCEPT !.pinned = TRUE]]
    /\ UNCHANGED <<room, disk, ipc, call, net, minted, issued, top, gone, bar>>

OnAdmit(m, g) ==
    LET c == Ensured(m, g.sid)
    IN  /\ g.kind = "admit"
        /\ CanAdmit(c, g.sid, g.who, g.at)
        /\ Report(m, c, Admitting(c, g.who, g.at))
        /\ Learnt(m, g.sid, g.at)
        /\ UNCHANGED <<disk, call, net, minted, issued, gone, bar>>

\* An admit the core refuses may still have created the passive core.
OnAdmitRefused(m, g) ==
    /\ g.kind = "admit" /\ core[m].sid # g.sid
    /\ ~CanAdmit(Ensured(m, g.sid), g.sid, g.who, g.at)
    /\ core' = [core EXCEPT ![m] = Ensured(m, g.sid)]
    /\ UNCHANGED <<room, disk, ipc, call, net, minted, issued, top, gone, bar>>

\* An evict never creates a session; one that names us stops it.
OnEvict(m, g) ==
    /\ g.kind = "evict"
    /\ CanEvict(core[m], g.sid, g.who, g.at)
    /\ Report(m, core[m],
              [Evicting(core[m], g.who, g.at) EXCEPT !.active = @ /\ g.who # m])
    /\ Learnt(m, g.sid, g.at)
    /\ UNCHANGED <<disk, call, net, minted, issued, gone, bar>>

\* A member left the room or was rekeyed out of it: onMemberGone forgets its
\* admission and keeps the floors.
MemberGone(m, t) ==
    /\ t # m /\ t \in core[m].admitted
    /\ core' = [core EXCEPT ![m].admitted = @ \ {t}]
    /\ UNCHANGED <<room, disk, ipc, call, net, minted, issued, top, gone, bar>>

-----------------------------------------------------------------------------
(* The main process, and the end of a process *)

\* 'room-lan-floor' arrives: noteSessionFloor adopts, raises or ignores.
MainNotes(m) ==
    /\ ipc[m] # <<>>
    /\ disk' = [disk EXCEPT ![m] = NotedFloor(@, Head(ipc[m]).sid, Head(ipc[m]).at)]
    /\ ipc' = [ipc EXCEPT ![m] = Tail(@)]
    /\ UNCHANGED <<core, room, call, net, minted, issued, top, gone, bar>>

\* The application ends and starts again: the room is joined with what the
\* store remembers.  Floor reports in flight, and an eviction the main process has
\* not recorded yet, die with a crash.
Restart(m) ==
    /\ Crash \/ (ipc[m] = <<>> /\ call[m].op # "evict")
    /\ core' = [core EXCEPT ![m] = NoCore]
    /\ room' = [room EXCEPT ![m] = disk[m]]
    /\ ipc' = [ipc EXCEPT ![m] = <<>>]
    /\ call' = [call EXCEPT ![m] = [op |-> "none", sid |-> 0]]
    /\ UNCHANGED <<disk, net, minted, issued, top, gone, bar>>

-----------------------------------------------------------------------------
Init ==
    /\ core = [m \in Install |-> NoCore]
    /\ room = [m \in Install |-> NoSession]
    /\ disk = [m \in Install |-> NoSession]
    /\ ipc = [m \in Install |-> <<>>]
    /\ call = [m \in Install |-> [op |-> "none", sid |-> 0]]
    /\ net = {}
    /\ minted = 0
    /\ issued = 0
    /\ top = [m \in Install |-> [s \in Sid |-> 0]]
    /\ gone = {}
    /\ bar = 0

HostNext ==
    \/ HostOpen
    \/ \E picks \in SUBSET (Member \ {Host}) : HostConnected(picks)
    \/ \E t \in Member \ {Host} : Invite(t) \/ Evict(t)
    \/ EvictReplied
    \/ Remint

MemberNext(m) ==
    \/ JoinerOpen(m)
    \/ JoinerConnected(m)
    \/ DialFails(m)
    \/ StartReplied(m)
    \/ Stop(m)
    \/ HelperLost(m)
    \/ MainNotes(m)
    \/ Restart(m)
    \/ \E t \in Member : MemberGone(m, t)

Gossip(m, g) ==
    \/ OnGenesis(m, g)
    \/ OnAdmit(m, g)
    \/ OnAdmitRefused(m, g)
    \/ OnEvict(m, g)

Next ==
    \/ HostNext
    \/ \E m \in Install : MemberNext(m)
    \/ \E m \in Install, g \in net : Gossip(m, g)

Spec == Init /\ [][Next]_vars

-----------------------------------------------------------------------------
(* Properties *)

\* A member takes part in a session at an install only on the strength of an
\* admit the host signed for that very session (the sessionId gate and the
\* pinned host of applyAdmit).
Authorised ==
    \A m \in Install : \A t \in Member :
        t \in core[m].admitted =>
            [kind |-> "admit", sid |-> core[m].sid, who |-> t, at |-> core[m].admitAt[t]]
                \in net

\* A core is made at m in this step: another session replaces the one m tracks,
\* or the host opens one.
Created(m) ==
    \/ core'[m].sid \notin {0, core[m].sid}
    \/ m = Host /\ call[m].op = "none" /\ call'[m].op = "dial" /\ core'[m].isHost

\* Eviction is terminal: as long as an install keeps its core, no grant brings
\* an evicted member back, whatever the order and age of what arrives.
EvictionTerminal ==
    [][\A m \in Install : \A t \in core[m].evicted :
          Created(m) \/ t \notin core'[m].admitted]_vars

\* The watermark does its work: a core of the session an install remembers
\* starts above every grant that install ever applied in it, so that none of
\* them is applied a second time.  (A session with an eviction is not meant to
\* have a second run at the host; see EvictionRotates.)
SeedCoversHistory ==
    [][\A m \in Install : \A s \in Sid :
          (Created(m) /\ core'[m].sid = s /\ disk[m].sid = s /\ ~(m = Host /\ s \in gone))
              => core'[m].seed >= top[m][s]]_vars

\* Whoever the host's own core admits was picked or invited in this run of the
\* session: no grant of an earlier evening re-enters at the host.
HostAdmitsThisRun ==
    (core[Host].isHost /\ core[Host].sid \notin gone) =>
        \A t \in core[Host].admitted : core[Host].admitAt[t] > bar

\* What shared/lan-prefs.ts says of the remembered floor: it is the highest grant
\* any run of this session has applied, once every report has been handled.  (The
\* host forgets the floor of a session on purpose when it evicts.)
FloorIsHighest ==
    \A m \in Install : \A s \in Sid :
        (disk[m].sid = s /\ ipc[m] = <<>> /\ call[m].op = "none"
            /\ ~(m = Host /\ s \in gone))
            => disk[m].floor >= top[m][s]

\* What shared/lan-prefs.ts says of eviction: the host never re-enters a
\* session in which it evicted somebody.
EvictionRotates == [][HostOpen => HostSid \notin gone]_vars
=============================================================================
