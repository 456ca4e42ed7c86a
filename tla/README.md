# Havvn in TLA+

Havvn is an Electron application: a BitTorrent client with friend rooms on top
(chat, shared files, voice, watching together, a virtual LAN, hosted game
servers). This directory holds TLA+ models of the parts whose correctness
depends on the order in which things happen, the configurations that check them
with TLC, and proofs of the main invariants that TLAPS checks.

`PROJECT.json` says which definition models which lines, which run checks which
property, what bug each property would catch (`mutants`) and which hazards of
the code the properties are for.

## 1. The system

### Processes

| process | code | talks to |
| --- | --- | --- |
| main | `src/electron/main.ts`, `ipc/`, `sharing/room-manager.ts`, `gameserver/`, `db/` | everything, by IPC |
| engine window (hidden renderer) | `sharing/room-engine.ts`, `room-lan.ts`, `room-voice.ts` | main by IPC, other installs by WebRTC |
| torrent host (utility process) | `torrent/host/`, `torrent/manager.ts`, `torrent/native/` | main by messages, `transmission-daemon` by RPC |
| LAN helper (elevated, Windows) | `lan/helper-main.ts` | the engine window by named pipe |
| game servers (child processes) | `gameserver/supervisor.ts` | main by stdin and stdout |
| user interface (renderer) | `src/renderer` | main by IPC |
| guest page (browser) | `src/guest` | engine window by WebRTC |

Each is one JavaScript thread, so a handler up to its next `await` is atomic.
What interleaves are the processes, the timers, the continuations after an
`await`, and what other installs send.

### Components

For each: its state; its operations; whom it works with; what is hard; what
makes it correct.

**LAN session authority** (`shared/lan-session-core.ts`, `shared/lan-prefs.ts`,
with the callers in `room-engine.ts`, `room-lan.ts`, `room-manager.ts`).
State: who is admitted and evicted, per-member anti-replay floors, the session's
watermark, kept in the core, in the engine window and on disk. Operations: open,
accept, invite, evict, re-mint, stop, and the handlers of `lan-genesis`,
`lan-admit`, `lan-evict`. Grants are gossip: lost, repeated, reordered, replayed
evenings later. The three copies of the watermark are updated by asynchronous
messages, and any process may die between two of them. Correct when nobody takes
part without a grant for that session, an evicted member does not come back, and
a grant of an earlier evening is not applied again.

**Torrent host lifecycle** (`torrent/host/manager-proxy.ts`). State: the current
process, a readiness promise, the calls in flight, a restart in progress, the
mirrored state. Operations: every engine call, restart (VPN guard), teardown at
quit; events: ready, state, answer, exit. Hard: an exit event arrives late, the
process dies before it is ready, a restart overlaps with calls and with a quit.
Correct when at most one daemon uses the configuration directory, no process is
forgotten, and every call is settled.

**Game servers** (`gameserver/supervisor.ts`, `server-manager.ts`,
`shared/gameserver-core.ts`). State: a state machine per instance, its child
process, a restart timer, a kill timer, installations, maintenance, a latch for
rooms that went away. Operations: start, stop, restart, install, back up,
update, delete, detach. Hard: timers and exit listeners that were armed before
something else was decided; the supervisor restarts itself without asking the
manager. Correct when a server that was told to be down stays down, files are
touched only while no process uses them, and every stop ends.

**Rooms** (`sharing/room-engine.ts`, `shared/room-authority.ts`,
`shared/room-bans.ts`, `shared/room-owner-pin.ts`). State: members and their keys,
shared files with tombstones, removal proofs and revivals, the owner, the chain
of handovers and the pin, the list of removed members, chat, peers. Operations:
about sixty signed message kinds. Hard: gossip in any order, handovers and
rotations of the code that overtake each other, reconnection, restarts, clocks
that disagree. Correct when ownership has one holder and only moves forward, a
handover and a removal of a member reach everybody, a removed file comes back
only by right, and a revived one is not removed again by an old removal.

**LAN transport** (`sharing/room-lan.ts`, `shared/lan-vip.ts`,
`shared/lan-relay.ts`). State: a WebRTC leg per member with a rebuild budget, an
address claimed per member, relay adverts. Hard: both ends rebuild at once,
late signals of an old leg, address conflicts. Correct when legs converge or are
given up on, and two admitted members do not keep one address.

**Voice links** (`shared/room-voice-recovery.ts`, `sharing/room-voice.ts`,
`guest/voice.ts`). State: link state, retry budget, two timers. Hard: connection
events racing the timers. Correct when a link is never left without a timer
while it is neither connected nor given up on, and the budget holds.

**Watch together** (`shared/room-watch-sync.ts`, `shared/room-playback.ts`).
State: sender epoch and sequence, receiver floor. Correct when an older command
never overrides a newer one, and a host that restarted is followed again.

**Room manifest transfer** (`shared/room-manifest-sync.ts`). State: pages of a
snapshot in assembly. Correct when what is assembled is one snapshot.

**Room manager** (`sharing/room-manager.ts`). Main's side of rooms: stores
preferences, forwards requests, starts the engine window.

**Guards** (`utils/vpn-guard.ts`, `utils/disk-guard.ts`). Poll an interface or a
volume and pause torrents; the VPN guard may restart the engine.

**Torrent engines, store, services, shell, user interface, LAN helper**: see the
components of `PROJECT.json`; not modelled, for the reasons given there.

## 2. The modules

| module | models | checked by | proved in |
| --- | --- | --- | --- |
| `LanAuthority` | LAN session authority over evenings and restarts | `lan`, `lan_rotate`, `lan_floor`, `lan_crash` | `LanAuthority_proofs`, `LanFloors_proofs` |
| `TorrentHost` | the torrent host as its proxy manages it | `host` | `TorrentHost_proofs` |
| `GameServer` | one game-server instance | `server`, `server_late`, `server_unborn` | `GameServer_proofs` |
| `LanLeg` | the WebRTC leg of two members of a virtual LAN, both ends | `leg`, `leg_passive` | `LanLeg_proofs` |
| `OwnerLine` | what a room promises about its owner (abstract) | `owner`, as a property | `OwnerLine_proofs` |
| `RoomOwner` | handovers, removals of members and the rotation of the code | `owner` | `RoomOwner_proofs` |
| `RoomFiles` | sharing, removing and reviving one file of a room | `files` | `RoomFiles_proofs` |

`MC*` modules only give the constants values.

### LanAuthority

`core[m]` is `room.lan` of the install `m` with its `LanSessionCore`; `room[m]`
the engine window's `lanSession` and `lanFloor`; `disk[m]`
`LanRoomPrefs.session`; `ipc[m]` the `room-lan-floor` messages between the two
processes; `call[m]` the main-process operation that awaits the engine; `net`
every signed message ever broadcast. Nothing leaves `net`, so loss, delay,
repetition, reordering and replay are all behaviours.

One action is one handler or one stretch between two awaits. `HostOpen` and
`JoinerOpen` go from the request in main to the engine's `await` of the helper's
pipe; `HostConnected`, `JoinerConnected` or `DialFails` continue; `StartReplied`
is main's continuation. `Evict` and `EvictReplied` split `lanEvict` the same way.
`Restart` ends the application of one install; with `Crash` it may happen
between any two steps, else only when no floor report and no eviction is under
way.

Abstractions. Grants carry the host's wall clock; only order matters, so a clock
value is a number up to `MaxAt`, and `Bases` gives the two cases of `nextAt()`:
the wall clock is behind what the session used, or beyond it. Signatures are
valid, and messages of anybody but the host are dropped before these handlers,
so `net` holds the host's messages only. The ticks that genesis and presence
take, the cap on the number of floors and the refusal of values far in the future
are left out. A synchronous pass over several members sends several floor
reports; the last, highest one is kept. The store read before the elevation
prompt is one step with `HostOpen`. `Evict` is offered for admitted members of a
session, as the user interface does; a request that evicts nobody is left out.
A crash of the engine window alone is left out.

History variables: `issued`, `top`, `gone`, `bar`.

### TorrentHost

`child`, `latch`, `armed` are the proxy's `child`, `readyPromise` and the pair
`resolveReady`/`rejectReady`; a promise is named by the process it was made
for, and `open` holds those not settled. `rpc[t]` says where an engine call is:
awaiting readiness, awaiting a restart, posted. `destroy()` makes an rpc as well,
so a restart and a quit are tasks too. `host[h]` is the process itself.

Microtasks come before events: `Quiet` holds when no continuation of a restart or
a quit is left to run, and messages, exits and timers need it.

Abstractions. Which operation is called, its arguments and its result; the
statistics mirror, the database bridge. A caller has one call at a time; two of
them are enough for a call that finds a readiness another one made. A call that
fails returns its caller to idle, from where it may call again at once.
`kill()` works on the process it is sent to in that what the process says
afterwards is only `state` (it does not become ready). A process id is used again
when its process is gone, except while somebody holds its readiness.

### GameServer

`sup` is the `Supervisor` with its `ServerFsm`; `restart` and `stop` in it are the
two timers. `auto` is the supervisor's `autoRestart`, `want` the persisted
preference it is copied from. `again` is the exit listener of `restart()`
together with the epoch that makes it void. `room` is what the instance's room is
doing and `paused` the persisted latch; `waiter` is the `stopAndWait` of a room
that went away. `wanted` is history: whether the last decision about the server
was that it should run.

Scheduled actions are `Start`, `Stop` and `RestartPressed`. Three constants say
what the environment may do: `LateOutput`, output is read after the exit event
(a pipe may outlive the process, and a grandchild may hold it); `SpawnErrors`, a
spawn fails with `error` and never `exit` (Node leaves `exit` open there);
`FilesBusy`, files of a deleted instance are in use. All three are on in the
passing run.

Abstractions. Launch plans, runtimes and directories: a start may fail before or
at the spawn. The log parser: `ready` and a fatal line. The crash list is the
number of crashes in the window; `WindowPasses` lets the oldest one leave it. A
process never becomes a second one: `child` is one handle.

### LanLeg

`side[m]` is the `LanSession` of `m` as far as the other end goes: `leg` the
`LanPeer` with its `RTCPeerConnection` (`need`, `making`, `offered`, `remote`,
`conn`), `fails` and `terminal` the entries of `failCounts` and `terminal`,
`cool` that `retryAt` is less than 5 s old, `floor` the entry of
`remoteRetryAt`. `admitted` and `barred` are what the `LanSessionCore` says of
the other end; how the cores come to say so is `LanAuthority`'s subject, so here
an admit, an eviction and a departure may be applied at either end at any time.
`net` holds the `lan-signal` messages, a set: they arrive in any order, and with
`Lossy` not at all. A retry stays in it, since gossip repeats messages.

Signals carry no name of the connection they belong to. The model numbers
connections (`id`, `made`) so that it can say whether two of them have each
other's description (`Paired`); no handler reads the number of the other end.
The browser is external: a connection without a remote description stays `new`
for ever; one that is paired connects if `Path`; one that is not paired, or that
`Flaky` allows to fail, fails. History: `made`, `tries`, `obeyed`.

Abstractions. `setRemoteDescription`, the answer and its sending are one step; a
setting that is refused because the fresh offer does not fit a connection that
has met another one is a choice. An answer without an open offer throws and leaves
`settingRemoteAnswer` true, with which even the impolite end takes an offer that
crosses (`setting`). ICE candidates, link quality, relay adverts,
the cap on peers and the re-flood of authority after presence (an `Admit` that
comes again) are left out. Both ends are alike: a host starts with
`startAsHost`, a joiner with `start`, and what differs is only who admits.

### OwnerLine and RoomOwner

`OwnerLine` is the promise: the room has one line of owners, which only its last
owner extends; a member believes in one owner of the line, never goes back once it
has proof, and takes itself for the owner only if it is the last. `RoomOwner` is
the code, and implements it: `line` is the founder and the recipients of all links
signed, `owner` is `room.ownerId`, `proved` the date of the last link of
`room.transferChain`. Not its length: a chain may lack links (section 5), and what
counts in `adoptChain` is the date.

In `RoomOwner`, `room[m]` is the engine's `Room` of `m` and, as every change is sent
to the main process at once, what the store has of it: `pin`, `owner`, `chain`
(`ownerPin`, `ownerId`, `transferChain`), `code`, `bans`, `snap` (`banState`),
`kicked`, and `pending`, the member whose removal waits for the 300 ms timer. `net`
holds frames that may still arrive: any number of times, in any order, or never
(`Drop`). `links` is history, and `early` the links whose date lies more than 60 s
in the future of everybody but their signers.

`Transfer`, `Kick`, `Rotate`, `PinInvite`, `Join` and `Restart` are the user's
commands and the timer; `Greet` is the hello of a new connection, with `HelloHeard`
at the other end; `Ping` the heartbeat, which claims an owner without proof;
`Linger` a hello that is relayed and comes late; `Deliver` the frames `transfer`,
`rekey` and late hellos. `Adopted` is `adoptChain` with `verifyChainLinks` and
`ownerChainAnchored`.

Abstractions. A link's date is its number in the line, since `transferOwnership`
makes it greater than the last one's. A signature is valid, and its root is the
`root` of the link, which a receiver compares with the root it would verify under
(`RootFor`). The hello of a connection and the full hello that answers it are one
step, and the connection keeps the order, so a member in another's list knows of an
owner. The owner's list of removals only changes with the code, which voids the
list, so the revision number is left out. A profile that once owned the room does
not leave it and join again with nothing (`Join`): see section 5. With
`Returns = FALSE` a room is not given back to an earlier owner.

### RoomFiles

One file and its members. `room[m]` has `copies` (the entry of `room.files`, at
most one), `tomb` and `proof` (`tombstones`, `tombSigs`), `guard` (`revives`),
`pending` (`pendingTombs`) and `kept`, the tombstone in the store, which the main
process writes before the engine decides about a removal. `owner[m]` is whom `m`
takes for the owner; the room is handed on once at most (`HandOver`, `Learn`), and
how members come to hear of it is `RoomOwner`'s. `net` holds `add` and `del` frames,
`Greet` is the part of a hello about the file.

`Share` is `addFiles` with `mergeFileLocal`, `Remove` is `removeFile` with
`broadcastDelete`, `CopyHeard` is `mergeFile` with `acceptRevive` and
`applyPendingTomb`, `RemovalHeard` is `acceptRemoteTomb` with `applyTombstone`;
`Restart` reads back what `room-tomb`, `room-tomb-del`, `room-revive` and
`room-manifest-*` have stored. `RemoveUnready` is `removeFile` while the engine window
is away: only the store takes note, and the window that comes back starts from that.

Abstractions. A signature is whom it is by. Members in `Fast` have a clock that is
`Lead` ahead, less than the 60 s that others put up with; two commands do not fall
on the same millisecond. The manifest, the tombstones and the rest are separate
messages to the main process, which arrive in order; a crash between two of them is
left out. A hello is what its sender knows when it is heard. One that is relayed and
comes late is left out here (`RoomOwner` has it): an old copy and an old removal also
come as `add` and `del` frames, and the lemmas on what a member makes of what it hears
(`CopyHeardSound`, `RemovalHeardSound`, `CopyHeeded`, `RemovalHeeded`) speak of every
copy whose revival was signed and of every removal. Limits on numbers and sizes, muted
and removed members, legacy tombstones without proof from older versions, sections, and
what becomes of the bytes on disk are left out.

## 3. The runs

At most a few minutes each. `CHECK_DEADLOCK FALSE` wherever the system may really
stop: the application has quit, the instance has been deleted, the bounds of the
clock are used up.

| run | expected | what it shows |
| --- | --- | --- |
| `lan` | pass | With a host and a joiner, one session over any number of evenings and orderly restarts, three clock values: `Authorised`, `HostAdmitsThisRun`, `EvictionTerminal`, `SeedCoversHistory`. |
| `lan_rotate` | violation | `EvictionRotates`: a floor report of the session that was just rotated away brings its id back. |
| `lan_floor` | violation | `FloorIsHighest`: a session entered while another is remembered is stored with floor 0. |
| `lan_crash` | violation | `HostAdmitsThisRun` with crashes: a grant is broadcast before its floor is stored. |
| `host` | pass | Two callers, three processes, unbounded crashes, restarts and calls, one quit: four invariants, `MirrorFresh`, `CallsSettle`, `RestartEnds`. |
| `server` | pass | One instance under all three failures: two invariants, three action properties, `StopEnds`, and `ParkedEnds`: a crashed server does not stay in `starting` without a process, whatever is done about it meanwhile (a deletion that fails excepted). |
| `server_late` | violation | `UpMeansProcess`: a line read after the exit makes a parked server `running`. |
| `server_unborn` | violation | `RefusedOnlyWhenUp`: after an asynchronous spawn failure no start is ever accepted. |
| `leg` | pass | Two ends, three connections each, one retry each, connections that fail at will, signals lost and repeated: three invariants, `TerminalSticks`, `GoodLegKept`. |
| `leg_passive` | violation | `LegsSettle`: with nothing lost and nothing failing, both ends stay in `connecting`. |
| `owner` | pass | Three members, two handovers (the second may lead back to the founder), one removal, one frame under way, a greeting of the founder that is late, a clock that is ahead, restarts at any time: four invariants, `ImplementsOwnerLine`, `HandoverReaches`, `BansReach`. |
| `files` | pass | One file, three members, four commands or instants, a clock that is ahead by two, one handover, restarts at any time, frames that are lost, late or repeated: two invariants, `LiftedByRight`, `RevivalStands`, `PendingHeeded`, `RemovalReaches`, `RevivalReaches`. |

Bounds. `lan`: three clock values are two for a first evening (the host and the
joiner) and one for a second, so a grant of the first can be replayed in the
second; every mutant of the five properties is found with them. One session id:
with two, `lan_rotate` and `lan_floor` combine (the host comes back to a session
whose stored floor is 0), and `HostAdmitsThisRun` and `SeedCoversHistory` fail
for that reason; so the run shows these two for the life of one session, and the
theorems of `LanFloors_proofs` say under which condition they hold for any number.
The theorems `AuthorisedCorrect` and `EvictionTerminalCorrect` hold for any
number of sessions, and with crashes. `host`: three processes are one that was
given up on, one being killed and one being spawned. `server`: `MaxRestarts` is
2 instead of 3 and at most three crashes count at a time, one more than the budget.
`leg`: `MaxRebuilds` is 2 instead of 3, so three connections are one budget and
one connection after a retry, an eviction or a restart; the theorems hold for
every budget. `owner`: two handovers are the fewest where one overtakes the other,
where a member can be at the first while the room is at the second, and where the
room comes back; two codes give one removal, which may fall before, between and
after them, and stranded members that join again. With more handovers and a return to an earlier
owner `HandoverReaches` fails (section 5), so what the run shows of it is for two; the
safety theorems are for any number. A frame that does not fit into
`net` is lost, which is a case anyway; the theorems hold for any number of frames,
codes and members as well. `files`: four commands are enough for shared, removed,
revived and removed again; the lead of two makes the fast member's removal outdate
the others' next share. All mutants of both are found within these bounds.

Fairness. `RoomOwner`: connections are made again for as long as both ends want
them, and each starts with a greeting (weak fairness of `Greet` for every pair), the
timer of a removal fires, and clocks go on. `RoomFiles`: greetings, and that a
member hears of the handover. In neither need any frame arrive: what is promised
must come from the hellos. Handovers and removals reach everybody when the users
leave off (`Calm`: from some time on only gossip), as a room in which commands never
cease need never agree. `HandoverReaches` and `BansReach` speak of members on the
current code, and except the members that section 5 names. `TorrentHost`: continuations run and the 15 s timer fires; a process
that starts becomes ready or exits (the torrent host exits when its setup
throws), and one that is ready answers or exits. Nothing is assumed of a process
that was killed. `LanLeg` (`FairSpec`, used by `leg_passive` only): gossip that is not
lost arrives, presence included, and the browser proceeds. `GameServer`: the three timers fire, and a process whose tree
was killed exits; a server may ignore its stop command, and never be ready.

## 4. The proofs

For every number of members, installs, sessions, grants, processes and callers.

**LanAuthority** (`LanAuthority_proofs`). The inductive invariant is `TypeOK`
and, for every core, `GoodCore`: an admitted member has a grant in `net` with
exactly its floor, nobody is admitted and evicted at once, and a core that is the
host's has a session. The disjointness is what makes `EvictionTerminal`
inductive: an admission needs the member not to be evicted, and only a new core
forgets an eviction. From `ASSUME`s that members are finitely many and the host
is an install.

**The watermark** (`LanFloors_proofs`, on top of that invariant). `HostAdmitsThisRun`
and `SeedCoversHistory` say that the remembered floors do their work. A floor is in
four places: the core, `lanFloor` of the engine window, the reports under way, the
disk. The proof looks at one install at a time, and at what a step does to it (`Kind`):
nothing but a core that goes or is made from gossip (`Calm`), grants applied
(`Applying`), a session opened (`Opening`), or one of four steps of the main process.
One lemma per action says which; after that there are no actions in the proof, only
kinds. `Bearings` always holds, crashes included: the host's core is of the session the
engine window remembers (`Hosted`), a request that is under way is for a session that
was adopted (`Adopting`), where the main process remembers a session, or is about to,
the engine window remembers one too (`Known`), what was signed was applied
(`SignedIsApplied`), and the session the host's main process waits to be told it may
leave is one that somebody was evicted from (`Leaving`). `Watermark` is what the floors
promise of the sessions an install has to remember (`Tracked`: at the host every one
nobody was evicted from; elsewhere the one the main process knows or is about to, and
any while there is none). For each of these, the grants that were applied and the floor of
the core are at most the floor of the engine window, and that floor is on disk or in a
report under way (`Covered`, `ReportedIn`). It is not inductive by itself, and not because of a missing conjunct: the
code does not keep it. It needs that no process dies with a report under way
(`~Crash`), and `Concord(m)`: the session that the main process remembers, or will
once it has handled the first report, is the one the engine window remembers. That is
what the comment at `room-engine.ts:2040` takes for granted, and findings 1 and 2 are
two ways to lose it. The theorems say that these are all that is missing. With
`Concord` at one install, its watermark holds (`WatermarkCorrect`) and its cores start
above all it ever applied (`SeedCoversAt`), whatever the other installs do; with
`Concord(Host)` alone, `HostAdmitsThisRun` holds (`HostAdmitsCorrect`), as a grant
replayed to the host was applied by the host; with `Concord` everywhere,
`SeedCoversHistory` and `FloorIsHighest`. Each for any number of sessions, members and
clock values. The hypothesis is not empty: a host keeps `Concord` through stops,
starts and new sessions, as long as no floor report of the session before it arrives
after an eviction; TLC finds such behaviours that reach a second evening of a second
session with grants issued. With one session id (`MaxSid = 1`) it always holds (`OneSession`), so
`OneSessionSeed` and `OneSessionHost` assume nothing of the copies: they are the run
`lan` for every number of members, evenings and clock values.

**TorrentHost** (`TorrentHost_proofs`). `WaitsAreLive` and `NoOrphan` are not
inductive: the latch must be tied to the process it was made for (`Latched`), a
restart's own teardown to the stages of the restart (`Staged`), every process
that is alive to a reason (`Accounted`, from which `OneDaemon` follows), and the
mirror to the state the current process has reported (`Mirrored`, for
`MirrorFresh`). Each step is one lemma case of `InvStep`, with a step per
conjunct that the action disturbs.

**GameServer** (`GameServer_proofs`). The action properties rest on one
observation: a process whose exit nobody expects is one that was asked for, and
everything that withdraws the request (a stop, a maintenance, a room that goes
away, a deletion) makes its exit expected (`Asked`); a restart that is due is
likewise one that is allowed (`Due`). Together with what the kill timer and a
failed spawn leave behind (`Pending`) and the two invariants of the run this is
inductive. `NoRevival` and `SpawnsAllowed` follow because only three steps bring a
process up, each with an exit that is not expected. One lemma per method of the
supervisor says what it returns. For every restart budget, and whatever
`LateOutput`, `SpawnErrors` and `FilesBusy` are.

**LanLeg** (`LanLeg_proofs`). Everything is about one end: `Good` ties the
connections made since the budget was last restored to the failures counted and
the connection there is (`tries = Spent`), the terminal flag to the budget, and
the connection to the admission. One lemma per operation says that it keeps an
end `Good` and, but for a retry and the end of a session or a membership,
`Steady`: it lifts no terminal failure and reaps no working connection. Then each
action `Settles` an end, in one of four ways (`Outcome`), and all six properties
follow from that. `GoodLegKept` needs in addition that every retry obeyed in this
membership is at most `floor`. For every budget, bound and loss pattern.

**OwnerLine** (`OwnerLine_proofs`). In the abstract line, whoever acts as the
owner is last and has all the proof there is (`ActingIsLast`), hence one at most.

**RoomOwner** (`RoomOwner_proofs`). `links` is one line: each link is signed by whom
the one before it names. Every chain that is held or under way is a `Walk` along it:
links of the line, the first signed by the founder, each later than the one before
and signed by whom that one names. It need not be the beginning of the line, as a live
link is appended to whatever its receiver holds. What makes the rest inductive is a
comparison of dates: a member that has signed a link holds one as late (`ChainGood`),
and a member that takes itself for the owner holds the last one (`OwnerGood`). A later
chain cannot name its receiver unless it ends the line, for the receiver would have
signed the link after it. With `BansGood` (nobody's owner is among those it takes for
removed; a rotation that is due is due at the owner) the four invariants follow, and
step by step the refinement (`Implements`: `Spec => Line!LineSpec`). For every number
of members, frames, codes and handovers, every cap, and rooms that come back to an
earlier owner as often as they like; nothing is assumed but the typing of the constants
(`RoomAssumption`).

**RoomFiles** (`RoomFiles_proofs`). Per member: a listed file has no tombstone in
the engine, a proof has a tombstone, the store's tombstone is never older than the
engine's, so that a restart forgets no proven removal, and what is signed in a copy
or a frame was signed by somebody (`Sound`); and every operation changes a member's state
in a `Lawful` way: a proof goes only by a signed revival by right, and a listed
file only by a removal above the guard. One lemma per operation. `PendingHeeded` needs
one thing more: what is neither listed nor removed has no guard (`Unguarded`), so that a
pending removal whose file comes takes effect. For every number of members, every lead
and any clock.

Model-checked only: all liveness (`CallsSettle`, `RestartEnds`, `StopEnds`,
`ParkedEnds`, `HandoverReaches`, `BansReach`, `RemovalReaches`, `RevivalReaches`), as
TLAPS reasons neither about fairness nor about `ENABLED`. Every invariant and every
action property of a passing run is stated by a theorem, and so is the refinement.

## 5. What was found

1. *A rotated session comes back* (`lan_rotate`). `lanEvict` forgets the session
   id so that a new one is minted, but `noteSessionFloor` adopts any session when
   none is remembered, and the session that was rotated away goes on running and
   reporting. (`room-engine.ts:2040` says the two copies cannot disagree; after
   `rotateSession` main has forgotten what the engine still remembers.)
2. *A floor of 0* (`lan_floor`). `withSession` runs after the engine has reported
   its first grants; when another session was remembered they were ignored.
3. *A crash between broadcast and store* (`lan_crash`).
4. *Late output wedges a server* (`server_late`).
5. *A failed spawn wedges a server* (`server_unborn`).
6. *Two ends wait for each other for ever* (`leg_passive`). An end offers as soon
   as it has admitted the other, which drops the offer while it does not take part
   (a joiner does not until its user accepts). When that end starts, its own offer
   collides with the first one; if the first end is the impolite one it ignores
   it. Neither connection has a remote description, so neither ever fails, and
   nothing rebuilds them.

Seen on the way, without a run:

- LAN and servers: a joiner's watermark covers what it applied, not what the host
  issued, so a grant it missed in one evening applies when replayed in another; a
  game server whose files could not be deleted during a restart delay is left in
  `starting` with nothing due until somebody presses Stop; a second `restart()`
  during the first cancels it.
- *A suffix for the whole chain* (`room-engine.ts:2543`-`2547`). With three handovers
  and an earlier owner among the recipients, a member with an empty chain that knows
  the founder accepts the live third link as if it were the first; the comment at
  `:2409` says a chain is complete, never a suffix. There is still one owner, as
  `OneOwner` and `Implements` show. But the holder of the suffix and the others take
  each other's chains for forks and drop each other's hellos, and if it becomes the
  owner the next handover may not reach them: with `Limit = 3` TLC finds a behaviour
  that violates `HandoverReaches`, in which the room also sees a fourth handover, since
  the cap counts the links of the chain that is held. It needs a link to overtake
  two others on the way to a member that had no greeting since.
- *A past owner that comes back with nothing.* A profile that owned the room, left
  it and joins with a short code believes the first claim, and a stale member may
  claim that it is the owner; it could then sign a second line. `Join` excludes it.
- *Removals that are not carried.* Who becomes the owner by a chain in a hello and
  never got the list of removals (the frame that carries it was lost) signs a list
  without them. `BansReach` excepts that case. `docs/testing-rooms.md:273` says that
  a handover carries them.
- *A rekey goes out once* (`:4223`), to connections whose peer has named itself. Who
  misses it needs a new invite.
- *A restart of the owner within the 300 ms of a removal* forgets it silently.
- *A link dated more than 60 s ahead* is refused live and healed by a later hello.
- *A restart drops the revival of a copy* (`:4113`-`4119`): the restored entry has no
  `revBy`, `revAt`, `revSig`. Who was offline and holds the removal then refuses the
  file; the comment at `:4698` says the revival reaches peers that are offline.
  `RevivalReaches` speaks of copies that still have it. The rotation of the code
  strips it too, as its signature is over the old topic.
- *Local hides become removals* (`:2517`-`2521`): a new owner signs every tombstone it
  has, also those that were only meant to hide a file from itself (`:5224`).
- *The store takes note of a removal the engine ignores* (`room-manager.ts:1866`):
  with clocks that differ the file is listed until the next start and then gone, and
  so may come back a removal older than the guard. That is why `RevivalStands` speaks
  of files that are listed.
- *Orders that end differently*: two members share the same content and each is the
  author for those who heard it first, so a removal by one binds only some; a local
  hide with a later date hides a proven removal from passing on.
- *Pending removals are kept only while there is no tombstone.* The comments at
  `room-engine.ts:3621` and `:3657` say that a removal by the author that came first
  suppresses the file when it arrives. `mergeFile` (`:3744`) asks for pending removals
  only where it finds no tombstone. With a tombstone of an earlier removal, a revival of
  that one lists the file although the author's later removal is known; with a local
  hide, a copy that is newer than the hide does the same; and an older removal by the
  owner that is accepted while the file is hidden drops the pending one (`:3641`). TLC
  finds such behaviours when the condition `r.tomb = Never` of `Heeded` is changed.
  The removal then has to come again, with the hello of somebody who has proof
  (`RemovalReaches`). Also, one pending removal is kept, the newest: that of a bystander,
  which binds nobody, displaces the author's. `PendingHeeded` says what is left: without
  a tombstone, no removal is forgotten but for a newer one.

## 6. Plan

Done: `LanAuthority`, `TorrentHost`, `GameServer`, `LanLeg`, `OwnerLine`,
`RoomOwner`, `RoomFiles` and their proofs. Left, in this order:

1. `LanVip`: claims and arbitration. Promise: two admitted members that heard each
   other do not keep one address.
2. `WatchSync`: sender epochs and receiver floors.
3. `VpnGuard` composed with `TorrentHost`, whose `Restart` it triggers, and the
   database bridge of the torrent host.
4. `RoomOwner` composed with `RoomFiles`: what the rotation of the code and a
   handover that is heard of late do to proofs and revivals.

Hazards that are known and have no property yet, besides those `PROJECT.json` says
so of: the answer to a database request goes to whatever torrent host is current
(`manager-proxy.ts:152`); a quit drops the readiness of a process that starts
(`manager-proxy.ts:192`); a server that becomes ready and crashes, each time, never
uses up its budget (`gameserver-core.ts:579`); a second `restart()`
(`server-manager.ts:969`); a signal does not name the connection it is for
(`room-lan.ts:379`, `624`).

## 7. Not modelled

Voice and video media, the torrent engines and their daemon, the packet path of
the LAN, the elevated helper, the user interface, parsing, search, RSS, update
and storage formats: their behaviour is that of a library, an operating system
or a pure function, or nothing in them depends on order. Signatures and encryption
are taken to work. Of the room engine, chat, profiles, reactions, sections, content
keys, transfers and the limits on sizes are not modelled; most of them are registers
in which the latest date wins, one per key.

Most of the repository is user interface, parsing and calls of libraries, so the
modules cover a small part of its lines.
