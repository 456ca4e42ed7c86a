------------------------------- MODULE LanLeg -------------------------------
(***************************************************************************)
(* The WebRTC leg between two members of a virtual LAN, both ends of it    *)
(* (LanSession and LanPeer of sharing/room-lan.ts): built on admission,    *)
(* negotiated by offers that may cross, rebuilt when it fails until a      *)
(* budget is spent, and re-armed by a signed retry.                        *)
(*                                                                         *)
(* Signals carry no name of the connection they belong to.  The model      *)
(* numbers connections to know which two have met; no handler looks.       *)
(***************************************************************************)
EXTENDS Naturals

CONSTANTS
    End,         \* the two members
    Polite,      \* the end with the greater member id
    MaxRebuilds, \* LAN_MAX_PEER_REBUILDS
    Path,        \* whether a direct path exists
    Flaky,       \* whether a connection may fail although a path exists
    Lossy,       \* whether gossip may be lost
    MaxMade,     \* bound: connections made by one end
    MaxRetries   \* bound: retries sent by one end

ASSUME ParameterAssumption ==
    /\ Polite \in End /\ \E o \in End : o # Polite /\ End = {Polite, o}
    /\ MaxRebuilds \in Nat \ {0} /\ MaxMade \in Nat /\ MaxRetries \in Nat
    /\ Path \in BOOLEAN /\ Flaky \in BOOLEAN /\ Lossy \in BOOLEAN

VARIABLES
    side,      \* side[m]: the LanSession of m, as far as the other end goes
    net,       \* the lan-signals under way
    announced, \* announced[m]: some lan-state of m is about
    sent,      \* sent[m]: the stamp of the last retry m has signed
    obeyed     \* history: obeyed[m]: the retries m has obeyed in this membership

vars == <<side, net, announced, sent, obeyed>>

-----------------------------------------------------------------------------
(* An end *)

\* One RTCPeerConnection.  `need` is a negotiationneeded event to come, `offered`
\* the signaling state have-local-offer, `setting` settingRemoteAnswer left behind,
\* `remote` the connection whose description is set; a connection without one stays
\* "new" for ever.
Pc == [id : 0..MaxMade, need : BOOLEAN, making : BOOLEAN, offered : BOOLEAN,
       setting : BOOLEAN, remote : 0..MaxMade,
       conn : {"new", "connected", "disconnected"}]

NoPc == [id |-> 0, need |-> FALSE, making |-> FALSE, offered |-> FALSE,
         setting |-> FALSE, remote |-> 0, conn |-> "new"]

\* `admitted` and `barred` are what the core says of the other end; `cool` is
\* that the last retry is less than 5 s old, `floor` remoteRetryAt.  History:
\* `made` connections ever, `tries` since the budget was last restored.
Side == [active : BOOLEAN, admitted : BOOLEAN, barred : BOOLEAN, leg : Pc,
         fails : 0..MaxRebuilds, terminal : BOOLEAN, cool : BOOLEAN,
         floor : 0..MaxRetries, made : 0..MaxMade, tries : 0..MaxMade]

Signal == [to : End, kind : {"offer", "answer"}, id : 1..MaxMade]
          \cup [to : End, kind : {"retry"}, id : 1..MaxRetries]

TypeOK ==
    /\ side \in [End -> Side]
    /\ net \subseteq Signal
    /\ announced \in [End -> BOOLEAN]
    /\ sent \in [End -> 0..MaxRetries]
    /\ obeyed \in [End -> SUBSET (1..MaxRetries)]

Other(m) == CHOOSE o \in End : o # m

HasLeg(e) == e.leg.id # 0

\* Mutant: a terminal member is connected to again.
EnsuredTerminal(e) ==
    IF HasLeg(e) \/ ~e.admitted THEN e
    ELSE [e EXCEPT !.leg = [NoPc EXCEPT !.id = e.made + 1, !.need = TRUE],
                   !.made = @ + 1, !.tries = @ + 1]

\* ensurePeer
Ensured(e) ==
    IF HasLeg(e) \/ e.terminal \/ ~e.admitted THEN e
    ELSE [e EXCEPT !.leg = [NoPc EXCEPT !.id = e.made + 1, !.need = TRUE],
                   !.made = @ + 1, !.tries = @ + 1]

\* dropPeer; a closed connection reports nothing any more.
Dropped(e) == [e EXCEPT !.leg = NoPc]

\* forgetFailure
Forgotten(e) == [e EXCEPT !.fails = 0, !.terminal = FALSE, !.tries = 0]

\* Mutant: the budget is one connection too large.
FailedLate(e) ==
    LET d == [Dropped(e) EXCEPT !.fails = @ + 1]
    IN  IF d.admitted /\ d.fails > MaxRebuilds THEN [d EXCEPT !.terminal = TRUE]
        ELSE Ensured(d)

\* onPeerFailed, of a leg that exists: reap it, and rebuild while the budget lasts.
Failed(e) ==
    LET d == [Dropped(e) EXCEPT !.fails = @ + 1]
    IN  IF d.admitted /\ d.fails >= MaxRebuilds THEN [d EXCEPT !.terminal = TRUE]
        ELSE Ensured(d)

\* What a session that stops forgets.
Halted(e) == [Forgotten(Dropped(e)) EXCEPT !.active = FALSE, !.cool = FALSE, !.floor = 0]

\* The two connections have each other's description.
Paired(m) ==
    LET mine == side[m].leg  theirs == side[Other(m)].leg
    IN  /\ mine.id # 0 /\ mine.remote = theirs.id
        /\ theirs.id # 0 /\ theirs.remote = mine.id

\* m becomes e, within the bound on connections.
Becomes(m, e) == e.made <= MaxMade /\ side' = [side EXCEPT ![m] = e]

\* Signals of m's are for the other end.
Post(m, kind, id) == [to |-> Other(m), kind |-> kind, id |-> id]

-----------------------------------------------------------------------------
(* The session and who takes part *)

\* startAsHost, or start() on the user's Accept: presence, and a leg to whoever
\* is admitted by now.
Start(m) ==
    /\ ~side[m].active
    /\ Becomes(m, Ensured([side[m] EXCEPT !.active = TRUE]))
    /\ announced' = [announced EXCEPT ![m] = TRUE]
    /\ UNCHANGED <<net, sent, obeyed>>

\* stop(): the core stays when the helper is lost, and goes with the session.
Stop(m) ==
    /\ \E e \in {Halted(side[m]),
                 [Halted(side[m]) EXCEPT !.admitted = FALSE, !.barred = FALSE]} :
          Becomes(m, e)
    /\ obeyed' = [obeyed EXCEPT ![m] = {}]
    /\ UNCHANGED <<net, announced, sent>>

\* Mutant: an admit that comes again starts afresh.
AdmitAfresh(m) ==
    /\ ~side[m].barred
    /\ LET e == Forgotten([side[m] EXCEPT !.admitted = TRUE])
       IN  Becomes(m, IF e.active THEN Ensured(e) ELSE e)
    /\ UNCHANGED <<net, announced, sent, obeyed>>

\* hostAdmit and onAdmit; an admit may come again.
Admit(m) ==
    /\ ~side[m].barred
    /\ LET e == [side[m] EXCEPT !.admitted = TRUE]
       IN  Becomes(m, IF e.active THEN Ensured(e) ELSE e)
    /\ UNCHANGED <<net, announced, sent, obeyed>>

\* Mutant: the leg of an evicted member stays.
EvictKeepsLeg(m) ==
    /\ ~side[m].barred
    /\ Becomes(m, Forgotten([side[m] EXCEPT !.admitted = FALSE, !.barred = TRUE]))
    /\ UNCHANGED <<net, announced, sent, obeyed>>

\* hostEvict and onEvict of the other end; of oneself it is a Stop.
Evict(m) ==
    /\ ~side[m].barred
    /\ Becomes(m, Forgotten(Dropped([side[m] EXCEPT !.admitted = FALSE, !.barred = TRUE])))
    /\ UNCHANGED <<net, announced, sent, obeyed>>

\* onMemberGone
Gone(m) ==
    /\ side[m].admitted
    /\ Becomes(m, [Forgotten(Dropped(side[m])) EXCEPT
                      !.admitted = FALSE, !.cool = FALSE, !.floor = 0])
    /\ obeyed' = [obeyed EXCEPT ![m] = {}]
    /\ UNCHANGED <<net, announced, sent>>

\* onPeerState: a lan-state of the other end, late or repeated.
Presence(m) ==
    /\ announced[Other(m)] /\ side[m].active
    /\ Becomes(m, Ensured(side[m]))
    /\ UNCHANGED <<net, announced, sent, obeyed>>

-----------------------------------------------------------------------------
(* Negotiation *)

\* negotiationneeded: setLocalDescription is awaited.
Negotiate(m) ==
    /\ side[m].leg.need
    /\ Becomes(m, [side[m] EXCEPT !.leg = [@ EXCEPT !.need = FALSE, !.making = TRUE]])
    /\ UNCHANGED <<net, announced, sent, obeyed>>

\* The description is there and goes out.
Offer(m) ==
    /\ side[m].leg.making
    /\ Becomes(m, [side[m] EXCEPT !.leg = [@ EXCEPT !.making = FALSE, !.offered = TRUE]])
    /\ net' = net \cup {Post(m, "offer", side[m].leg.id)}
    /\ UNCHANGED <<announced, sent, obeyed>>

\* onSignal takes a signal at all: the admission gate.
Hears(m) == side[m].active /\ side[m].admitted

\* An offer.  A crossing offer makes the impolite end ignore it and the polite
\* end roll its own back, after its own is out (the connection queues
\* setRemoteDescription).  One that a fresh connection makes to one that has
\* met another may be refused by the browser.  An answer that failed before makes
\* any end take an offer that crosses.
OnOffer(m, s) ==
    /\ s \in net /\ s.to = m /\ s.kind = "offer"
    /\ LET e == IF Hears(m) THEN Ensured(side[m]) ELSE side[m]
           crossing == e.leg.making \/ (e.leg.offered /\ ~e.leg.setting)
           ignored == ~Hears(m) \/ ~HasLeg(e) \/ (crossing /\ m # Polite)
           tried == [e EXCEPT !.leg = [@ EXCEPT !.setting = FALSE]]
           taken == [e EXCEPT !.leg = [@ EXCEPT !.need = FALSE, !.offered = FALSE,
                                                !.setting = FALSE, !.remote = s.id]]
       IN  \/ /\ ignored
              /\ Becomes(m, e)
              /\ net' = net \ {s}
           \/ /\ ~ignored /\ e.leg.remote \notin {0, s.id}
              /\ Becomes(m, tried)
              /\ net' = net \ {s}
           \/ /\ ~ignored /\ ~e.leg.making
              /\ Becomes(m, taken)
              /\ net' = (net \ {s}) \cup {Post(m, "answer", e.leg.id)}
    /\ UNCHANGED <<announced, sent, obeyed>>

\* An answer, to whichever offer is open, or about to be; without one it is an error,
\* after which settingRemoteAnswer stays true.
OnAnswer(m, s) ==
    /\ s \in net /\ s.to = m /\ s.kind = "answer"
    /\ LET e == IF Hears(m) THEN Ensured(side[m]) ELSE side[m]
           taken == [e EXCEPT !.leg = [@ EXCEPT !.offered = FALSE, !.setting = FALSE,
                                                !.remote = s.id]]
           failed == [e EXCEPT !.leg = [@ EXCEPT !.setting = TRUE]]
       IN  IF ~Hears(m) \/ ~HasLeg(e) THEN Becomes(m, e)
           ELSE ~e.leg.making /\ Becomes(m, IF e.leg.offered THEN taken ELSE failed)
    /\ net' = net \ {s}
    /\ UNCHANGED <<announced, sent, obeyed>>

-----------------------------------------------------------------------------
(* The connection, as the browser reports it *)

\* 'connected' retires the failure story.
Connect(m) ==
    /\ Path /\ Paired(m) /\ side[m].leg.conn # "connected"
    /\ Becomes(m, [side[m] EXCEPT !.leg = [@ EXCEPT !.conn = "connected"],
                                  !.fails = 0, !.terminal = FALSE, !.tries = 1])
    /\ UNCHANGED <<net, announced, sent, obeyed>>

Disconnect(m) ==
    /\ side[m].leg.conn = "connected"
    /\ Flaky \/ ~Paired(m)
    /\ Becomes(m, [side[m] EXCEPT !.leg = [@ EXCEPT !.conn = "disconnected"]])
    /\ UNCHANGED <<net, announced, sent, obeyed>>

\* ICE gives up, when nothing is on its way that could still help.
Fail(m) ==
    /\ side[m].leg.remote # 0 /\ side[m].leg.conn # "connected"
    /\ Flaky \/ ~Path \/ (~Paired(m) /\ Post(m, "answer", side[m].leg.id) \notin net)
    /\ Becomes(m, Failed(side[m]))
    /\ UNCHANGED <<net, announced, sent, obeyed>>

-----------------------------------------------------------------------------
(* Retries *)

\* retryFailedPeers, on the user's request.
Retry(m) ==
    /\ side[m].active /\ side[m].terminal /\ side[m].admitted /\ ~side[m].cool
    /\ sent[m] < MaxRetries
    /\ sent' = [sent EXCEPT ![m] = @ + 1]
    /\ Becomes(m, Ensured(Dropped(Forgotten([side[m] EXCEPT !.cool = TRUE]))))
    /\ net' = net \cup {Post(m, "retry", sent[m] + 1)}
    /\ UNCHANGED <<announced, obeyed>>

\* Mutant: the stamp of the retry is not remembered.
OnRetryForgetful(m, s) ==
    /\ s \in net /\ s.to = m /\ s.kind = "retry"
    /\ Hears(m) /\ s.id > side[m].floor /\ ~side[m].cool
    /\ Becomes(m, Ensured(Forgotten(Dropped([side[m] EXCEPT !.cool = TRUE]))))
    /\ obeyed' = [obeyed EXCEPT ![m] = @ \cup {s.id}]
    /\ UNCHANGED <<net, announced, sent>>

\* A retry of the other end.  It stays about: it may be heard again until it is
\* too old.
OnRetry(m, s) ==
    /\ s \in net /\ s.to = m /\ s.kind = "retry"
    /\ Hears(m) /\ s.id > side[m].floor /\ ~side[m].cool
    /\ Becomes(m, Ensured(Forgotten(Dropped([side[m] EXCEPT !.cool = TRUE, !.floor = s.id]))))
    /\ obeyed' = [obeyed EXCEPT ![m] = @ \cup {s.id}]
    /\ UNCHANGED <<net, announced, sent>>

\* Five seconds pass.
Cool(m) ==
    /\ side[m].cool
    /\ Becomes(m, [side[m] EXCEPT !.cool = FALSE])
    /\ UNCHANGED <<net, announced, sent, obeyed>>

\* A signal is lost, or a retry is older than 30 s.
Lose(s) ==
    /\ s \in net /\ (Lossy \/ s.kind = "retry")
    /\ net' = net \ {s}
    /\ UNCHANGED <<side, announced, sent, obeyed>>

-----------------------------------------------------------------------------
Init ==
    /\ side = [m \in End |-> [active |-> FALSE, admitted |-> FALSE, barred |-> FALSE,
                              leg |-> NoPc, fails |-> 0, terminal |-> FALSE, cool |-> FALSE,
                              floor |-> 0, made |-> 0, tries |-> 0]]
    /\ net = {}
    /\ announced = [m \in End |-> FALSE]
    /\ sent = [m \in End |-> 0]
    /\ obeyed = [m \in End |-> {}]

Member(m) == Start(m) \/ Stop(m) \/ Admit(m) \/ Evict(m) \/ Gone(m) \/ Presence(m)

Hear(m) == \E s \in net : OnOffer(m, s) \/ OnAnswer(m, s)

Browser(m) == Negotiate(m) \/ Offer(m) \/ Connect(m) \/ Disconnect(m) \/ Fail(m)

Next ==
    \/ \E m \in End : Member(m) \/ Hear(m) \/ Browser(m) \/ Retry(m) \/ Cool(m)
                      \/ \E s \in net : OnRetry(m, s)
    \/ \E s \in net : Lose(s)

\* Gossip that is not lost arrives, presence included, and the browser goes on.
Fairness ==
    \A m \in End :
        /\ WF_vars(Negotiate(m)) /\ WF_vars(Offer(m)) /\ WF_vars(Hear(m))
        /\ WF_vars(Presence(m)) /\ WF_vars(Connect(m)) /\ WF_vars(Disconnect(m))
        /\ WF_vars(Fail(m))

Spec == Init /\ [][Next]_vars
FairSpec == Spec /\ Fairness

-----------------------------------------------------------------------------
(* Properties *)

\* A connection exists only to a member that is admitted now, in a session that
\* runs (ensurePeer; every withdrawal reaps it).
LegAdmitted == \A m \in End : HasLeg(side[m]) => side[m].active /\ side[m].admitted

\* An end is terminal exactly when its budget is spent, and then it holds no
\* connection, so that the relay may take over (relayTargets).
TerminalIsSpent ==
    \A m \in End : /\ side[m].terminal <=> side[m].fails >= MaxRebuilds
                   /\ side[m].terminal => ~HasLeg(side[m])

\* No interplay of presence, admits, signals and failures makes more connections
\* than the budget before one of them works or somebody asks again.
StormBounded == \A m \in End : side[m].tries <= MaxRebuilds

\* Gossip does not lift a terminal failure: only a retry, or the end of the
\* session or of the membership (rooms-network-lifecycle.md).
TerminalSticks ==
    [][\A m \in End : side[m].terminal /\ ~side'[m].terminal =>
          \/ ~side'[m].active \/ ~side'[m].admitted
          \/ sent'[m] > sent[m] \/ side'[m].floor > side[m].floor]_vars

\* A connection that works is reaped only with the session or the membership, or
\* for a retry that was never obeyed before, however often it is heard.
GoodLegKept ==
    [][\A m \in End :
          side[m].leg.conn = "connected" /\ side'[m].leg.id # side[m].leg.id =>
             \/ ~side'[m].active \/ ~side'[m].admitted
             \/ obeyed'[m] # obeyed[m]]_vars

\* Both take part, and stay.
Together == \A m \in End : side[m].active /\ side[m].admitted

\* When both take part and stay, each end is connected or knows that it is not
\* possible: the host re-floods for members that joined after its first
\* messages, "regardless of the initial gossip order".
LegsSettle ==
    <>[]Together => []<>(\A m \in End : side[m].leg.conn = "connected" \/ side[m].terminal)
=============================================================================
