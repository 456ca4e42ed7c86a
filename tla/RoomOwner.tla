----------------------------- MODULE RoomOwner ------------------------------
(***************************************************************************)
(* Who owns a room: handovers, removals and the rotation of the code.      *)
(*                                                                         *)
(* There is no server.  The founder owns the room; an owner hands it on by *)
(* signing a link, and every member keeps the whole chain of links and     *)
(* serves it to others.  A member is removed by rotating the room code     *)
(* away from it; the owner signs the list of the removed.  A member that   *)
(* has joined with a short code believes the first claim about the owner;  *)
(* one with a full invite is pinned to an owner.                           *)
(*                                                                         *)
(* A link carries the signer's clock, later than that of the link before   *)
(* it: here its number, and a clock ahead of everybody else's is `early`.  *)
(***************************************************************************)
EXTENDS Integers, Sequences, FiniteSets

CONSTANTS
    Member,     \* the members the room ever has
    Founder,    \* the one that creates it
    NoOne,      \* the empty string of the code: no owner, no pin, no target
    Invited,    \* those that come with a full invite, which pins the owner
    Ahead,      \* those whose clock is ahead
    Slow,       \* those whose greetings may take a long way round
    Returns,    \* whether the room may come back to somebody that has owned it
    Limit,      \* ROOM_TRANSFER_LIMIT, the handovers a room may see
    MaxCode,    \* bound: room codes, so one more than the removals
    MaxNet      \* bound: frames that linger

ASSUME RoomAssumption ==
    /\ Founder \in Member /\ NoOne \notin Member
    /\ Invited \subseteq Member /\ Ahead \subseteq Member /\ Slow \subseteq Member
    /\ Returns \in BOOLEAN
    /\ Limit \in Nat /\ MaxCode \in Nat \ {0} /\ MaxNet \in Nat

VARIABLES
    room,       \* room[m]: the engine's Room of m, and what the store holds of it
    codes,      \* how many codes there have been; the last is the current one
    net,        \* frames that may still arrive, any number of times
    early,      \* links whose date is in the future of all but their signers
    links       \* history: every link signed, in order

vars == <<room, codes, net, early, links>>

-----------------------------------------------------------------------------
(* Values *)

Id == Member \union {NoOne}
Code == 1..MaxCode
Link == [by : Member, new : Member, root : Member, at : Nat \ {0}]
Snap == [by : Id, bans : SUBSET Member]
NoSnap == [by |-> NoOne, bans |-> {}]

Room == [in : BOOLEAN, pin : Id, owner : Id, chain : Seq(Link), code : Code,
         bans : SUBSET Member, snap : Snap, kicked : BOOLEAN, pending : Id]

\* What a member knows that has just joined.
Fresh(pin, code) ==
    [in |-> TRUE, pin |-> pin, owner |-> NoOne, chain |-> << >>, code |-> code,
     bans |-> {}, snap |-> NoSnap, kicked |-> FALSE, pending |-> NoOne]
Outside == [Fresh(NoOne, 1) EXCEPT !.in = FALSE]

Hello == [kind : {"hello"}, code : Code, from : Member, owner : Id,
          chain : Seq(Link), snap : Snap]
Transferred == [kind : {"transfer"}, code : Code, link : Link, snap : Snap]
Rekey == [kind : {"rekey"}, code : Code, by : Member, new : Code, target : Member]

Alive(m) == room[m].in /\ ~room[m].kicked
\* The owner at the end of the line.
Holder == IF links = << >> THEN Founder ELSE links[Len(links)].new

\* Those that have ever been named owner.
Named == {Founder} \union {links[i].new : i \in DOMAIN links}

-----------------------------------------------------------------------------
(* The chain of handovers: shared/room-authority.ts and adoptChain *)

Compatible(held, incoming) ==
    \A i \in DOMAIN held \intersect DOMAIN incoming : held[i] = incoming[i]

\* A link in its place: handed over by the owner before it, later than the link
\* before it, signed over the chain's root, and not dated in the future of m.
InPlace(m, chain, i) ==
    /\ chain[i].by # chain[i].new
    /\ i > 1 => chain[i].by = chain[i - 1].new /\ chain[i].at > chain[i - 1].at
    /\ chain[i].root = chain[1].by
    /\ chain[i] \in early => chain[i].by = m
    /\ i <= Limit

\* The longest prefix all of whose links are in place.
Verified(m, chain) ==
    SubSeq(chain, 1, Cardinality({k \in DOMAIN chain : \A i \in 1..k : InPlace(m, chain, i)}))

KnownOwner(r) == IF r.chain # << >> THEN r.chain[1].by ELSE r.owner

Anchored(r, chain) ==
    /\ chain # << >>
    /\ Len(chain) >= Len(r.chain) /\ Compatible(r.chain, chain)
    /\ IF r.pin # NoOne
       THEN chain[1].by = r.pin \/ \E i \in DOMAIN chain : chain[i].new = r.pin
       ELSE \/ KnownOwner(r) = NoOne
            \/ \E i \in DOMAIN chain : KnownOwner(r) \in {chain[i].by, chain[i].new}

PinAllows(r, id) ==
    IF r.chain # << >> THEN id = r.owner ELSE r.pin \in {NoOne, id}

TransferAt(chain) == IF chain = << >> THEN 0 ELSE chain[Len(chain)].at

Advances(r, chain) ==
    /\ \/ TransferAt(chain) > TransferAt(r.chain)
       \/ TransferAt(chain) = TransferAt(r.chain) /\ Len(chain) > Len(r.chain)
    /\ Anchored(r, chain)

LastOwner(chain) == chain[Len(chain)].new

\* The owner signs the removals it knows of.  (Its list changes with the code
\* only, which voids the list: the revision number is always 1.)
Minted(m, r) == IF r.owner = m THEN [r EXCEPT !.snap = [by |-> m, bans |-> r.bans]] ELSE r

WithChain(r, chain) == [r EXCEPT !.chain = chain, !.owner = LastOwner(chain)]

\* Mutant: the room is handed to somebody that was removed.
AdoptedBanned(m, r, raw) ==
    LET adopt[chain \in Seq(Link)] ==
            IF Advances(r, chain) THEN Minted(m, WithChain(r, chain)) ELSE r
    IN  adopt[Verified(m, raw)]

\* adoptChain, live: never to somebody that was removed.
Adopted(m, r, raw) ==
    LET adopt[chain \in Seq(Link)] ==
            IF Advances(r, chain) /\ LastOwner(chain) \notin r.bans
            THEN Minted(m, WithChain(r, chain)) ELSE r
    IN  adopt[Verified(m, raw)]

\* Mutant: the last claim wins.
ClaimedLast(r, id) == IF id # NoOne /\ PinAllows(r, id) THEN [r EXCEPT !.owner = id] ELSE r

\* maybeAdoptOwner: the first claim wins.
Claimed(r, id) == IF r.owner = NoOne /\ PinAllows(r, id) THEN [r EXCEPT !.owner = id] ELSE r

-----------------------------------------------------------------------------
(* Removals: shared/room-bans.ts and adoptBanState *)

SnapAdvances(r, s) ==
    /\ s.by # NoOne /\ s.by = r.owner
    /\ r.bans \subseteq s.bans
    /\ r.snap.by = s.by => r.snap = s

WithSnap(m, r, s) ==
    [r EXCEPT !.snap = s, !.bans = @ \union s.bans, !.kicked = @ \/ m \in s.bans]

-----------------------------------------------------------------------------
(* The frames and their handlers *)

\* Mutant: the chain is not served again.
HelloOfChainless(m) ==
    [kind |-> "hello", code |-> room[m].code, from |-> m, owner |-> room[m].owner,
     chain |-> << >>,
     snap |-> IF room[m].snap.by = room[m].owner THEN room[m].snap ELSE NoSnap]

\* Mutant: the list of the removed is not served again.
HelloOfBanless(m) ==
    [kind |-> "hello", code |-> room[m].code, from |-> m, owner |-> room[m].owner,
     chain |-> room[m].chain, snap |-> NoSnap]

HelloOf(m) ==
    [kind |-> "hello", code |-> room[m].code, from |-> m, owner |-> room[m].owner,
     chain |-> room[m].chain,
     snap |-> IF room[m].snap.by = room[m].owner THEN room[m].snap ELSE NoSnap]

\* A hello is dropped if it comes from a removed member or carries a list signed
\* by one, or if its chain forks off from ours.
HelloHeard(m, r, h) ==
    IF h.from \in r.bans \/ h.snap.by \in r.bans \/ ~Compatible(r.chain, h.chain) THEN r
    ELSE LET told[known \in Room] ==
                 IF SnapAdvances(known, h.snap) THEN WithSnap(m, known, h.snap) ELSE known
         IN  told[Claimed(Adopted(m, r, h.chain), h.owner)]

\* The root the receiver takes a link to be signed over.
RootFor(r, link) ==
    IF r.chain # << >> THEN r.chain[1].by
    ELSE IF r.pin # NoOne THEN r.pin
    ELSE IF r.owner # NoOne THEN r.owner ELSE link.by

TransferHeard(m, r, f) ==
    LET known == Claimed(r, f.link.by)
        told == WithSnap(m, known, f.snap)
    IN  IF RootFor(r, f.link) # f.link.root \/ f.link.by \in r.bans THEN r
        ELSE IF \/ known.owner # f.link.by
                \/ f.link.new \in f.snap.bans \/ ~SnapAdvances(known, f.snap) THEN known
        ELSE IF told.kicked THEN told
        ELSE Adopted(m, told, Append(told.chain, f.link))

RekeyHeard(m, r, f) ==
    IF f.target # m /\ r.owner = f.by /\ f.by \notin r.bans
    THEN [r EXCEPT !.code = f.new, !.bans = @ \union {f.target}, !.snap = NoSnap]
    ELSE r

FrameHeard(m, r, f) ==
    CASE f.kind = "hello"    -> HelloHeard(m, r, f)
      [] f.kind = "transfer" -> TransferHeard(m, r, f)
      [] f.kind = "rekey"    -> RekeyHeard(m, r, f)

Sender(f) == CASE f.kind = "hello"    -> f.from
              [] f.kind = "transfer" -> f.link.by
              [] f.kind = "rekey"    -> f.by

\* A frame that does not fit into the bound is lost.
Sent(frames, f) == IF Cardinality(frames) < MaxNet THEN frames \union {f} ELSE frames

-----------------------------------------------------------------------------
Init ==
    /\ room = [m \in Member |-> IF m = Founder
                 THEN Minted(m, [Fresh(NoOne, 1) EXCEPT !.owner = m]) ELSE Outside]
    /\ codes = 1
    /\ net = {} /\ early = {} /\ links = << >>

(* The user's commands.  A profile that once owned the room does not leave it and
   come back as somebody that knows nothing. *)

\* joinRoom with the invite of i, short or with a pin.  A member that was removed
\* or has missed a new code may leave and join again.
Join(m, i, pin) ==
    /\ m # i /\ m \notin Named /\ Alive(i)
    /\ room[m].in => room[m].kicked \/ room[m].code # room[i].code
    /\ pin = NoOne \/ (m \in Invited /\ pin = room[i].owner)
    /\ room' = [room EXCEPT ![m] = Fresh(pin, room[i].code)]
    /\ UNCHANGED <<codes, net, early, links>>

\* A full invite to the room m is in already: assertCompatibleOwnerPin.
PinInvite(m, i) ==
    LET pin == room[i].owner  r == room[m]
        known == IF r.pin # NoOne THEN r.pin ELSE KnownOwner(r)
        passed == {r.chain[j].by : j \in DOMAIN r.chain} \union {r.chain[j].new : j \in DOMAIN r.chain}
    IN  /\ m \in Invited /\ Alive(m) /\ Alive(i) /\ r.code = room[i].code
        /\ r.pin = NoOne /\ pin # NoOne
        /\ known \in {NoOne, pin} \/ {known, pin} \subseteq passed
        /\ room' = [room EXCEPT ![m].pin = pin]
        /\ UNCHANGED <<codes, net, early, links>>

\* Mutant: a rotation that is due does not hold the handover up.
MayGiveAnyway(m, n) ==
    /\ Alive(m) /\ room[m].owner = m
    /\ n # m /\ room[n].in /\ room[n].owner # NoOne /\ n \notin room[m].bans
    /\ Returns \/ n \notin Named
    /\ Len(room[m].chain) < Limit

\* Mutant: the room changes hands once too often.
MayGiveOnceMore(m, n) ==
    /\ Alive(m) /\ room[m].pending = NoOne /\ room[m].owner = m
    /\ n # m /\ room[n].in /\ room[n].owner # NoOne /\ n \notin room[m].bans
    /\ Returns \/ n \notin Named
    /\ Len(room[m].chain) <= Limit

\* What transferOwnership asks for.  Whoever is in m's list of members has exchanged
\* greetings with it, on a channel that keeps the order, and so knows of an owner.
MayGive(m, n) ==
    /\ Alive(m) /\ room[m].pending = NoOne /\ room[m].owner = m
    /\ n # m /\ room[n].in /\ room[n].owner # NoOne /\ n \notin room[m].bans
    /\ Returns \/ n \notin Named
    /\ Len(room[m].chain) < Limit

\* The link m signs.
LinkTo(m, n) ==
    [by |-> m, new |-> n, at |-> Len(links) + 1,
     root |-> IF room[m].chain = << >> THEN m ELSE room[m].chain[1].by]

\* Mutant: the frame goes out, and m stays the owner until somebody tells it.
TransferUnapplied(m, n, ahead) ==
    /\ MayGive(m, n) /\ (ahead => m \in Ahead) /\ Len(links) < Limit
    /\ net' = Sent(net, [kind |-> "transfer", code |-> room[m].code, link |-> LinkTo(m, n),
                         snap |-> room[m].snap])
    /\ links' = Append(links, LinkTo(m, n))
    /\ UNCHANGED <<room, codes, early>>

\* transferOwnership: m signs, mints its list, applies both and tells the others.
Transfer(m, n, ahead) ==
    LET r == Minted(m, room[m])
        chain == Append(r.chain, LinkTo(m, n))
    IN  /\ MayGive(m, n) /\ (ahead => m \in Ahead)
        /\ Advances(r, chain)
        /\ room' = [room EXCEPT ![m] = WithChain(r, chain)]
        /\ net' = Sent(net, [kind |-> "transfer", code |-> r.code, link |-> LinkTo(m, n),
                             snap |-> r.snap])
        /\ early' = IF ahead THEN early \union {LinkTo(m, n)} ELSE early
        /\ links' = Append(links, LinkTo(m, n))
        /\ UNCHANGED codes

\* kickMember: tell x, on the channel to it and on no other, and leave the rotation
\* to a timer.  x hears of it now or never.
Kick(m, x, heard) ==
    /\ Alive(m) /\ room[m].pending = NoOne /\ room[m].owner = m
    /\ x # m /\ room[x].in /\ x \notin room[m].bans
    /\ codes < MaxCode
    /\ heard => Alive(x) /\ room[x].code = room[m].code /\ room[x].owner = m
    /\ room' = [room EXCEPT ![m].pending = x, ![x].kicked = @ \/ heard]
    /\ UNCHANGED <<codes, net, early, links>>

\* The timer: the new code goes out once, under the old one, and is applied here.
Rotate(m) ==
    LET r == room[m]
    IN  /\ Alive(m) /\ r.pending # NoOne
        /\ codes' = codes + 1
        /\ room' = [room EXCEPT ![m] = Minted(m, [r EXCEPT !.code = codes', !.pending = NoOne,
                                      !.bans = @ \union {r.pending}, !.snap = NoSnap])]
        /\ net' = Sent(net, [kind |-> "rekey", code |-> r.code, by |-> m,
                             new |-> codes', target |-> r.pending])
        /\ UNCHANGED <<early, links>>

\* startRoom, from what the store holds of r.
Restarted(m, r) ==
    LET bare == [r EXCEPT !.owner = IF r.pin # NoOne /\ @ # r.pin THEN NoOne ELSE @,
                          !.chain = << >>, !.snap = NoSnap, !.kicked = FALSE, !.pending = NoOne]
        chain == Verified(m, r.chain)
        back == IF Advances([bare EXCEPT !.owner = NoOne], chain) THEN WithChain(bare, chain) ELSE bare
        told == IF SnapAdvances(back, r.snap) THEN WithSnap(m, back, r.snap) ELSE back
    IN  [Minted(m, told) EXCEPT !.kicked = m \in told.bans]

\* The application is closed or killed and started again.  A rotation that was due
\* is forgotten.
Restart(m) ==
    /\ room[m].in
    /\ room' = [room EXCEPT ![m] = Restarted(m, room[m])]
    /\ UNCHANGED <<codes, net, early, links>>

(* The gossip *)

\* (To hear nothing new is to stutter.)
Hears(n, r) ==
    /\ r # room[n]
    /\ room' = [room EXCEPT ![n] = r]
    /\ UNCHANGED <<codes, net, early, links>>

\* A connection comes up: each end greets the other.
Greet(m, n) ==
    /\ m # n /\ Alive(m) /\ Alive(n) /\ room[m].code = room[n].code
    /\ \E h \in {HelloOf(m)} : \E r \in {HelloHeard(n, room[n], h)} : Hears(n, r)

\* The heartbeat says who the owner is, and nothing to prove it.
Ping(m, n) ==
    /\ m # n /\ Alive(m) /\ Alive(n) /\ room[m].code = room[n].code
    /\ m \notin room[n].bans
    /\ Hears(n, Claimed(room[n], room[m].owner))

\* A greeting on its way while m goes on.
Linger(m) ==
    /\ m \in Slow /\ Alive(m) /\ Cardinality(net) < MaxNet
    /\ net' = net \union {HelloOf(m)}
    /\ UNCHANGED <<room, codes, early, links>>

\* A frame is relayed and may arrive in any order, more than once, or never.
Deliver(n, f) ==
    /\ Alive(n) /\ room[n].code = f.code /\ Sender(f) # n
    /\ Hears(n, FrameHeard(n, room[n], f))

Drop(f) ==
    /\ net' = net \ {f}
    /\ UNCHANGED <<room, codes, early, links>>

\* Everybody's clock passes the dates that were ahead of it.
TimePasses ==
    /\ early # {} /\ early' = {}
    /\ UNCHANGED <<room, codes, net, links>>

-----------------------------------------------------------------------------
Users ==
    \/ \E m, i \in Member : \E pin \in Id : Join(m, i, pin)
    \/ \E m, i \in Member : PinInvite(m, i)
    \/ \E m, n \in Member : \E ahead \in BOOLEAN : Transfer(m, n, ahead)
    \/ \E m, x \in Member : \E heard \in BOOLEAN : Kick(m, x, heard)
    \/ \E m \in Member : Restart(m)

Gossip ==
    \/ \E m, n \in Member : Greet(m, n) \/ Ping(m, n)
    \/ \E m \in Member : Rotate(m) \/ Linger(m)
    \/ \E n \in Member, f \in net : Deliver(n, f)
    \/ \E f \in net : Drop(f)
    \/ TimePasses

Next == Users \/ Gossip

\* Connections are made again for as long as both ends want them, and each starts
\* with the greetings; timers fire and clocks go on.  Nothing else has to happen:
\* a frame may be lost.
Fairness ==
    /\ \A m \in Member : \A n \in Member \ {m} : WF_vars(Greet(m, n))
    /\ \A m \in Member : WF_vars(Rotate(m))
    /\ WF_vars(TimePasses)

Spec == Init /\ [][Next]_vars /\ Fairness

-----------------------------------------------------------------------------
(* Properties *)

\* The state has its types: a chain is no longer than the cap, and an early link
\* has been signed.
TypeOK ==
    /\ room \in [Member -> Room]
    /\ \A m \in Member : Len(room[m].chain) <= Limit
    /\ codes \in Code
    /\ net \subseteq Hello \union Transferred \union Rekey
    /\ links \in Seq(Link) /\ early \subseteq {links[i] : i \in DOMAIN links}

\* docs/rooms-ownership-transfer.md: the room has one owner at any moment.  Two
\* members that both took themselves for it could sign two lines of handovers,
\* and the room would be split for good.
SoleOwner == \A m, n \in Member : room[m].owner = m /\ room[n].owner = n => m = n

\* A rotation is due only at the owner: it signs the new code with a key that the
\* others must still accept when the timer fires.
KickByOwner == \A m \in Member : room[m].pending # NoOne => room[m].owner = m

\* Nobody takes a member for the owner that it knows to have been removed.
NoBannedOwner == \A m \in Member : room[m].owner \notin room[m].bans

\* The owners so far.
Owners == <<Founder>> \o [i \in DOMAIN links |-> links[i].new]

\* The owners, as everybody sees them, are one line that only its end extends; what
\* a member has proof of is the date of the last link of its chain.
Line == INSTANCE OwnerLine WITH
    line <- Owners,
    owner <- [m \in Member |-> room[m].owner],
    proved <- [m \in Member |-> TransferAt(room[m].chain)]

ImplementsOwnerLine == Line!LineSpec

Current(m) == Alive(m) /\ room[m].code = codes

\* The users leave the room alone from some time on.
Calm == <>[][Gossip]_vars

\* A handover reaches everybody that stays on the current code, though its frame
\* may be lost, the next one may overtake it, and its recipient may never hear of
\* it; and a member that knows the new owner to have been removed refuses it.
HandoverReaches ==
    Calm => <>[](\A m \in Member : Current(m) =>
                    room[m].owner = Holder \/ Holder \in room[m].bans)

\* The removals that the owner knows of reach everybody on the current code, unless
\* they know of one that the owner has not heard of: such a member refuses the
\* owner's list for ever.
BansReach ==
    Calm => <>[](\A m \in Member : Current(m) /\ Current(Holder) =>
                    \/ room[Holder].bans \subseteq room[m].bans
                    \/ ~(room[m].bans \subseteq room[Holder].bans))
=============================================================================
