----------------------------- MODULE RoomFiles ------------------------------
(***************************************************************************)
(* One shared file of a room: shares, removals and revivals, gossiped in   *)
(* any order.                                                              *)
(*                                                                         *)
(* A removal leaves a tombstone.  One that the owner of the room or the    *)
(* author of the copy has signed is passed on, and is lifted only by a     *)
(* revival that the owner or the remover has signed; a removal by anybody  *)
(* else hides the file from the remover alone.  A revival that was         *)
(* accepted leaves a guard against the removals it lifts.                  *)
(*                                                                         *)
(* A signature is whom it is by.  The room may be handed on once; how the  *)
(* members come to hear of it is RoomOwner's.                              *)
(***************************************************************************)
EXTENDS Integers, FiniteSets

CONSTANTS
    Member,     \* the members of the room
    Founder,    \* its first owner
    Heir,       \* its second owner (Founder: the room is not handed on)
    NoOne,      \* the empty string of the code: nobody's signature
    Fast,       \* those whose clock is ahead
    Lead,       \* how far: less than the 60 seconds that the others put up with
    MaxTime     \* bound: instants at which something happens, and one

ASSUME FilesAssumption ==
    /\ Founder \in Member /\ Heir \in Member /\ NoOne \notin Member
    /\ Fast \subseteq Member /\ Lead \in Nat /\ MaxTime \in Nat \ {0}

VARIABLES
    room,       \* room[m]: what m knows of the file, and what the store has of it
    owner,      \* owner[m]: the member m takes for the owner
    now,        \* the time
    net,        \* frames that may arrive, any number of times
    revivals    \* history: every revival that was signed

vars == <<room, owner, now, net, revivals>>

-----------------------------------------------------------------------------
Id == Member \union {NoOne}
Time == 1..(MaxTime + Lead)
Never == 0

\* A revival, by its signer, of the removals up to `at`.
Revival == [by : Id, at : Time \union {Never}]
NoRevival == [by |-> NoOne, at |-> Never]
\* A copy as m lists it: its author, when it was added, and what revived it.
Copy == [by : Member, at : Time, rev : Revival]
\* A signed removal.
Removal == [by : Member, at : Time]

\* files, tombstones (`kept` in the store), tombSigs, revives, pendingTombs
Room == [copies : SUBSET Copy, tomb : Time \union {Never}, kept : Time \union {Never},
         proof : Id, guard : Time \union {Never}, pending : SUBSET Removal]
Blank == [copies |-> {}, tomb |-> Never, kept |-> Never, proof |-> NoOne,
          guard |-> Never, pending |-> {}]

Add == [kind : {"add"}, copy : Copy]
Del == [kind : {"del"}, del : Removal]

Later(s, t) == IF s > t THEN s ELSE t
Earlier(s, t) == IF s < t THEN s ELSE t
Date(m) == IF m \in Fast THEN now + Lead ELSE now

Holds(r) == r.copies # {}
Copies(r, by) == {c \in r.copies : c.by = by}

-----------------------------------------------------------------------------
(* Removals *)

\* canDeleteRoomFile; the author is known from the copy that is held.
CanDelete(m, r, by) == by = owner[m] \/ Copies(r, by) # {}

\* A mutant: a revival is taken for a pardon of every removal to come.
OutranksRevived(r, at) == (\A c \in r.copies : c.at <= at) /\ r.guard = Never
\* A mutant: a revival counts for nothing.
OutranksGuard(r, at) == \A c \in r.copies : c.at <= at
\* currentRoomDeletion: neither the copy nor a revival is newer.
Outranks(r, at) == (\A c \in r.copies : c.at <= at) /\ r.guard < at

\* applyTombstone
Buried(r, at) ==
    IF Outranks(r, at)
    THEN [r EXCEPT !.copies = {}, !.guard = Never, !.tomb = Later(at, @)]
    ELSE r

\* The proof goes with the removal that won.
Proven(r, d) ==
    IF r.tomb = d.at THEN [r EXCEPT !.proof = d.by, !.kept = Later(d.at, @)] ELSE r

\* rememberPendingTomb: the newest.
Pended(r, d) ==
    IF \E p \in r.pending : p.at >= d.at THEN r ELSE [r EXCEPT !.pending = {d}]

\* acceptRemoteTomb.  A removal of what is not held may be its author's.
RemovalHeard(m, r, d) ==
    IF r.tomb >= d.at /\ r.proof # NoOne THEN r
    ELSE IF CanDelete(m, r, d.by) THEN [Proven(Buried(r, d.at), d) EXCEPT !.pending = {}]
    ELSE IF Holds(r) THEN r ELSE Pended(r, d)

-----------------------------------------------------------------------------
(* Revivals *)

\* A mutant: the proof outlives the removal.
ClearedTomb(r) ==
    [r EXCEPT !.tomb = Never, !.kept = IF r.tomb = Never THEN r.kept ELSE Never]
\* clearTombstone
Cleared(r) ==
    [r EXCEPT !.tomb = Never, !.proof = NoOne, !.kept = IF r.tomb = Never THEN r.kept ELSE Never]

\* recordRevive
Guarded(r, at) == [r EXCEPT !.guard = Later(at, @)]

\* A mutant: any revival will do, be it of an earlier removal.
RevivesEarlier(m, rev, remover, at) == rev.by \in {owner[m], remover} \ {NoOne}
\* A mutant: only the owner's will.
RevivesOwner(m, rev, remover, at) == rev.at >= at /\ rev.by = owner[m]
\* canReviveRoomFile, for a removal by `remover` at a time.
Revives(m, rev, remover, at) == rev.at >= at /\ rev.by \in {owner[m], remover} \ {NoOne}

\* A mutant: the file is listed once more.
ListedAgain(r, c) == [r EXCEPT !.copies = @ \union {c}]
Listed(r, c) == IF Holds(r) THEN r ELSE [r EXCEPT !.copies = {c}]

\* A mutant: a revival need not be of the pending removal.
PendingMetRevived(m, r, p, c) ==
    LET rest == [r EXCEPT !.pending = {}]
    IN  IF c.rev # NoRevival THEN Listed(Guarded(rest, c.rev.at), c)
        ELSE Proven(Buried(rest, p.at), p)
\* applyPendingTomb, for a removal p by the owner or by the author of the copy.
PendingMet(m, r, p, c) ==
    LET rest == [r EXCEPT !.pending = {}]
    IN  IF Revives(m, c.rev, p.by, p.at) THEN Listed(Guarded(rest, c.rev.at), c)
        ELSE Proven(Buried(rest, p.at), p)

\* mergeFile.  A date in the future is taken for today's.
CopyHeard(m, r, sent) ==
    LET c == [sent EXCEPT !.at = Earlier(@, Date(m))]
        met == {p \in r.pending : p.by \in {owner[m], c.by}}
    IN  IF r.tomb # Never
        THEN IF r.proof # NoOne
             THEN IF Revives(m, c.rev, r.proof, r.tomb)
                  THEN Listed(Guarded(Cleared(r), c.rev.at), c) ELSE r
             ELSE IF c.at > r.tomb THEN Listed(Cleared(r), c) ELSE r
        ELSE IF met # {} THEN PendingMet(m, r, CHOOSE p \in met : TRUE, c)
        ELSE Listed(r, c)

-----------------------------------------------------------------------------
Init ==
    /\ room = [m \in Member |-> Blank]
    /\ owner = [m \in Member |-> Founder]
    /\ now = 1 /\ net = {} /\ revivals = {}

(* The user's commands.  No two fall on the same instant. *)

Passes == now < MaxTime /\ now' = now + 1

\* addFiles, where the file is not listed.  If a signed removal stands in the way,
\* only the owner and the remover may, and sign a revival.
Share(m) ==
    LET r == room[m]
        rev == IF r.proof = NoOne THEN NoRevival ELSE [by |-> m, at |-> r.tomb]
        c == [by |-> m, at |-> Date(m), rev |-> rev]
    IN  /\ Passes /\ ~Holds(r)
        /\ r.proof # NoOne => m \in {owner[m], r.proof}
        /\ room' = [room EXCEPT ![m] = Listed(Guarded(Cleared(r), rev.at), c)]
        /\ net' = net \union {[kind |-> "add", copy |-> c]}
        /\ revivals' = IF rev = NoRevival THEN revivals ELSE revivals \union {rev}
        /\ UNCHANGED owner

\* removeFile: the store takes note of it first, and broadcastDelete sends it, come
\* of it what may.
Remove(m) ==
    LET r == room[m]
        d == [by |-> m, at |-> Date(m)]
        noted == [r EXCEPT !.kept = Later(d.at, @)]
        buried == Buried(noted, d.at)
    IN  /\ Passes /\ Holds(r)
        /\ room' = [room EXCEPT ![m] =
                      IF CanDelete(m, r, m) THEN Proven(buried, d) ELSE buried]
        /\ net' = net \union {[kind |-> "del", del |-> d]}
        /\ UNCHANGED <<owner, revivals>>

\* startRoom, from what the store holds of r.  restoreManifestFile makes up the copy,
\* its revival left out.
Restarted(r) ==
    LET bare == {[c EXCEPT !.rev = NoRevival] : c \in r.copies}
    IN  [r EXCEPT !.copies = {c \in bare : c.at > r.kept}, !.tomb = r.kept,
                  !.proof = IF r.kept = Never THEN NoOne ELSE @, !.pending = {}]

\* The application is closed or killed and started again.
Restart(m) ==
    /\ room' = [room EXCEPT ![m] = Restarted(room[m])]
    /\ UNCHANGED <<owner, now, net, revivals>>

\* removeFile while the engine window is not there: the store takes note of it, and
\* the window that comes back starts from that.
RemoveUnready(m) ==
    LET r == room[m]
    IN  /\ Passes /\ Holds(r)
        /\ room' = [room EXCEPT ![m] = Restarted([r EXCEPT !.kept = Later(Date(m), @)])]
        /\ UNCHANGED <<owner, net, revivals>>

\* The owner hands the room on, and is the first to know.
HandOver ==
    /\ Heir # Founder /\ owner[Founder] = Founder
    /\ owner' = [owner EXCEPT ![Founder] = Heir]
    /\ UNCHANGED <<room, now, net, revivals>>

(* The gossip *)

\* m hears of the handover; the new owner signs every tombstone it has.
Learn(m) ==
    LET r == room[m]
    IN  /\ owner[Founder] = Heir /\ owner[m] # Heir
        /\ owner' = [owner EXCEPT ![m] = Heir]
        /\ room' = [room EXCEPT ![m] = IF m = Heir /\ r.tomb # Never
                      THEN [r EXCEPT !.proof = m, !.kept = Later(r.tomb, @)] ELSE r]
        /\ UNCHANGED <<now, net, revivals>>

Hears(n, r) ==
    /\ r # room[n]
    /\ room' = [room EXCEPT ![n] = r]
    /\ UNCHANGED <<owner, now, net, revivals>>

\* A hello tells of the copy, and of the removal that there is proof of.
Greet(m, n) ==
    LET r == room[m]
    IN  /\ m # n
        /\ \/ \E c \in r.copies : Hears(n, CopyHeard(n, room[n], c))
           \/ /\ r.proof # NoOne
              /\ Hears(n, RemovalHeard(n, room[n], [by |-> r.proof, at |-> r.tomb]))

\* A frame is relayed and may arrive in any order, more than once, or never.  One's
\* own removals are dropped; an add names no sender, and comes back once its id is
\* forgotten (a restart, SEEN_GID_CAP).
Deliver(n, f) ==
    \/ f.kind = "add" /\ Hears(n, CopyHeard(n, room[n], f.copy))
    \/ /\ f.kind = "del" /\ f.del.by # n
       /\ Holds(room[n]) => CanDelete(n, room[n], f.del.by)
       /\ Hears(n, RemovalHeard(n, room[n], f.del))

Tick ==
    /\ Passes
    /\ UNCHANGED <<room, owner, net, revivals>>

-----------------------------------------------------------------------------
Users ==
    \/ \E m \in Member : Share(m) \/ Remove(m) \/ RemoveUnready(m) \/ Restart(m)
    \/ HandOver

Gossip ==
    \/ \E m \in Member : Learn(m)
    \/ \E m, n \in Member : Greet(m, n)
    \/ \E n \in Member, f \in net : Deliver(n, f)
    \/ Tick

Next == Users \/ Gossip

\* Members meet again and again, and each time greet.
Fairness ==
    /\ \A m \in Member : WF_vars(Learn(m))
    /\ \A m \in Member : \A n \in Member \ {m} : WF_vars(Greet(m, n))

Spec == Init /\ [][Next]_vars /\ Fairness

-----------------------------------------------------------------------------
(* Properties *)

\* The state has its types; at most one copy is listed and one removal pending.
TypeOK ==
    /\ room \in [Member -> Room]
    /\ \A m \in Member : \A c, d \in room[m].copies : c = d
    /\ \A m \in Member : \A c, d \in room[m].pending : c = d
    /\ owner \in [Member -> {Founder, Heir}]
    /\ now \in 1..MaxTime
    /\ net \subseteq Add \union Del
    /\ revivals \subseteq Revival

\* What a member lists it does not take for removed: no tombstone and no proof stands
\* against it, in whatever order frames came and whatever a restart found in the store.
ListedOrRemoved ==
    \A m \in Member : Holds(room[m]) => room[m].tomb = Never /\ room[m].proof = NoOne

\* A removal that somebody has proof of is lifted there, restarts and handovers
\* included, by nothing else than a signed revival: of this removal or a later one,
\* by whom the member takes for the owner or by the remover.
LiftedByRight ==
    [][\A m \in Member : room[m].proof # NoOne /\ room'[m].tomb = Never =>
          \E rev \in revivals' : rev.at >= room[m].tomb /\ rev.by \in {owner[m], room[m].proof}]_vars

\* room-engine.ts: a re-gossiped old removal cannot remove what was revived since.
RevivalStands ==
    [][\A m \in Member : Holds(room[m]) /\ room'[m].proof # NoOne =>
          room'[m].tomb > room[m].guard]_vars

\* m has neither the file nor a tombstone, and what becomes of its pending removals is
\* right: one that is replaced gives way to a newer one, and no copy that it is for is
\* listed beside it.
Heeded(m, r, s) ==
    ~Holds(r) /\ r.tomb = Never =>
        \A p \in r.pending :
            \/ s.proof # NoOne
            \/ s.guard >= p.at
            \/ /\ \E q \in s.pending : q.at >= p.at
               /\ \A c \in s.copies : p.by \notin {owner[m], c.by}

\* A removal that comes before the file it removes is kept until it can be judged:
\* nothing that others send makes a member forget it, or list the file in spite of it,
\* unless a removal has been proven or a revival outranks it.
PendingHeeded == [][Gossip => \A m \in Member : Heeded(m, room[m], room'[m])]_vars

\* The users leave off, and only the gossip goes on.
Calm == <>[][Gossip]_vars

\* A removal by the owner, or by the author of the copy, reaches every copy that is
\* neither newer nor guarded by a revival.
RemovalReaches ==
    Calm => <>[](\A m, n \in Member : \A c \in room[n].copies :
                    /\ room[m].proof \in {owner[Founder], c.by}
                    /\ c.at <= room[m].tomb
                    => room[n].guard >= room[m].tomb)

\* A revival that comes with a copy reaches everybody who holds the removal against it.
RevivalReaches ==
    Calm => <>[](\A m, n \in Member : \A c \in room[m].copies :
                    /\ room[n].proof # NoOne
                    /\ c.rev.by \in {owner[Founder], room[n].proof}
                    => c.rev.at < room[n].tomb)
=============================================================================
